----------------------------- MODULE NodeProfile -----------------------------
(***************************************************************************)
(* The operator's NodeProfile controller with several profiles and nodes:  *)
(* users and the cluster change profiles and nodes while the controller's  *)
(* single worker reconciles one profile at a time from a snapshot; the     *)
(* webhook admits every write of a profile, the controller's own included. *)
(*                                                                         *)
(* A Node event enqueues every profile and a node's heartbeat is one, so   *)
(* the worker may take up any profile at any time (Read).                  *)
(***************************************************************************)
EXTENDS PoolAssignment, FiniteSets

CONSTANTS
    Profile,
    Revisions,    \* Revisions[p]: the specs users give profile p, one after another
    MaxOps,       \* bound on what users do to profiles
    MaxMoves,     \* bound on nodes joining and leaving
    MaxFails,     \* bound on failed provisioning runs, reconciles and webhook reads
    None

ASSUME ProfileAssumption ==
    /\ Revisions \in [Profile -> Seq(NodePool)]
    /\ {MaxOps, MaxMoves, MaxFails} \subseteq Nat
    /\ None \notin Profile

VARIABLES
    \* The NodeProfile objects.
    rev,          \* the spec p has; 0 if there is no object
    uid,          \* the spec p was created with, which identifies the object; 0 if none
    used,         \* the last of Revisions[p] that was used
    deleting,     \* profiles with a deletion timestamp
    fin,          \* profiles with the cleanup finalizer
    status,
    \* DaemonSets, nodes.
    ds, cleanup,  \* template of the provisioner and cleanup DaemonSets, or None
    cready,       \* nodes where the cleanup pod is ready
    ran,          \* ran[n][p]: the template that p's pod on n has run with
    fleet, advert,
    \* The worker.
    pc, cur, view,
    ops, moves, fails,
    \* The webhook.
    known         \* specs of p (0: no object) that a check of another profile may go by

objects == <<rev, uid, used, deleting, fin>>
sets    == <<ds, cleanup, cready, ran>>
worker  == <<pc, cur, view>>
budget  == <<ops, moves, fails>>
vars    == <<objects, status, sets, fleet, advert, worker, budget, known>>

-----------------------------------------------------------------------------
Existing == {p \in Profile : rev[p] > 0}

Pools == [p \in Existing |-> Revisions[p][rev[p]]]

\* metadata.generation counts the specs of one object.
Generation(p) == rev[p] - uid[p] + 1

Bare == [by |-> None, gen |-> 0, state |-> "none"]

Others(p) == namedPoolsExcept(Existing, Pools, p)
Key(p) == resolvePoolKey(Pools[p], fleet)
Assigned(p) == {n \in fleet : nodeAssigned(Pools[p], Key(p), Others(p), n)}

\* poolCounts: assigned nodes that advertise this profile's generation.
ReadyNodes(p) ==
    {n \in Assigned(p) : /\ advert[n].state = "ready"
                         /\ advert[n].by = p /\ advert[n].gen = Generation(p)}

assignedNodeFailure(p) == \E n \in Assigned(p) : advert[n].state = "error"

Reason(p) ==
    IF ~isDefaultProfile(Pools[p]) /\ Assigned(p) = {} THEN "EmptyPool"
    ELSE IF assignedNodeFailure(p) THEN "NodeFailure"
    ELSE IF ReadyNodes(p) = Assigned(p) THEN "AllNodesProvisioned"
    ELSE "Provisioning"

\* The DaemonSet template: the affinity, and the revision and owner it is made for. The
\* cleanup DaemonSet's (buildCleanupDaemonSet) differs in name, labels and mode.
buildProfileDaemonSet(p) ==
    [rev |-> rev[p], uid |-> uid[p], aff |-> profileAffinity(Pools[p], Key(p), Others(p))]

\* What one reconcile knows of its profile: computed from the objects as read.
Snapshot(p) ==
    [rev |-> rev[p], uid |-> uid[p],
     tmpl |-> buildProfileDaemonSet(p),
     owned |-> Assigned(p),
     status |-> [gen |-> Generation(p), key |-> Key(p), assigned |-> Cardinality(Assigned(p)),
                 ready |-> Cardinality(ReadyNodes(p)), reason |-> Reason(p)]]

NoStatus == [gen |-> 0, key |-> NoKey, assigned |-> 0, ready |-> 0, reason |-> "none"]

SelectedBy(t) == IF t = None THEN {} ELSE {n \in fleet : Selects(t.aff, n)}

Init ==
    /\ rev = [p \in Profile |-> 0] /\ uid = rev /\ used = rev
    /\ deleting = {} /\ fin = {}
    /\ known = [p \in Profile |-> {0}]
    /\ status = [p \in Profile |-> NoStatus]
    /\ ds = [p \in Profile |-> None] /\ cleanup = ds
    /\ cready = [p \in Profile |-> {}]
    /\ ran = [n \in Node |-> [p \in Profile |-> None]]
    /\ fleet = Node
    /\ advert = [n \in Node |-> Bare]
    /\ pc = "idle" /\ cur = None /\ view = None
    /\ ops = 0 /\ moves = 0 /\ fails = 0

-----------------------------------------------------------------------------
(* The webhook lists the profiles from its informer's cache, and a write it *)
(* admits lands later: what it goes by may be behind the objects, more so   *)
(* for one profile than for another. A write passes if it conflicts with no *)
(* profile as listed, or if the profiles cannot be listed.                  *)
Listings == {l \in [Profile -> UNION {known[q] : q \in Profile}] : \A q \in Profile : l[q] \in known[q]}

\* ValidateNoPoolConflicts with what the listing says of the other profiles.
Conflicts(p, pool, l) ==
    LET listed == {q \in Profile : l[q] > 0}
    IN  ~ValidateNoPoolConflicts(pool, namedPoolsExcept(listed, [q \in listed |-> Revisions[q][l[q]]], p))

Admitted(p, pool) ==
    \/ (\E l \in Listings : ~Conflicts(p, pool, l)) /\ UNCHANGED fails
    \/ fails < MaxFails /\ fails' = fails + 1

Refused(p, pool) == \E l \in Listings : Conflicts(p, pool, l)

\* p has now the spec r (0: no object), which a check need not know yet.
Lands(p, r) == rev' = [rev EXCEPT ![p] = r] /\ known' = [known EXCEPT ![p] = @ \cup {r}]

\* The caches catch up, and the writes whose checks were made before that have landed.
CatchUp ==
    /\ known # [p \in Profile |-> {rev[p]}]
    /\ known' = [p \in Profile |-> {rev[p]}]
    /\ UNCHANGED <<objects, status, sets, fleet, advert, worker, budget>>

\* A user writes p's next spec.
WriteSpec(p) ==
    /\ ops < MaxOps /\ used[p] < Len(Revisions[p])
    /\ Admitted(p, Revisions[p][used[p] + 1])
    /\ Lands(p, used[p] + 1)
    /\ ops' = ops + 1
    /\ used' = [used EXCEPT ![p] = @ + 1]
    /\ UNCHANGED <<deleting, fin, sets, fleet, advert, worker, moves>>

CreateProfile(p) ==
    /\ rev[p] = 0
    /\ WriteSpec(p)
    /\ uid' = [uid EXCEPT ![p] = used[p] + 1]
    /\ UNCHANGED status

EditProfile(p) == rev[p] > 0 /\ WriteSpec(p) /\ UNCHANGED <<uid, status>>

\* The API server removes an object without finalizers.
Removed(p) ==
    /\ Lands(p, 0) /\ uid' = [uid EXCEPT ![p] = 0]
    /\ status' = [status EXCEPT ![p] = NoStatus]

DeleteProfile(p) ==
    /\ rev[p] > 0 /\ p \notin deleting /\ ops < MaxOps
    /\ ops' = ops + 1
    /\ IF p \in fin THEN deleting' = deleting \cup {p} /\ UNCHANGED <<rev, uid, status, known>>
       ELSE Removed(p) /\ UNCHANGED deleting
    /\ UNCHANGED <<used, fin, sets, fleet, advert, worker, moves, fails>>

\* Owner-reference garbage collection of a DaemonSet whose profile is gone.
CollectGarbage(p) ==
    /\ ds[p] # None
    /\ ds[p].uid # uid[p]
    /\ ds' = [ds EXCEPT ![p] = None]
    /\ ran' = [n \in Node |-> [ran[n] EXCEPT ![p] = None]]
    /\ UNCHANGED <<objects, status, cleanup, cready, fleet, advert, worker, budget, known>>

-----------------------------------------------------------------------------
(* Reconcile. Writes fail with a conflict if the object changed since Read. *)
Fresh == rev[cur] = view.rev /\ uid[cur] = view.uid

Done == pc' = "idle" /\ cur' = None /\ view' = None

Goto(step) == pc' = step /\ UNCHANGED <<cur, view>>

Read(p) ==
    /\ pc = "idle" /\ rev[p] > 0
    /\ p \in deleting => p \in fin
    /\ cur' = p /\ view' = Snapshot(p)
    /\ pc' = IF p \in deleting THEN "cleanup" ELSE "finalizer"
    /\ UNCHANGED <<objects, status, sets, fleet, advert, budget, known>>

\* Variant: a refused or conflicting update does not end the reconcile.
AddFinalizer_Swallow ==
    /\ pc = "finalizer" /\ Goto("daemonset")
    /\ \/ cur \in fin /\ UNCHANGED <<fin, fails>>
       \/ /\ cur \notin fin /\ Fresh
          /\ Admitted(cur, Pools[cur])
          /\ fin' = fin \cup {cur}
       \/ /\ cur \notin fin
          /\ Fresh => Refused(cur, Pools[cur])
          /\ UNCHANGED <<fin, fails>>
    /\ UNCHANGED <<rev, uid, used, deleting, status, sets, fleet, advert, ops, moves, known>>

\* Variant: the finalizer is written without regard to the object's version.
AddFinalizer_Blind ==
    /\ pc = "finalizer" /\ Goto("daemonset")
    /\ fin' = fin \cup {cur}
    /\ UNCHANGED <<rev, uid, used, deleting, status, sets, fleet, advert, ops, moves, fails, known>>

AddFinalizer ==
    /\ pc = "finalizer"
    /\ \/ /\ cur \in fin
          /\ Goto("daemonset") /\ UNCHANGED <<fin, fails>>
       \/ /\ cur \notin fin /\ Fresh
          /\ Admitted(cur, Pools[cur])
          /\ fin' = fin \cup {cur} /\ Goto("daemonset")
       \/ /\ cur \notin fin
          /\ Fresh => Refused(cur, Pools[cur])
          /\ Done /\ UNCHANGED <<fin, fails>>
    /\ UNCHANGED <<rev, uid, used, deleting, status, sets, fleet, advert, ops, moves, known>>

\* The DaemonSet controller runs a pod on each selected node and stops the others.
Reschedule(p, t) ==
    ran' = [n \in Node |-> IF n \in SelectedBy(t) THEN ran[n] ELSE [ran[n] EXCEPT ![p] = None]]

\* SetControllerReference refuses a DaemonSet that an earlier object of this name owns.
ensureProfileDaemonSet ==
    /\ pc = "daemonset"
    /\ IF ds[cur] # None /\ ds[cur].uid # view.uid
       THEN Done /\ UNCHANGED <<ds, ran>>
       ELSE /\ ds' = [ds EXCEPT ![cur] = view.tmpl]
            /\ Reschedule(cur, view.tmpl)
            /\ Goto("status")
    /\ UNCHANGED <<objects, status, cleanup, cready, fleet, advert, budget, known>>

updateStatus ==
    /\ pc = "status"
    /\ status' = IF Fresh /\ cur \notin deleting THEN [status EXCEPT ![cur] = view.status] ELSE status
    /\ Done
    /\ UNCHANGED <<objects, sets, fleet, advert, budget, known>>

\* The cleanup DaemonSet has pods, and all are ready.
CleanupReady == /\ cleanup[cur] # None /\ SelectedBy(cleanup[cur]) # {}
                /\ SelectedBy(cleanup[cur]) \subseteq cready[cur]

\* Variant: a profile without nodes waits for its cleanup DaemonSet, too.
ensureCleanupComplete_Always ==
    /\ pc = "cleanup"
    /\ cleanup' = [cleanup EXCEPT ![cur] = view.tmpl]
    /\ cready' = [cready EXCEPT ![cur] = IF cleanup[cur] = view.tmpl THEN @ ELSE {}]
    /\ UNCHANGED status
    /\ IF CleanupReady THEN Goto("release") ELSE Done
    /\ UNCHANGED <<objects, ds, ran, fleet, advert, budget, known>>

ensureCleanupComplete ==
    /\ pc = "cleanup"
    /\ IF view.owned = {}
       THEN Goto("release") /\ UNCHANGED <<cleanup, cready, status>>
       ELSE /\ cleanup' = [cleanup EXCEPT ![cur] = view.tmpl]
            /\ cready' = [cready EXCEPT ![cur] = IF cleanup[cur] = view.tmpl THEN @ ELSE {}]
            /\ IF CleanupReady THEN Goto("release") /\ UNCHANGED status
               ELSE /\ status' = IF Fresh THEN [status EXCEPT ![cur].reason = "CleanupPending"] ELSE status
                    /\ Done
    /\ UNCHANGED <<objects, ds, ran, fleet, advert, budget, known>>

reconcileDelete ==
    /\ pc = "release"
    /\ cleanup' = [cleanup EXCEPT ![cur] = None]
    /\ cready' = [cready EXCEPT ![cur] = {}]
    /\ \/ /\ Fresh
          /\ Admitted(cur, Pools[cur])
          /\ Removed(cur)
          /\ fin' = fin \ {cur} /\ deleting' = deleting \ {cur}
       \/ /\ Fresh => Refused(cur, Pools[cur])
          /\ UNCHANGED <<rev, uid, status, fin, deleting, fails, known>>
    /\ Done
    /\ UNCHANGED <<used, ds, ran, fleet, advert, ops, moves>>

\* An API call fails, or the operator restarts: the reconcile ends and is retried.
ReconcileFails ==
    /\ pc # "idle" /\ fails < MaxFails /\ fails' = fails + 1
    /\ \/ UNCHANGED <<cleanup, cready>>
       \/ /\ pc = "release"
          /\ cleanup' = [cleanup EXCEPT ![cur] = None] /\ cready' = [cready EXCEPT ![cur] = {}]
    /\ Done
    /\ UNCHANGED <<objects, status, ds, ran, fleet, advert, ops, moves, known>>

-----------------------------------------------------------------------------
(* Nodes and their pods (entrypoint.sh, in one step).                       *)
Publish(n, p, s) == advert' = [advert EXCEPT ![n] =
    [by |-> p, gen |-> ds[p].rev - ds[p].uid + 1, state |-> s]]

\* A new pod provisions the node, or a restarted one after an error.
Provision(n, p) ==
    /\ n \in SelectedBy(ds[p])
    /\ ran[n][p] # ds[p] \/ advert[n].state = "error"
    /\ ran' = [ran EXCEPT ![n][p] = ds[p]]
    /\ \/ Publish(n, p, "ready") /\ UNCHANGED fails
       \/ /\ fails < MaxFails /\ fails' = fails + 1
          /\ advert' = [advert EXCEPT ![n] = [Bare EXCEPT !.state = "error"]]
    /\ UNCHANGED <<objects, status, ds, cleanup, cready, fleet, worker, ops, moves, known>>

\* The cleanup pod starts, which makes it ready; its script may not get to the end.
CleanupPod(n, p) ==
    /\ n \in SelectedBy(cleanup[p]) \ cready[p]
    /\ cready' = [cready EXCEPT ![p] = @ \cup {n}]
    /\ advert' \in {advert, [advert EXCEPT ![n] = Bare]}
    /\ UNCHANGED <<objects, status, ds, cleanup, ran, fleet, worker, budget, known>>

MoveNode(n) ==
    /\ moves < MaxMoves /\ moves' = moves + 1
    /\ fleet' = IF n \in fleet THEN fleet \ {n} ELSE fleet \cup {n}
    /\ advert' = [advert EXCEPT ![n] = Bare]
    /\ ran' = [ran EXCEPT ![n] = [p \in Profile |-> None]]
    /\ cready' = [p \in Profile |-> cready[p] \ {n}]
    /\ UNCHANGED <<objects, status, ds, cleanup, worker, ops, fails, known>>

Step == AddFinalizer \/ ensureProfileDaemonSet \/ updateStatus \/ ensureCleanupComplete \/ reconcileDelete

Next ==
    \/ \E p \in Profile : CreateProfile(p) \/ EditProfile(p) \/ DeleteProfile(p) \/ CollectGarbage(p) \/ Read(p)
    \/ CatchUp \/ Step \/ ReconcileFails
    \/ \E n \in Node : MoveNode(n)
    \/ \E n \in Node, p \in Profile : Provision(n, p) \/ CleanupPod(n, p)

Spec == Init /\ [][Next]_vars

FairSpec ==
    /\ Spec /\ WF_vars(Step) /\ WF_vars(CatchUp)
    /\ \A p \in Profile : SF_vars(Read(p)) /\ WF_vars(CollectGarbage(p))
    /\ \A n \in Node, p \in Profile : WF_vars(Provision(n, p)) /\ WF_vars(CleanupPod(n, p))

-----------------------------------------------------------------------------
Template == [rev : Nat, uid : Nat,
             aff : [key : PoolKey \cup {NoKey}, op : {"In", "NotIn", "Any"}, values : SUBSET Pool]]

\* Every variable has its type, and the objects' numbers are consistent: a spec in
\* use was given, and the object is not younger than its spec.
ProfileTypeOK ==
    /\ rev \in [Profile -> Nat] /\ uid \in [Profile -> Nat] /\ used \in [Profile -> Nat]
    /\ \A p \in Profile : uid[p] <= rev[p] /\ rev[p] <= used[p] /\ used[p] <= Len(Revisions[p])
    /\ \A p \in Existing : uid[p] > 0
    /\ deleting \subseteq fin /\ fin \subseteq Existing
    /\ known \in [Profile -> SUBSET Nat] /\ \A p \in Profile : rev[p] \in known[p]
    /\ ds \in [Profile -> Template \cup {None}] /\ cleanup \in [Profile -> Template \cup {None}]
    /\ fleet \subseteq Node
    /\ pc \in {"idle", "finalizer", "daemonset", "status", "cleanup", "release"}
    /\ pc # "idle" => cur \in Profile

\* A profile whose DaemonSet is out carries the finalizer, so that deleting the
\* profile cannot skip host cleanup, whatever happens between Reconcile's writes.
CleanupNotSkipped ==
    \A p \in Profile : ds[p] # None /\ ds[p].uid = uid[p] => p \in fin

\* No profile names a pool that another one names.
PoolsDisjoint == \A p \in Existing : ValidateNoPoolConflicts(Pools[p], Others(p))

\* When changes stop, and unless two profiles name one pool, each profile's DaemonSet
\* selects exactly the nodes assigned to it and its status is that of the present
\* fleet, although a reconcile may have written from a snapshot that others made
\* stale, and the webhook may have refused its writes for a conflict that is past.
OwnershipSettles ==
    <>[](PoolsDisjoint =>
            \A p \in Existing \ deleting : /\ SelectedBy(ds[p]) = Assigned(p)
                                           /\ status[p] = Snapshot(p).status)

\* A deleted profile goes away, and its DaemonSets with it, unless two profiles name
\* one pool (the webhook then refuses to release the finalizer).
DeletionEnds ==
    /\ <>[](PoolsDisjoint => deleting = {})
    /\ \A p \in Profile : <>[](rev[p] = 0 => ds[p] = None /\ cleanup[p] = None)

\* No node is selected by the DaemonSets of two profiles, also when the webhook let in
\* a conflict that it did not see: "the reconcile loop still rejects a conflict by
\* refusing to double-own a pool" (NodeProfileValidator.Handle).
OneDaemonSetPerNode ==
    \A p, q \in Existing :
        p # q /\ ds[p] # None /\ ds[q] # None => SelectedBy(ds[p]) \cap SelectedBy(ds[q]) = {}
=============================================================================

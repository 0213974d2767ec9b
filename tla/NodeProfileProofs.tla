-------------------------- MODULE NodeProfileProofs --------------------------
(* Ownership of nodes, for any fleet, any labels and any set of profiles;     *)
(* the finalizer's guarantee for any number of profiles, nodes, edits, reads  *)
(* that fail or lag and reconciles that fail. And, of what the                *)
(* nodes keep for their launches, the types of the AppCDS cache and the keep  *)
(* rule of its eviction, for any number of launches and keys (CacheInv).      *)
EXTENDS NodeProfile, CDSCache, WellFoundedInduction, TLAPS

----------------------------------------------------------------------------
(* PoolAssignment.                                                         *)

\* A non-empty set of naturals has a least element.
LEMMA LeastIndex ==
    ASSUME NEW S, S \subseteq Nat, S # {}
    PROVE  \E i \in S : \A j \in S : i <= j
<1> DEFINE R == {ss \in Nat \X Nat : ss[1] < ss[2]}
<1>1. IsWellFoundedOn(R, Nat)
  BY NatLessThanWellFounded, Zenon DEF OpToRel
<1>2. PICK i \in S : \A j \in S : <<j, i>> \notin R
  BY <1>1, WFMin, Zenon
<1>3. \A j \in S : ~(j < i)
  BY <1>2, Zenon
<1> QED BY <1>3

\* resolvePoolKey returns a label key, or none; if none, no node of the fleet carries
\* any of the provider's keys.
LEMMA ResolvedKey ==
    ASSUME NEW p \in NodePool, NEW nodes \in SUBSET Node
    PROVE  /\ resolvePoolKey(p, nodes) \in PoolKey \cup {NoKey}
           /\ resolvePoolKey(p, nodes) = NoKey => Probed(nodes) = {}
<1>1. CASE p.key # NoKey
  BY <1>1, Zenon DEF resolvePoolKey, NodePool
<1>2. CASE p.key = NoKey /\ Probed(nodes) = {}
  BY <1>2, Zenon DEF resolvePoolKey
<1>3. CASE p.key = NoKey /\ Probed(nodes) # {}
  <2> DEFINE i == CHOOSE k \in Probed(nodes) : \A j \in Probed(nodes) : k <= j
  <2>1. Probed(nodes) \subseteq Nat
    BY PoolAssumption DEF Probed
  <2>2. i \in Probed(nodes)
    BY <1>3, <2>1, LeastIndex, Zenon
  <2>3. i \in 1..Len(ProviderPoolKeys)
    BY <2>2, Zenon DEF Probed
  <2>4. ProviderPoolKeys[i] \in PoolKey
    BY <2>3, PoolAssumption
  <2> QED BY <1>3, <2>4, PoolAssumption, Zenon DEF resolvePoolKey
<1> QED BY <1>1, <1>2, <1>3, Zenon

\* Affinity and assignment agree for any key, if an unresolved one means that no node
\* carries a provider key.
LEMMA AffinityOfKey ==
    ASSUME NEW p \in NodePool, NEW nodes \in SUBSET Node, NEW n \in nodes, NEW others \in SUBSET Pool,
           NEW key \in PoolKey \cup {NoKey}, key = NoKey => Probed(nodes) = {}
    PROVE  Selects(profileAffinity(p, key, others), n) <=> nodeAssigned(p, key, others, n)
<1> USE DEF Selects, profileAffinity, nodeAssigned, nodeInPool, isDefaultProfile
<1>1. CASE p.names # {} /\ key = NoKey
  <2>1. 1 \in 1..Len(ProviderPoolKeys)
    BY PoolAssumption
  <2>2. Labels[n][ProviderPoolKeys[1]] = NoPool
    BY <1>1, <2>1, Zenon DEF Probed
  <2>3. NoPool \notin p.names
    BY PoolAssumption, Zenon DEF NodePool
  <2> QED BY <1>1, <2>2, <2>3, Zenon
<1>2. CASE p.names # {} /\ key # NoKey
  BY <1>2, Zenon
<1>3. CASE p.names = {} /\ key # NoKey /\ others # {}
  BY <1>3, Zenon
<1>4. CASE p.names = {} /\ ~(key # NoKey /\ others # {})
  BY <1>4, Zenon
<1> QED BY <1>1, <1>2, <1>3, <1>4, Zenon

\* The affinity rendered into a profile's DaemonSet (profileAffinity) selects exactly
\* the nodes the controller counts as the profile's (nodeAssigned), for every fleet,
\* also when no pool key resolves: the key a named profile then falls back to is on
\* no node.
THEOREM AffinityIsAssignment ==
    ASSUME NEW p \in NodePool, NEW nodes \in SUBSET Node, NEW n \in nodes, NEW others \in SUBSET Pool
    PROVE  Selects(profileAffinity(p, resolvePoolKey(p, nodes), others), n)
             <=> nodeAssigned(p, resolvePoolKey(p, nodes), others, n)
BY ResolvedKey, AffinityOfKey, Zenon

\* The node controller's membership test (profileClaimsNode, given every profile's
\* names) agrees with the profile controller's (nodeAssigned, given the others').
THEOREM ClaimIsAssignment ==
    ASSUME NEW ps, NEW pool \in [ps -> NodePool], NEW p \in ps, NEW key, NEW n
    PROVE  profileClaimsNode(pool[p], key, UNION {pool[q].names : q \in ps}, n)
             <=> nodeAssigned(pool[p], key, namedPoolsExcept(ps, pool, p), n)
<1>1. CASE isDefaultProfile(pool[p])
  <2>1. UNION {pool[q].names : q \in ps} = namedPoolsExcept(ps, pool, p)
    BY <1>1, Zenon DEF isDefaultProfile, namedPoolsExcept
  <2> QED BY <1>1, <2>1, Zenon DEF profileClaimsNode, nodeAssigned
<1>2. CASE ~isDefaultProfile(pool[p])
  BY <1>2, Zenon DEF profileClaimsNode, nodeAssigned
<1> QED BY <1>1, <1>2, Zenon

\* Profiles that pass ValidateNoPoolConflicts against each other and read the same
\* label never share a node, unless both are defaults.
THEOREM DisjointOwners ==
    ASSUME NEW ps, NEW pool \in [ps -> NodePool], NEW p \in ps, NEW q \in ps, p # q,
           NEW key, NEW n,
           pool[p].names \cap pool[q].names = {},
           ~(isDefaultProfile(pool[p]) /\ isDefaultProfile(pool[q]))
    PROVE  ~(/\ nodeAssigned(pool[p], key, namedPoolsExcept(ps, pool, p), n)
             /\ nodeAssigned(pool[q], key, namedPoolsExcept(ps, pool, q), n))
<1>1. pool[q].names \subseteq namedPoolsExcept(ps, pool, p)
  BY Zenon DEF namedPoolsExcept
<1>2. pool[p].names \subseteq namedPoolsExcept(ps, pool, q)
  BY Zenon DEF namedPoolsExcept
<1> QED BY <1>1, <1>2, Zenon DEF nodeAssigned, nodeInPool, isDefaultProfile

\* With a default profile no node is left without an owner: every node the default
\* does not own is in a pool some named profile names.
THEOREM DefaultCoversFleet ==
    ASSUME NEW ps, NEW pool \in [ps -> NodePool], NEW d \in ps, isDefaultProfile(pool[d]),
           NEW key, NEW n
    PROVE  \E p \in ps : nodeAssigned(pool[p], key, namedPoolsExcept(ps, pool, p), n)
<1>1. CASE nodeInPool(n, key, namedPoolsExcept(ps, pool, d))
  <2>1. PICK p \in ps \ {d} : Labels[n][key] \in pool[p].names
    BY <1>1, Zenon DEF nodeInPool, namedPoolsExcept
  <2> QED BY <1>1, <2>1, Zenon DEF nodeAssigned, nodeInPool, isDefaultProfile
<1>2. CASE ~nodeInPool(n, key, namedPoolsExcept(ps, pool, d))
  BY <1>2, Zenon DEF nodeAssigned
<1> QED BY <1>1, <1>2, Zenon

----------------------------------------------------------------------------
(* NodeProfile.                                                            *)

\* A snapshot is of an object that was, and past AddFinalizer of the one that is.
ViewInv ==
    pc # "idle" =>
        /\ view.tmpl \in Template /\ view.tmpl.uid = view.uid
        /\ view.uid \in 1..used[cur]
        /\ cur \in fin => view.uid = uid[cur]
        /\ pc # "finalizer" => cur \in fin

\* A DaemonSet was made for an object that was.
DaemonSetInv == \A p \in Profile : ds[p] # None => ds[p].uid \in 1..used[p]

IInv == ProfileTypeOK /\ ViewInv /\ DaemonSetInv /\ CleanupNotSkipped

\* Every existing profile has a spec.
LEMMA PoolsType ==
    ASSUME ProfileTypeOK
    PROVE  Pools \in [Existing -> NodePool]
<1> SUFFICES ASSUME NEW p \in Existing PROVE Revisions[p][rev[p]] \in NodePool
  BY Zenon DEF Pools
<1>1. p \in Profile /\ rev[p] \in 1..Len(Revisions[p])
  BY ProfileAssumption DEF ProfileTypeOK, Existing
<1> QED BY <1>1, ProfileAssumption

\* namedPoolsExcept collects pools.
LEMMA OthersType ==
    ASSUME ProfileTypeOK, NEW p
    PROVE  Others(p) \in SUBSET Pool
BY PoolsType DEF Others, namedPoolsExcept, NodePool

\* A snapshot's template is one the controller may write.
LEMMA SnapshotType ==
    ASSUME ProfileTypeOK, NEW p \in Existing
    PROVE  /\ Snapshot(p).tmpl \in Template
           /\ Snapshot(p).tmpl.uid = Snapshot(p).uid /\ Snapshot(p).uid = uid[p]
<1> DEFINE aff == profileAffinity(Pools[p], Key(p), Others(p))
<1>1. Pools[p] \in NodePool /\ Others(p) \in SUBSET Pool
  BY PoolsType, OthersType, Zenon
<1>2. Key(p) \in PoolKey \cup {NoKey}
  BY <1>1, ResolvedKey, Zenon DEF Key, ProfileTypeOK
<1>3. ProviderPoolKeys[1] \in PoolKey
  BY PoolAssumption
<1>4. aff \in [key : PoolKey \cup {NoKey}, op : {"In", "NotIn", "Any"}, values : SUBSET Pool]
  BY <1>1, <1>2, <1>3, Zenon DEF profileAffinity, NodePool
<1>5. rev[p] \in Nat /\ uid[p] \in Nat
  BY Zenon DEF ProfileTypeOK, Existing
<1> HIDE DEF aff
<1>6. [rev |-> rev[p], uid |-> uid[p], aff |-> aff] \in Template
  BY <1>4, <1>5, Zenon DEF Template
<1> QED BY <1>6, Zenon DEF Snapshot, buildProfileDaemonSet, aff

\* While no two profiles name one pool (what the webhook is for), the DaemonSets that
\* buildProfileDaemonSet renders from the present objects select no node twice, if the
\* two profiles read the same label and are not both defaults: a node gets two owners
\* only from a conflict let in, or from a template that is behind the objects.
THEOREM DisjointSelections ==
    ASSUME ProfileTypeOK, PoolsDisjoint,
           NEW p \in Existing, NEW q \in Existing, p # q, Key(p) = Key(q),
           ~(isDefaultProfile(Pools[p]) /\ isDefaultProfile(Pools[q]))
    PROVE  SelectedBy(buildProfileDaemonSet(p)) \cap SelectedBy(buildProfileDaemonSet(q)) = {}
<1>1. Pools \in [Existing -> NodePool] /\ fleet \in SUBSET Node
  BY PoolsType, Zenon DEF ProfileTypeOK
<1>2. \A s \in Existing : SelectedBy(buildProfileDaemonSet(s)) \subseteq Assigned(s)
  <2> SUFFICES ASSUME NEW s \in Existing
               PROVE  SelectedBy(buildProfileDaemonSet(s)) \subseteq Assigned(s)
    BY Zenon
  <2>1. Pools[s] \in NodePool /\ Others(s) \in SUBSET Pool
    BY <1>1, OthersType, Zenon
  <2>2. \A n \in fleet : Selects(profileAffinity(Pools[s], Key(s), Others(s)), n)
                           <=> nodeAssigned(Pools[s], Key(s), Others(s), n)
    BY <1>1, <2>1, AffinityIsAssignment, Zenon DEF Key
  <2>3. SelectedBy(buildProfileDaemonSet(s)) \subseteq {n \in fleet : Selects(buildProfileDaemonSet(s).aff, n)}
    BY Zenon DEF SelectedBy
  <2>4. buildProfileDaemonSet(s).aff = profileAffinity(Pools[s], Key(s), Others(s))
    BY DEF buildProfileDaemonSet
  <2> QED BY <2>2, <2>3, <2>4, Zenon DEF Assigned
<1>3. Pools[p].names \cap Pools[q].names = {}
  BY Zenon DEF PoolsDisjoint, ValidateNoPoolConflicts, Others, namedPoolsExcept
<1>4. \A n : ~(/\ nodeAssigned(Pools[p], Key(p), Others(p), n)
              /\ nodeAssigned(Pools[q], Key(p), Others(q), n))
  BY <1>1, <1>3, DisjointOwners, Zenon DEF Others
<1> QED BY <1>2, <1>4, Zenon DEF Assigned

\* The invariant holds initially.
LEMMA InitInv == Init => IInv
BY ProfileAssumption DEF Init, IInv, ProfileTypeOK, ViewInv, DaemonSetInv, CleanupNotSkipped, Existing

\* What a check may go by includes the spec that is.
LEMMA KnownType ==
    ASSUME ProfileTypeOK, NEW p \in Profile, NEW r \in Nat, Lands(p, r)
    PROVE  known' \in [Profile -> SUBSET Nat] /\ \A q \in Profile : rev'[q] \in known'[q]
<1>1. /\ rev' = [rev EXCEPT ![p] = r] /\ rev \in [Profile -> Nat]
      /\ known' = [known EXCEPT ![p] = known[p] \cup {r}] /\ known \in [Profile -> SUBSET Nat]
      /\ \A q \in Profile : rev[q] \in known[q]
  BY Zenon DEF Lands, ProfileTypeOK
<1>2. known[p] \cup {r} \in SUBSET Nat
  BY <1>1, Zenon
<1>3. known' \in [Profile -> SUBSET Nat]
  BY <1>1, <1>2, Zenon
<1> QED BY <1>1, <1>3, Zenon

\* A user's write of a spec keeps the invariant.
LEMMA WriteInv ==
    ASSUME IInv, NEW p \in Profile, WriteSpec(p),
           \/ rev[p] = 0 /\ uid' = [uid EXCEPT ![p] = used[p] + 1]
           \/ rev[p] > 0 /\ UNCHANGED uid
    PROVE  IInv'
<1> USE DEF IInv
<1>1. ProfileTypeOK'
  <2>1. /\ rev' = [rev EXCEPT ![p] = used[p] + 1] /\ used' = [used EXCEPT ![p] = @ + 1]
        /\ used[p] < Len(Revisions[p]) /\ Len(Revisions[p]) \in Nat
        /\ UNCHANGED <<deleting, fin, ds, cleanup, fleet, pc, cur>>
    BY ProfileAssumption DEF WriteSpec, Lands, sets, worker
  <2>2. /\ rev' \in [Profile -> Nat] /\ uid' \in [Profile -> Nat] /\ used' \in [Profile -> Nat]
        /\ \A q \in Profile : uid'[q] <= rev'[q] /\ rev'[q] <= used'[q] /\ used'[q] <= Len(Revisions[q])
    BY <2>1 DEF ProfileTypeOK
  <2>3. Existing' = Existing \cup {p} /\ \A q \in Existing' : uid'[q] > 0
    BY <2>1 DEF ProfileTypeOK, Existing
  <2>4. known' \in [Profile -> SUBSET Nat] /\ \A q \in Profile : rev'[q] \in known'[q]
    <3>1. used[p] + 1 \in Nat
      BY DEF ProfileTypeOK
    <3>2. Lands(p, used[p] + 1)
      BY Zenon DEF WriteSpec
    <3> QED BY <3>1, <3>2, KnownType, Zenon
  <2> QED BY <2>1, <2>2, <2>3, <2>4, Zenon DEF ProfileTypeOK
<1>3. ViewInv'
  BY DEF ViewInv, WriteSpec, Lands, ProfileTypeOK, Existing, worker
<1>4. DaemonSetInv' /\ CleanupNotSkipped'
  BY DEF DaemonSetInv, CleanupNotSkipped, WriteSpec, Lands, ProfileTypeOK, Existing, sets
<1> QED BY <1>1, <1>3, <1>4, Zenon

\* An object goes away only without its finalizer, so no snapshot past AddFinalizer
\* and no DaemonSet of the object is left to be of consequence.
LEMMA RemoveInv ==
    ASSUME IInv, NEW p \in Profile, Removed(p),
           fin' = fin \ {p}, deleting' = deleting \ {p},
           pc' = "idle" \/ (p \notin fin /\ UNCHANGED worker),
           UNCHANGED <<used, ds, fleet>>, cleanup' \in [Profile -> Template \cup {None}]
    PROVE  IInv'
<1> USE DEF IInv, Removed, Lands
<1>1. ProfileTypeOK'
  <2>1. /\ rev' \in [Profile -> Nat] /\ uid' \in [Profile -> Nat]
        /\ \A q \in Profile : uid'[q] <= rev'[q] /\ rev'[q] <= used[q]
    BY DEF ProfileTypeOK
  <2>2. Existing' = Existing \ {p} /\ \A q \in Existing' : uid'[q] > 0
    BY DEF ProfileTypeOK, Existing
  <2>3. pc' \in {"idle", "finalizer", "daemonset", "status", "cleanup", "release"} /\ (pc' # "idle" => cur' \in Profile)
    BY Zenon DEF ProfileTypeOK, worker
  <2>4. known' \in [Profile -> SUBSET Nat] /\ \A q \in Profile : rev'[q] \in known'[q]
    BY KnownType DEF ProfileTypeOK
  <2> QED BY <2>1, <2>2, <2>3, <2>4, Zenon DEF ProfileTypeOK
<1>3. ViewInv'
  BY Zenon DEF ViewInv, ProfileTypeOK, worker
<1>4. DaemonSetInv' /\ CleanupNotSkipped'
  BY DEF DaemonSetInv, CleanupNotSkipped, ProfileTypeOK
<1> QED BY <1>1, <1>3, <1>4, Zenon

\* What the invariant speaks of.
core == <<rev, uid, used, deleting, fin, known, ds, cleanup, fleet, pc, cur, view>>

\* Every step preserves the invariant.
LEMMA StepInv == IInv /\ [Next]_vars => IInv'
<1> SUFFICES ASSUME IInv, [Next]_vars PROVE IInv'
  BY Zenon
<1> USE DEF IInv, objects, sets, worker, budget
<1>1. ASSUME NEW p \in Profile, CreateProfile(p) PROVE IInv'
  BY <1>1, WriteInv, Zenon DEF CreateProfile
<1>2. ASSUME NEW p \in Profile, EditProfile(p) PROVE IInv'
  BY <1>2, WriteInv, Zenon DEF EditProfile
<1>3. ASSUME NEW p \in Profile, DeleteProfile(p) PROVE IInv'
  <2>1. CASE p \in fin
    <3>1. /\ deleting' = deleting \cup {p}
          /\ UNCHANGED <<rev, uid, used, fin, known, ds, cleanup, fleet, pc, cur, view>>
      BY <1>3, <2>1, Zenon DEF DeleteProfile
    <3> QED BY <2>1, <3>1, Zenon DEF ProfileTypeOK, ViewInv, DaemonSetInv, CleanupNotSkipped, Existing
  <2>2. CASE p \notin fin
    BY <1>3, <2>2, RemoveInv, Zenon DEF DeleteProfile, ProfileTypeOK
  <2> QED BY <2>1, <2>2, Zenon
<1>4. ASSUME NEW p \in Profile, CollectGarbage(p) PROVE IInv'
  BY <1>4, Zenon DEF CollectGarbage, ProfileTypeOK, ViewInv, DaemonSetInv, CleanupNotSkipped, Existing
<1>5. ASSUME NEW p \in Profile, Read(p) PROVE IInv'
  <2>1. p \in Existing /\ cur' = p /\ view' = Snapshot(p)
        /\ UNCHANGED <<rev, uid, used, deleting, fin, known, ds, cleanup, fleet>>
    BY <1>5, Zenon DEF Read, Existing
  <2>2. pc' = "finalizer" \/ (pc' = "cleanup" /\ p \in fin)
    BY <1>5, Zenon DEF Read
  <2>3. view'.tmpl \in Template /\ view'.tmpl.uid = view'.uid /\ view'.uid = uid[p]
    BY <2>1, SnapshotType, Zenon
  <2>4. uid[p] \in 1..used[p]
    BY <2>1 DEF ProfileTypeOK, Existing
  <2> QED BY <2>1, <2>2, <2>3, <2>4, Zenon
          DEF ProfileTypeOK, ViewInv, DaemonSetInv, CleanupNotSkipped, Existing
<1>6. CASE AddFinalizer
  <2>1. CASE cur \in fin \/ pc' = "idle"
    BY <1>6, <2>1, Zenon DEF AddFinalizer, Goto, Done, ProfileTypeOK, ViewInv, DaemonSetInv, CleanupNotSkipped, Existing
  <2>2. CASE cur \notin fin /\ Fresh /\ fin' = fin \cup {cur} /\ Goto("daemonset")
    <3>0. pc # "idle" /\ cur \in Profile
      BY <1>6, Zenon DEF AddFinalizer, ProfileTypeOK
    <3>1. cur \in Existing
      BY <2>2, <3>0 DEF Fresh, Existing, ViewInv, ProfileTypeOK
    <3> QED BY <1>6, <2>2, <3>1, Zenon
            DEF AddFinalizer, Fresh, Goto, ProfileTypeOK, ViewInv, DaemonSetInv, CleanupNotSkipped, Existing
  <2> QED BY <1>6, <2>1, <2>2, Zenon DEF AddFinalizer, Done
<1>7. CASE ensureProfileDaemonSet
  <2>1. CASE ds' = ds
    BY <1>7, <2>1, Zenon DEF ensureProfileDaemonSet, Goto, Done, ProfileTypeOK, ViewInv, DaemonSetInv, CleanupNotSkipped, Existing
  <2>2. CASE ds' = [ds EXCEPT ![cur] = view.tmpl] /\ Goto("status")
    BY <1>7, <2>2, Zenon DEF ensureProfileDaemonSet, Goto, ProfileTypeOK, ViewInv, DaemonSetInv, CleanupNotSkipped, Existing
  <2> QED BY <1>7, <2>1, <2>2, Zenon DEF ensureProfileDaemonSet
<1>8. CASE updateStatus
  BY <1>8, Zenon DEF updateStatus, Done, ProfileTypeOK, ViewInv, DaemonSetInv, CleanupNotSkipped, Existing
<1>9. CASE ensureCleanupComplete
  <2>1. cleanup' \in [Profile -> Template \cup {None}]
    BY <1>9, Zenon DEF ensureCleanupComplete, ViewInv, ProfileTypeOK
  <2>2. pc' = "idle" \/ (pc' = "release" /\ UNCHANGED <<cur, view>>)
    BY <1>9, Zenon DEF ensureCleanupComplete, Goto, Done
  <2> QED BY <1>9, <2>1, <2>2, Zenon
          DEF ensureCleanupComplete, ProfileTypeOK, ViewInv, DaemonSetInv, CleanupNotSkipped, Existing
<1>10. CASE reconcileDelete
  <2>1. cur \in Profile /\ cleanup' \in [Profile -> Template \cup {None}]
    BY <1>10, Zenon DEF reconcileDelete, ProfileTypeOK
  <2>2. CASE Removed(cur) /\ fin' = fin \ {cur} /\ deleting' = deleting \ {cur}
    BY <1>10, <2>1, <2>2, RemoveInv, Zenon DEF reconcileDelete, Done
  <2>3. CASE UNCHANGED <<rev, uid, fin, deleting, known>>
    BY <1>10, <2>1, <2>3, Zenon DEF reconcileDelete, Done, ProfileTypeOK, ViewInv, DaemonSetInv, CleanupNotSkipped, Existing
  <2> QED BY <1>10, <2>2, <2>3, Zenon DEF reconcileDelete
<1>11. CASE ReconcileFails
  <2>1. cleanup' \in [Profile -> Template \cup {None}] /\ pc' = "idle"
    BY <1>11, Zenon DEF ReconcileFails, Done, ProfileTypeOK
  <2> QED BY <1>11, <2>1, Zenon DEF ReconcileFails, ProfileTypeOK, ViewInv, DaemonSetInv, CleanupNotSkipped, Existing
<1>16. CASE CatchUp
  BY <1>16, Zenon DEF CatchUp, ProfileTypeOK, ViewInv, DaemonSetInv, CleanupNotSkipped, Existing
<1>12. ASSUME NEW n \in Node, MoveNode(n) PROVE IInv'
  BY <1>12, Zenon DEF MoveNode, ProfileTypeOK, ViewInv, DaemonSetInv, CleanupNotSkipped, Existing
<1>13. ASSUME UNCHANGED core PROVE IInv'
  BY <1>13, Zenon DEF core, ProfileTypeOK, ViewInv, DaemonSetInv, CleanupNotSkipped, Existing
<1>14. ASSUME NEW n \in Node, NEW p \in Profile, Provision(n, p) \/ CleanupPod(n, p) PROVE IInv'
  BY <1>13, <1>14, Zenon DEF Provision, CleanupPod, core
<1>15. CASE UNCHANGED vars
  BY <1>13, <1>15, Zenon DEF vars, core
<1> QED BY <1>1, <1>2, <1>3, <1>4, <1>5, <1>6, <1>7, <1>8, <1>9, <1>10, <1>11, <1>12, <1>14, <1>15, <1>16, Zenon DEF Next, Step

\* The objects' numbers, the finalizers and the DaemonSet templates stay consistent
\* through every interleaving of users, reconciles and failures.
THEOREM ProfileTypeCorrect == Spec => []ProfileTypeOK
<1>1. IInv => ProfileTypeOK
  BY Zenon DEF IInv
<1> QED BY <1>1, InitInv, StepInv, PTL DEF Spec

\* The finalizer is on a profile whenever its DaemonSet is out: Reconcile adds it
\* first and stops if it cannot.
THEOREM FinalizerGuardsCleanup == Spec => []CleanupNotSkipped
<1>1. IInv => CleanupNotSkipped
  BY Zenon DEF IInv
<1> QED BY <1>1, InitInv, StepInv, PTL DEF Spec

----------------------------------------------------------------------------
(* The AppCDS cache.                                                       *)

USE DEF files, launch, LaunchAt, LaunchGoto

\* evictStaleArchives never scans its own key, so its victim is another's.
ScanInv == \A l \in Launch : KeyOf[l] \notin rest[l]

CacheInv == CDSTypeOK /\ ScanInv

\* Writing or removing an archive keeps the types of the files.
LEMMA WriteType ==
    ASSUME CDSTypeOK, NEW k \in CacheKey, NEW c \in Archive, Write(k, c)
    PROVE  archive' \in [CacheKey -> Archive] /\ aged' \in [CacheKey -> BOOLEAN]
BY Zenon DEF CDSTypeOK, Write

\* The three writes of a seed copy, and the two of a JVM's dump.
LEMMA WriterWrites ==
    ASSUME CDSTypeOK, NEW l \in Launch, SeedCopy(l) \/ JvmExit(l)
    PROVE  archive' \in [CacheKey -> Archive] /\ aged' \in [CacheKey -> BOOLEAN]
<1>1. KeyOf[l] \in CacheKey /\ Seed[KeyOf[l]] \in Archive
  BY CDSAssumption, Zenon DEF Archive
<1>2. {"empty", "partial", "good"} \subseteq Archive
  BY Zenon DEF Archive
<1>3. CASE UNCHANGED <<archive, aged>>
  BY <1>3, Zenon DEF CDSTypeOK
<1>4. ASSUME NEW c \in {"empty", "partial", "good", Seed[KeyOf[l]]}, Write(KeyOf[l], c)
      PROVE  archive' \in [CacheKey -> Archive] /\ aged' \in [CacheKey -> BOOLEAN]
  BY <1>1, <1>2, <1>4, WriteType, Zenon
<1> QED BY <1>3, <1>4, Zenon DEF SeedCopy, JvmExit

\* The steps of an eviction that has picked its victim.
Evicting == {"rmArchive", "rmMarker"}

\* A launch that goes on outside an eviction, whatever it did to the archives,
\* keeps the types.
LEMMA GoesOn ==
    ASSUME CDSTypeOK, ScanInv, NEW l \in Launch, NEW s \in LaunchStep \ Evicting, LaunchGoto(l, s),
           at[l] \notin Evicting, UNCHANGED <<marker, rest, victim, failures>>,
           archive' \in [CacheKey -> Archive], aged' \in [CacheKey -> BOOLEAN]
    PROVE  CDSTypeOK' /\ ScanInv'
<1>1. at' \in [Launch -> LaunchStep]
  BY DEF CDSTypeOK
<1>2. marker' = marker /\ rest' = rest /\ victim' = victim /\ failures' = failures
  BY Zenon
<1>3. \A m \in Launch : (at'[m] \in Evicting) = (victim'[m] # KeyOf[m])
  BY <1>2 DEF CDSTypeOK, Evicting
<1>4. CDSTypeOK'
  BY <1>1, <1>2, <1>3, Zenon DEF CDSTypeOK, Evicting
<1>5. ScanInv'
  BY <1>2, Zenon DEF ScanInv
<1> QED BY <1>4, <1>5, Zenon

\* Every step keeps the types, and the evicting launch's victim apart from its key.
LEMMA CacheTypes == CDSTypeOK /\ ScanInv /\ [CacheNext]_cacheVars => CDSTypeOK' /\ ScanInv'
<1> SUFFICES ASSUME CDSTypeOK, ScanInv, [CacheNext]_cacheVars PROVE CDSTypeOK' /\ ScanInv'
    BY Zenon
<1> USE CDSAssumption DEF CDSTypeOK, ScanInv, Archive, Marker, LaunchStep
<1>1. ASSUME NEW l \in Launch, DecideCDSRegen(l) PROVE CDSTypeOK' /\ ScanInv'
  <2>1. ASSUME NEW k \in CacheKey, Scan(l, k) PROVE CDSTypeOK' /\ ScanInv'
    BY <2>1 DEF Scan
  <2>3. CASE RemoveArchive(l)
    BY <2>3, Zenon DEF RemoveArchive, Write
  <2>4. CASE RemoveMarker(l)
    BY <2>4 DEF RemoveMarker
  <2>5. CASE StatArchive(l)
    <3>1. PICK s \in {"idle", "claim"} : LaunchGoto(l, s)
      BY <2>5, Zenon DEF StatArchive
    <3>2. at[l] \notin Evicting /\ UNCHANGED <<marker, rest, victim, failures>>
      BY <2>5, Zenon DEF StatArchive, Evicting
    <3>3. archive' \in [CacheKey -> Archive] /\ aged' \in [CacheKey -> BOOLEAN]
      BY <2>5, Zenon DEF StatArchive
    <3> QED BY <3>1, <3>2, <3>3, GoesOn DEF Evicting
  <2>6. CASE Claim(l)
    <3>1. PICK s \in {"seed", "statMarker"} : LaunchGoto(l, s)
      BY <2>6, Zenon DEF Claim, Elect
    <3>2. marker' \in [CacheKey -> Marker] /\ UNCHANGED <<archive, aged, rest, victim, failures>>
      BY <2>6, Zenon DEF Claim, Elect
    <3>3. at' \in [Launch -> LaunchStep]
      BY <3>1, Zenon
    <3>4. \A m \in Launch : (at'[m] \in Evicting) = (victim'[m] # KeyOf[m])
      BY <2>6, <3>1, <3>2 DEF Claim, Evicting
    <3> QED BY <3>2, <3>3, <3>4, Zenon DEF Evicting
  <2>7. CASE StatMarker(l)
    <3>1. PICK s \in {"reclaim", "idle"} : LaunchGoto(l, s)
      BY <2>7, Zenon DEF StatMarker
    <3>2. at[l] \notin Evicting /\ UNCHANGED <<marker, rest, victim, failures>>
      BY <2>7, Zenon DEF StatMarker, Evicting
    <3>3. archive' \in [CacheKey -> Archive] /\ aged' \in [CacheKey -> BOOLEAN]
      BY <2>7, Zenon DEF StatMarker
    <3> QED BY <3>1, <3>2, <3>3, GoesOn DEF Evicting
  <2>8. CASE Reclaim(l)
    BY <2>8 DEF Reclaim, Elect
  <2>9. CASE SeedStat(l)
    <3>1. PICK s \in {"startWriter", "seedOpen"} : LaunchGoto(l, s)
      BY <2>9, Zenon DEF SeedStat
    <3>2. at[l] \notin Evicting /\ UNCHANGED <<marker, rest, victim, failures>>
      BY <2>9, Zenon DEF SeedStat, Evicting
    <3>3. archive' \in [CacheKey -> Archive] /\ aged' \in [CacheKey -> BOOLEAN]
      BY <2>9, Zenon DEF SeedStat
    <3> QED BY <3>1, <3>2, <3>3, GoesOn DEF Evicting
  <2>10. CASE SeedCopy(l)
    <3>1. PICK s \in {"seedCopy", "seedDone", "startWriter"} : LaunchGoto(l, s)
      BY <2>10, Zenon DEF SeedCopy
    <3>2. at[l] \notin Evicting /\ UNCHANGED <<marker, rest, victim, failures>>
      BY <2>10, Zenon DEF SeedCopy, Evicting
    <3>3. archive' \in [CacheKey -> Archive] /\ aged' \in [CacheKey -> BOOLEAN]
      BY <2>10, WriterWrites, Zenon
    <3> QED BY <3>1, <3>2, <3>3, GoesOn DEF Evicting
  <2>11. CASE JvmStart(l)
    <3>1. PICK s \in {"idle", "train"} : LaunchGoto(l, s)
      BY <2>11, Zenon DEF JvmStart
    <3>2. at[l] \notin Evicting /\ UNCHANGED <<marker, rest, victim, failures>>
      BY <2>11, Zenon DEF JvmStart, Evicting
    <3>3. archive' \in [CacheKey -> Archive] /\ aged' \in [CacheKey -> BOOLEAN]
      BY <2>11, Zenon DEF JvmStart
    <3> QED BY <3>1, <3>2, <3>3, GoesOn DEF Evicting
  <2>12. CASE JvmExit(l)
    <3>1. PICK s \in {"dump", "idle"} : LaunchGoto(l, s)
      BY <2>12, Zenon DEF JvmExit
    <3>2. at[l] \notin Evicting /\ UNCHANGED <<marker, rest, victim, failures>>
      BY <2>12, Zenon DEF JvmExit, Evicting
    <3>3. archive' \in [CacheKey -> Archive] /\ aged' \in [CacheKey -> BOOLEAN]
      BY <2>12, WriterWrites, Zenon
    <3> QED BY <3>1, <3>2, <3>3, GoesOn DEF Evicting
  <2> QED BY <1>1, <2>1, <2>3, <2>4, <2>5, <2>6, <2>7, <2>8, <2>9, <2>10, <2>11, <2>12, Zenon
      DEF DecideCDSRegen
<1>2. ASSUME NEW l \in Launch, Skip(l) \/ Kill(l) \/ CallFails(l) \/ Begin(l) PROVE CDSTypeOK' /\ ScanInv'
  BY <1>2 DEF Skip, Kill, CallFails, Faulty, Begin, cacheVars
<1>3. ASSUME NEW k \in CacheKey, AgeMarker(k) PROVE CDSTypeOK' /\ ScanInv'
  BY <1>3, Zenon DEF AgeMarker
<1>4. ASSUME NEW k \in CacheKey, AgeArchive(k) PROVE CDSTypeOK' /\ ScanInv'
  BY <1>4, Zenon DEF AgeArchive
<1>5. CASE UNCHANGED cacheVars
  BY <1>5, Zenon DEF cacheVars
<1> QED BY <1>1, <1>2, <1>3, <1>4, <1>5, Zenon DEF CacheNext

\* An empty cache satisfies the invariant.
LEMMA CacheStarts == CacheInit => CacheInv
BY CDSAssumption DEF CacheInit, CacheInv, CDSTypeOK, ScanInv, Archive, Marker, LaunchStep

\* The inductive invariant holds throughout.
LEMMA CacheKept == CacheSpec => []CacheInv
<1>1. CacheInv /\ [CacheNext]_cacheVars => CacheInv'
  BY CacheTypes, Zenon DEF CacheInv
<1> QED BY CacheStarts, <1>1, PTL DEF CacheSpec

\* DecideCDSRegen keeps the types and never evicts the key it is about to use.
THEOREM CacheTypeCorrect == CacheSpec => []CDSTypeOK
<1>1. CacheInv => CDSTypeOK
  BY Zenon DEF CacheInv
<1> QED BY CacheKept, <1>1, PTL
=============================================================================

----------------------------- MODULE Workload -----------------------------
(***************************************************************************)
(* The JavaApplication controller, the webhook, the nodes and the cluster  *)
(* around them: a user's spec becomes a Deployment, its pods pass the      *)
(* webhook, are bound and launched, and the count of running pods returns  *)
(* to the application's status. Users also create pods of their own.       *)
(***************************************************************************)
EXTENDS JavaApplication

CONSTANT Scenarios   \* starting points, each with the bounds of its inputs

ProvisionState == {"", "Provisioning", "Ready", "Failed"}

\* The variables that a user sets; "args" stands for the text of jvm.args.
OwnEnv(env) == \A v \in env : v[2] # "args"

\* A spec that the schema of the custom resource admits.
AdmittedSpec(s) ==
    /\ s.replicas \in SUBSET Nat /\ s.auto.min \in SUBSET Nat /\ s.auto.max \in Nat
    /\ OwnEnv(s.env)

ASSUME PodAssumption == IsFiniteSet(Pod)
ASSUME ScenariosAssumption ==
    \A sc \in Scenarios :
        /\ \A n \in Node : /\ sc.nodes[n].jdks \in SUBSET (Dist \X Feature) /\ OwnLabels(sc.nodes[n].own)
                           /\ sc.nodes[n].state \in ProvisionState
        /\ sc.plans = [n \in Node |-> sc.plans[n]] /\ \A n \in Node : sc.plans[n] \in Seq(ProvisionerRun)
        /\ sc.edits \in Seq(Range(sc.edits)) /\ (sc.edits # <<>> => Head(sc.edits) # Gone)
        /\ \A s \in Range(sc.edits) : s = Gone \/ AdmittedSpec(s)
        /\ \A k \in {"dep", "svc", "hpa"} : sc.held[k] \in {"absent", "other", "nobody"}
        /\ \A t \in sc.manual : OwnEnv(t.env)

VARIABLE manual      \* bound: the templates of pods that users create themselves

vars == <<podVars, appVars, manual>>

Init == \E sc \in Scenarios : PodInit(sc) /\ AppInit(sc) /\ manual = sc.manual

----------------------------------------------------------------------------
(* The Deployment controller and its ReplicaSets.                          *)

Alive == {p \in Pod : pod[p] # NoPod}
Current == {p \in Alive : pod[p].tmpl = api.dep.tmpl}
Deployed == {p \in Alive : pod[p].tmpl.label = "app"}

Replicate(p) ==
    /\ api.dep.owner = "app" /\ Cardinality(Current) < api.dep.replicas
    /\ Handle(p, api.dep.tmpl)
    /\ UNCHANGED <<appVars, manual>>

\* Pods of an older template and surplus pods go, in any order.
Retire(p) ==
    /\ p \in Deployed
    /\ \/ api.dep.owner # "app" \/ p \notin Current
       \/ Cardinality(Current) > api.dep.replicas
    /\ pod' = [pod EXCEPT ![p] = NoPod]
    /\ UNCHANGED <<node, plans, fleet, outages, tracked, pending, appVars, manual>>

Up == Cardinality({p \in Deployed : Running(p)})

ReportRollout ==
    /\ api.dep.owner = "app" /\ (~api.dep.rolled \/ api.dep.ready # Up)
    /\ api' = [api EXCEPT !.dep.rolled = TRUE, !.dep.ready = Up]
    /\ UNCHANGED <<podVars, seen, queued, pc, cur, edits, faults, loads, manual>>

CreateByHand(p, t) ==
    /\ t \in manual /\ manual' = manual \ {t}
    /\ Handle(p, t) /\ UNCHANGED appVars

----------------------------------------------------------------------------
App(A) == A /\ UNCHANGED <<podVars, manual>>
Cluster(A) == A /\ UNCHANGED <<appVars, manual>>

Reconcile == App(Begin) \/ App(UpdateStatus) \/ \E k \in {"dep", "svc", "hpa"} : App(Apply(k))
HPA == \E n \in 1 .. Cardinality(Pod) : App(Scale(n))
Schedule(p) == \E n \in Node : Cluster(Bind(p, n))

Next ==
    \/ Reconcile \/ HPA \/ ReportRollout
    \/ App(Restart) \/ App(Edit)
    \/ \E k \in {"app", "dep", "svc", "hpa"} : App(Deliver(k))
    \/ \E k \in {"dep", "svc", "hpa"} : App(Leave(k)) \/ App(Collect(k))
    \/ \E p \in Pod : Replicate(p) \/ Retire(p) \/ Schedule(p) \/ Cluster(Start(p))
    \/ \E p \in Pod, t \in manual : CreateByHand(p, t)
    \/ \E n \in Node : \/ Cluster(SyncFleet(n)) \/ Cluster(Withdraw(n)) \/ Cluster(Publish(n))
                       \/ Cluster(NodeEvent(n)) \/ Cluster(NodeReconcile(n))

\* Informers deliver, work queues and the cluster's controllers make progress.
\* Users, faults, changes of load and new provisioner runs owe nothing.
Fairness ==
    /\ WF_vars(Reconcile) /\ WF_vars(ReportRollout)
    /\ WF_vars(HPA /\ UNCHANGED loads)
    /\ \A k \in {"app", "dep", "svc", "hpa"} : WF_vars(App(Deliver(k)))
    /\ \A k \in {"dep", "svc", "hpa"} : WF_vars(App(Collect(k)))
    /\ \A p \in Pod : /\ WF_vars(Replicate(p) /\ UNCHANGED outages) /\ WF_vars(Retire(p))
                      /\ WF_vars(Schedule(p)) /\ WF_vars(Cluster(Start(p)))
    /\ \A n \in Node : /\ WF_vars(Cluster(SyncFleet(n))) /\ WF_vars(Cluster(Publish(n)))
                       /\ WF_vars(Cluster(NodeEvent(n))) /\ WF_vars(Cluster(NodeReconcile(n)))

Spec == Init /\ [][Next]_vars /\ Fairness

----------------------------------------------------------------------------
(* The properties.                                                         *)

\* The profile that n was provisioned from last has the launcher: a launcher of an
\* earlier profile stays on the host, but no one is steered to it.
Offers(n, launcher) == IsVanillaLauncher(launcher) \/ launcher \in node[n].annotated

\* The objects are well formed; in particular no autoscaler whose bounds are out
\* of order is sent to the API server, whatever spec a user sets.
WorkloadTypeOK ==
    /\ pc \in {"idle", "dep", "svc", "hpa", "status"} /\ queued \in BOOLEAN
    /\ api.dep.replicas \in Nat /\ api.dep.ready \in 0 .. Cardinality(Pod)
    /\ 1 <= api.hpa.min /\ api.hpa.min <= api.hpa.max
    /\ \A n \in Node : node[n].state \in ProvisionState
    /\ \A p \in Alive : pod[p].how \in {"steered", "open", "other"} /\ Cardinality(pod[p].jdk) <= 1

\* What the request names is there for the shim on n. Without a JDK request the
\* shim wants its default, which the webhook leaves alone.
Honours(t, n) ==
    /\ t.jdk # <<>> => selectJDK(node[n], t.jdk) # {}
    /\ selectLauncher(node[n], t.launcher) /\ supportsArch(node[n], t.arch)

\* A pod with an explicit request that the webhook steered is never bound to a
\* node whose shim answers NoCompatibleJDK or NoCompatibleLauncher, as long as
\* the node was not provisioned anew after the binding: the labels of
\* requiredCapabilityLabels promise what selectJDK and selectLauncher look for,
\* under every alternative of the pod's own affinity.
SteeredRuns ==
    \A p \in Pod :
        Bound(p) /\ pod[p].how = "steered" /\ ~pod[p].moved =>
            Honours(pod[p].tmpl, pod[p].node)

\* A JDK request that names a feature version. Of any other text the shim makes
\* its default, and the webhook a distribution that no node has.
NamesFeature(t) ==
    t.jdk # <<>> => bareFeature(t.jdk) \/ (Len(t.jdk) = 2 /\ t.jdk[1] # "" /\ t.jdk[2] \in Feature)

Requests == {pod[p].tmpl : p \in {q \in Alive : pod[q].tmpl.brewlet}} \cup {t \in manual : t.brewlet}
                \cup (IF api.dep.owner = "app" THEN {api.dep.tmpl} ELSE {})

\* With an up-to-date view of the fleet, CheckFleet denies an explicit, well
\* formed request exactly when no ready node's shim would honour it, and a denial
\* blames an axis that the request names. A launcher of an earlier profile does
\* not count: its binary stays on the host, where the shim still finds it.
WebhookAgrees ==
    (\A n \in Node : fleet[n] = NodeCapabilityFrom(node[n])) =>
        \A t \in Requests :
            LET why == CheckFleet(fleet, t)
            IN  /\ requiredCapabilityLabels(t) # {} /\ NamesFeature(t) =>
                     (why = "" <=> \E n \in Node : node[n].ready /\ Honours(t, n) /\ Offers(n, t.launcher))
                /\ why = "NoCompatibleJDK" => t.jdk # <<>>
                /\ why = "NoCompatibleLauncher" => ~IsVanillaLauncher(t.launcher)
                /\ why = "NoCompatibleArch" => t.arch # {}

\* The JVM that runs a pod reads the variable its jvm.args were put in: JDK 8
\* knows JAVA_TOOL_OPTIONS only. The controller decides by the spec's version,
\* the shim by what the node has.
OptionsReach ==
    \A p \in Pod : Running(p) => \A j \in pod[p].jdk, v \in pod[p].tmpl.env :
        v[2] = "args" /\ j[2] = "8" => v[1] = "JAVA_TOOL_OPTIONS"

\* While the application autoscales, no step of a reconciliation changes the
\* count of replicas; only the autoscaler does.
ScalingKept ==
    [][api.dep.owner = "app" /\ api'.dep.owner = "app" /\ cur.gen = api.app.gen /\ cur.gen # 0
         /\ cur.spec.auto.on /\ api.dep.replicas # api'.dep.replicas => pc' = pc]_vars

\* An object of another controller is never taken over or changed, whatever the
\* controller's cache has of it (SetControllerReference); and a Deployment, or an
\* object that the spec wants, goes only when its holder lets it go. (The Service
\* or the autoscaler that the spec does not want is deleted whoever holds the name.)
ForeignKept ==
    [][\A k \in {"dep", "svc", "hpa"} :
         api[k].owner = "other" /\ api'[k] # api[k] =>
             /\ api'[k].owner = "absent"
             /\ pc = k /\ pc' # k => Desired(k, cur.spec, seen[k]).owner = "absent"]_vars

\* Some object that the spec wants is under another controller, or cannot be updated.
Blocked == \E k \in {"dep", "svc", "hpa"} :
    /\ api[k].owner = "other" \/ Unselected(k, api[k])
    /\ Desired(k, api.app.spec, api[k]).owner = "app"

Settled ==
    IF api.app.gen = 0 THEN \A k \in {"dep", "svc", "hpa"} : api[k].owner # "app"
    ELSE IF Blocked \/ ~validateSpec(api.app.spec)
    THEN api.app.cond = "Error" /\ api.app.condGen = api.app.gen
    ELSE /\ \A k \in {"dep", "svc", "hpa"} : Desired(k, api.app.spec, api[k]) = api[k]
         /\ api.app.obs = api.app.gen /\ api.app.condGen = api.app.gen
         /\ api.app.ready = api.dep.ready
         /\ api.app.cond = IF deploymentReady(api.dep) THEN "True" ELSE "Progressing"

\* Once edits, faults and loads stop, the objects and the status settle on the
\* last spec, through every stale read, refused write, restart and race with the
\* autoscaler; a spec that cannot be applied ends in Ready=False with an error,
\* and a deleted application leaves no object of its own.
AppSettles == <>[]Settled

\* The application can be served: some node provides what it requests, and no
\* pod of it sits on a node that cannot run it.
Serviceable ==
    /\ api.app.gen # 0 /\ ~Blocked /\ validateSpec(api.app.spec)
    /\ \E n \in Node : /\ node[n].ready /\ CanRun(Template(api.app.spec), n)
                       /\ Offers(n, Template(api.app.spec).launcher)
    /\ \A p \in Alive : Bound(p) => CanRun(pod[p].tmpl, pod[p].node)

\* An application that stays serviceable ends up Ready: its pods pass the
\* webhook, are bound, launched and counted, however the fleet changed before.
AppServed == <>[]Serviceable => <>[](api.app.gen # 0 /\ api.app.cond = "True")

\* The provision-state annotation of a node that a profile claims ends at the
\* node's true state, though it is patched from a cached copy.
NodeStateSettles ==
    \A n \in Node : <>[](node[n].pooled /\ node[n].followed => node[n].state = StateOf(n, Progress(node[n]), node[n].looping))
=============================================================================

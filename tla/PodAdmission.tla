--------------------------- MODULE PodAdmission ---------------------------
(***************************************************************************)
(* From a pod to a JVM: the admission webhook checks the pod's request     *)
(* against the fleet it has cached and steers the pod by node affinity,    *)
(* the scheduler binds it to a node by the node's labels, and the shim     *)
(* selects that node's JDK and launcher. The provisioner of a node changes *)
(* what the node has and advertises, at any moment between these steps;    *)
(* the node controller mirrors its progress in an annotation.              *)
(***************************************************************************)
EXTENDS LaunchPlan

CONSTANTS
    Node,
    Pod      \* bound: pods that exist at the same time

Dist == DOMAIN DistRank
ASSUME NodeAssumption == "" \notin Node
ASSUME DistAssumption ==
    /\ DistRank \in [Dist -> Nat] /\ "" \notin Dist
    /\ \A d, e \in Dist : DistRank[d] = DistRank[e] => d = e

\* What a run of a node's provisioner installs, or how it fails; and labels of a
\* node that are not brewlet's.
ProvisionerRun == [fails : {"", "error", "crash"}, jdks : SUBSET (Dist \X Feature), launchers : SUBSET STRING]
OwnLabels(own) == \A r \in own : r[1] \notin {"jdk", "jdk-feature", "launcher"}

VARIABLES
    node,     \* node[n]: the Node object and the host's active JDKs and launchers
    plans,    \* plans[n]: bound, the runs of n's provisioner still to come
    fleet,    \* fleet[n]: the webhook's cached capabilities of n
    pod,      \* pod[p]: the pod in slot p, or NoPod
    outages,  \* bound: times the webhook cannot list the nodes, or the node controller the pods
    tracked,  \* tracked[n]: the operator's cached copy of n's provisioning state
    pending   \* nodes in the node controller's work queue

podVars == <<node, plans, fleet, pod, outages, tracked, pending>>

----------------------------------------------------------------------------
(* The webhook. A JDK request is <<>>, <<feature>> or <<dist, feature>>,   *)
(* trimmed; an architecture request is the set of its tokens.              *)

bareFeature(jdk) == Len(jdk) = 1 /\ jdk[1] \in Feature

\* The labels label_node advertises for an inventory.
Caps(jdks, launchers) == {<<"jdk", j>> : j \in jdks} \cup {<<"jdk-feature", j[2]>> : j \in jdks}
                             \cup {<<"launcher", l>> : l \in launchers}

NodeCapabilityFrom(n) ==
    [ready |-> n.ready, arch |-> n.arch, jdks |-> n.jdks, launchers |-> n.annotated]

supportsJDK_AnyDist(c, jdk) == jdk = <<>> \/ \E j \in c.jdks : j[2] = jdk[Len(jdk)]
supportsJDK(c, jdk) ==
    \/ jdk = <<>>
    \/ bareFeature(jdk) /\ \E j \in c.jdks : j[2] = jdk[1]
    \/ ~bareFeature(jdk) /\ jdk \in c.jdks

supportsLauncher(c, l) == l \in {"", "java"} \/ l \in c.launchers
supportsArch(c, arch) == arch = {} \/ c.arch \in arch

\* CheckFleet: "" when compatible, else the reason of the denial.
CheckFleet(view, t) ==
    LET ready == {n \in Node : view[n].ready}
        jdkOn(n) == supportsJDK(view[n], t.jdk)
        launcherOn(n) == supportsLauncher(view[n], t.launcher)
        archOn(n) == supportsArch(view[n], t.arch)
        explicit == t.jdk # <<>> \/ t.launcher \notin {"", "java"} \/ t.arch # {}
    IN  IF ~explicit \/ (\E n \in ready : jdkOn(n) /\ launcherOn(n) /\ archOn(n)) THEN ""
        ELSE IF t.jdk # <<>> /\ (\A n \in ready : ~jdkOn(n)) THEN "NoCompatibleJDK"
        ELSE IF t.launcher \notin {"", "java"} /\ (\A n \in ready : ~launcherOn(n)) THEN "NoCompatibleLauncher"
        ELSE IF t.arch # {} THEN "NoCompatibleArch"
        ELSE IF t.launcher \notin {"", "java"} THEN "NoCompatibleLauncher" ELSE "NoCompatibleJDK"

NoRef == [name |-> "", digest |-> ""]

\* The image of the container that the annotation names, else the first one's.
podArtifactRef(t) ==
    IF t.images = <<>> THEN NoRef
    ELSE t.images[IF t.container \in DOMAIN t.images THEN t.container ELSE 1]

requiredCapabilityLabels_FullName(t) ==
    (IF t.jdk = <<>> THEN {} ELSE {<<"jdk", t.jdk>>})
    \cup (IF t.launcher \in {"", "java"} THEN {} ELSE {<<"launcher", t.launcher>>})
    \cup (IF t.arch = {} THEN {} ELSE {<<"arch", t.arch>>})
requiredCapabilityLabels(t) ==
    (IF t.jdk = <<>> THEN {}
     ELSE {IF bareFeature(t.jdk) THEN <<"jdk-feature", t.jdk[1]>> ELSE <<"jdk", t.jdk>>})
    \cup (IF t.launcher \in {"", "java"} THEN {} ELSE {<<"launcher", t.launcher>>})
    \cup (IF t.arch = {} THEN {} ELSE {<<"arch", t.arch>>})

\* A pod's terms are alternatives, each a set of requirements; {} constrains nothing.
injectNodeAffinity_OneTerm(t) ==
    LET one == IF t.terms = {} THEN {} ELSE CHOOSE x \in t.terms : TRUE
    IN  (t.terms \ {one}) \cup {one \cup requiredCapabilityLabels(t)}
injectNodeAffinity(t) ==
    LET reqs == requiredCapabilityLabels(t)
    IN  IF reqs = {} THEN t.terms
        ELSE {x \cup reqs : x \in IF t.terms = {} THEN {{}} ELSE t.terms}

NoPod == [how |-> "none"]

\* The pod the API server stores: untouched, or stamped and steered.
Stored(t, how, ref, digest, terms) ==
    [how |-> how, tmpl |-> t, ref |-> ref, digest |-> digest, terms |-> terms,
     node |-> "", moved |-> FALSE, jdk |-> {}]

Untouched(t, how) == Stored(t, how, t.ref, t.digest, t.terms)

MutatePod(t) ==
    LET own == podArtifactRef(t)
        ref == IF t.ref = NoRef THEN own ELSE t.ref
        digest == IF own # NoRef /\ t.digest = "" THEN ref.digest ELSE t.digest
    IN  Stored(t, "steered", ref, digest, injectNodeAffinity(t))

\* PodMutator.Handle on the creation of a pod: it fails open when the nodes
\* cannot be listed, and a denied pod is not created. A pod takes the first slot.
Handle(p, t) ==
    /\ pod[p] = NoPod /\ \A q \in Pod : q < p => pod[q] # NoPod
    /\ \/ /\ ~t.brewlet
          /\ pod' = [pod EXCEPT ![p] = Untouched(t, "other")] /\ UNCHANGED outages
       \/ /\ t.brewlet /\ CheckFleet(fleet, t) = ""
          /\ pod' = [pod EXCEPT ![p] = MutatePod(t)] /\ UNCHANGED outages
       \/ /\ t.brewlet /\ outages > 0 /\ outages' = outages - 1
          /\ pod' = [pod EXCEPT ![p] = Untouched(t, "open")]
    /\ UNCHANGED <<node, plans, fleet, tracked, pending>>

SyncFleet(n) ==
    /\ fleet[n] # NodeCapabilityFrom(node[n])
    /\ fleet' = [fleet EXCEPT ![n] = NodeCapabilityFrom(node[n])]
    /\ UNCHANGED <<node, plans, pod, outages, tracked, pending>>

----------------------------------------------------------------------------
(* The scheduler and the kubelet.                                          *)

Matches(n, r) == IF r[1] = "arch" THEN node[n].arch \in r[2] ELSE r \in node[n].caps \cup node[n].own

\* The RuntimeClass admits ready nodes only; one of the pod's terms must match.
Fits(q, n) ==
    /\ q.tmpl.brewlet => node[n].ready
    /\ q.terms = {} \/ \E x \in q.terms : \A r \in x : Matches(n, r)

Bind(p, n) ==
    /\ pod[p] # NoPod /\ pod[p].node = "" /\ Fits(pod[p], n)
    /\ pod' = [pod EXCEPT ![p].node = n]
    /\ UNCHANGED <<node, plans, fleet, outages, tracked, pending>>

\* What the shim finds on the node for the pod's annotations.
CanRun(t, n) ==
    /\ selectJDK(node[n], t.jdk) # {} /\ selectLauncher(node[n], t.launcher)
    /\ supportsArch(node[n], t.arch)

Bound(p) == pod[p] # NoPod /\ pod[p].tmpl.brewlet /\ pod[p].node # ""
Running(p) == Bound(p) /\ pod[p].jdk # {}

\* A launch that fails is retried by the kubelet until it succeeds.
Start(p) ==
    /\ Bound(p) /\ ~Running(p) /\ CanRun(pod[p].tmpl, pod[p].node)
    /\ pod' = [pod EXCEPT ![p].jdk = selectJDK(node[pod[p].node], pod[p].tmpl.jdk)]
    /\ UNCHANGED <<node, plans, fleet, outages, tracked, pending>>

----------------------------------------------------------------------------
(* The provisioner of a node, and the node controller.                     *)

\* A run of the script first withdraws readiness; then it installs, writes the
\* active inventory and advertises, or it fails, with a reason or in a crash loop.
Withdraw(n) ==
    /\ plans[n] # <<>> /\ (node[n].ready \/ node[n].error)
    /\ node' = [node EXCEPT ![n].ready = FALSE, ![n].error = FALSE]
    /\ pod' = [p \in Pod |-> IF Bound(p) /\ pod[p].node = n THEN [pod[p] EXCEPT !.moved = TRUE] ELSE pod[p]]
    /\ UNCHANGED <<plans, fleet, outages, tracked, pending>>

Failed(r, run) == [r EXCEPT !.error = run.fails = "error", !.looping = TRUE,
                            !.jdks = {}, !.annotated = {}, !.caps = {}]
Provisioned(r, run) == [r EXCEPT !.ready = TRUE, !.looping = FALSE,
                                 !.homes = @ \cup run.jdks, !.active = run.jdks, !.jdks = run.jdks,
                                 !.launchers = @ \cup run.launchers, !.annotated = run.launchers,
                                 !.caps = Caps(run.jdks, run.launchers)]

Publish(n) ==
    LET run == Head(plans[n])
    IN  /\ plans[n] # <<>> /\ ~node[n].ready /\ ~node[n].error
        /\ plans' = [plans EXCEPT ![n] = Tail(@)]
        /\ node' = [node EXCEPT ![n] = IF run.fails = "" THEN Provisioned(node[n], run) ELSE Failed(node[n], run)]
        /\ UNCHANGED <<fleet, pod, outages, tracked, pending>>

\* The parts of a node and of its provisioner pod that the controller reads.
Progress(n) == [ready |-> n.ready, error |-> n.error, looping |-> n.looping, state |-> n.state]

\* An event of the node or of its provisioner pod, which changes again with each
\* restart while it is looping; events are delivered for the nodes that the scenario
\* follows (a bound).
NodeEvent_NodesOnly(n) ==
    /\ node[n].followed /\ tracked[n] # Progress(node[n]) /\ tracked[n].looping = node[n].looping
    /\ tracked' = [tracked EXCEPT ![n] = Progress(node[n])] /\ pending' = pending \cup {n}
    /\ UNCHANGED <<node, plans, fleet, pod, outages>>
NodeEvent(n) ==
    /\ node[n].followed /\ (tracked[n] # Progress(node[n]) \/ (node[n].looping /\ n \notin pending))
    /\ tracked' = [tracked EXCEPT ![n] = Progress(node[n])] /\ pending' = pending \cup {n}
    /\ UNCHANGED <<node, plans, fleet, pod, outages>>

\* Claimed by a profile's pool (PoolAssignment), or advertising the runtime.
isBrewletNode(n, c) == node[n].pooled \/ c.ready

\* The state to show, in the controller's order of precedence, when the list of the
\* provisioner's pods has a failing one or not; a node that is not brewlet's is left
\* as it is.
StateOf(n, c, failing) ==
    IF ~isBrewletNode(n, c) THEN c.state
    ELSE IF c.error THEN "Failed"
    ELSE IF c.ready THEN "Ready"
    ELSE IF failing THEN "Failed" ELSE "Provisioning"

\* The annotation is patched unless the cached copy has the value already.
Mark(n, state) == node' = IF state = tracked[n].state THEN node ELSE [node EXCEPT ![n].state = state]

\* NodeReconciler.Reconcile decides on the cached node. When the provisioner's pods
\* cannot be listed it logs that, and takes none to be failing.
NodeReconcile(n) ==
    /\ n \in pending /\ pending' = pending \ {n}
    /\ \/ Mark(n, StateOf(n, tracked[n], tracked[n].looping)) /\ UNCHANGED outages
       \/ outages > 0 /\ outages' = outages - 1 /\ Mark(n, StateOf(n, tracked[n], FALSE))
    /\ UNCHANGED <<plans, fleet, pod, tracked>>

----------------------------------------------------------------------------
\* A scenario's nodes are provisioned or not yet, with the webhook's and the
\* operator's caches in step.
PodInit(sc) ==
    /\ node = [n \in Node |->
         LET s == sc.nodes[n] IN
         [arch |-> s.arch, own |-> s.own, pooled |-> s.pooled, followed |-> s.followed, inventory |-> "listed",
          homes |-> s.jdks, active |-> s.jdks, jdks |-> s.jdks,
          launchers |-> s.launchers, annotated |-> s.launchers, caps |-> Caps(s.jdks, s.launchers),
          ready |-> s.jdks # {}, error |-> FALSE, looping |-> FALSE, state |-> s.state]]
    /\ plans = sc.plans /\ outages = sc.outages
    /\ fleet = [n \in Node |-> NodeCapabilityFrom(node[n])]
    /\ pod = [p \in Pod |-> NoPod]
    /\ tracked = [n \in Node |-> Progress(node[n])]
    /\ pending = {n \in Node : StateOf(n, tracked[n], FALSE) # node[n].state}
=============================================================================

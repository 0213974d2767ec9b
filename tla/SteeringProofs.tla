--------------------------- MODULE SteeringProofs ---------------------------
(***************************************************************************)
(* Steering is sound for any fleet, any pods and any edits: what the       *)
(* webhook's affinity asks of a node is what the shim finds there. So is   *)
(* what the JavaApplication controller makes of its objects.               *)
(***************************************************************************)
EXTENDS Workload, FiniteSetTheorems, TLAPS

\* A record with the fields of a node, and one with those of a pod.
IsNode(r) ==
    DOMAIN r = {"arch", "own", "pooled", "followed", "inventory", "homes", "active", "jdks", "launchers",
                "annotated", "caps", "ready", "error", "looping", "state"}
IsPod(q) ==
    q = [how |-> q.how, tmpl |-> q.tmpl, ref |-> q.ref, digest |-> q.digest, terms |-> q.terms,
         node |-> q.node, moved |-> q.moved, jdk |-> q.jdk]

\* A ready node's labels and annotations are those of its active inventory.
Truthful(r) ==
    /\ r.inventory = "listed" /\ OwnLabels(r.own)
    /\ r.active \in SUBSET (Dist \X Feature)
    /\ r.ready => /\ r.jdks = r.active /\ r.caps = Caps(r.active, r.annotated)
                  /\ r.active \subseteq r.homes /\ r.annotated \subseteq r.launchers

\* A steered pod carries its requirements in every term, and the node of a pod
\* that was not provisioned anew since still is ready and still fits.
Steered(q) ==
    /\ IsPod(q)
    /\ q.how = "steered" => q.tmpl.brewlet /\ q.terms = injectNodeAffinity(q.tmpl)
    /\ q.tmpl.brewlet /\ q.node # "" /\ ~q.moved => q.node \in Node /\ node[q.node].ready /\ Fits(q, q.node)

SteerInv ==
    /\ node = [n \in Node |-> node[n]] /\ \A n \in Node : IsNode(node[n]) /\ Truthful(node[n])
    /\ plans = [n \in Node |-> plans[n]] /\ \A n \in Node : plans[n] \in Seq(ProvisionerRun)
    /\ pod = [p \in Pod |-> pod[p]] /\ \A p \in Pod : pod[p] # NoPod => Steered(pod[p])

----------------------------------------------------------------------------
(* The labels promise what the shim looks for.                             *)

\* Of several JDKs, one has the lexically first distribution.
LEMMA FirstDist ==
    ASSUME NEW J, J \subseteq Dist \X Feature, J # {}
    PROVE  {j \in J : \A k \in J : DistRank[j[1]] <= DistRank[k[1]]} # {}
<1> DEFINE R == {ss \in Nat \X Nat : ss[1] < ss[2]}
           S == {DistRank[j[1]] : j \in J}
<1>1. IsWellFoundedOn(R, Nat)
  BY NatLessThanWellFounded, Zenon DEF OpToRel
<1>2. \A j \in J : DistRank[j[1]] \in Nat
  BY DistAssumption, Zenon
<1>3. S \subseteq Nat /\ S # {}
  BY <1>2, Zenon
<1>4. PICK i \in S : \A j \in S : <<j, i>> \notin R
  <2> HIDE DEF R, S
  <2> QED BY <1>1, <1>3, WFMin, Zenon
<1>5. PICK j \in J : i = DistRank[j[1]]
  BY <1>4, Zenon
<1>6. ASSUME NEW k \in J PROVE DistRank[j[1]] <= DistRank[k[1]]
  <2>1. <<DistRank[k[1]], i>> \notin R
    BY <1>4, Zenon
  <2>2. i \in Nat /\ DistRank[k[1]] \in Nat
    BY <1>2, <1>5, Zenon
  <2>3. ~(DistRank[k[1]] < i)
    BY <2>1, <2>2, Zenon
  <2> QED BY <2>2, <2>3, <1>5
<1>7. \A k \in J : DistRank[j[1]] <= DistRank[k[1]]
  BY <1>6, Zenon
<1> QED BY <1>7, Zenon

\* A JDK label that matches a request means that selectJDK finds a JDK for it.
LEMMA LabelledJDK ==
    ASSUME NEW n \in Node, Truthful(node[n]), node[n].ready, NEW t, t.jdk # <<>>,
           \A r \in requiredCapabilityLabels(t) : Matches(n, r)
    PROVE  selectJDK(node[n], t.jdk) # {}
<1> DEFINE A == node[n].active
<1>1. Usable(node[n]) = A /\ A \subseteq Dist \X Feature
  BY Zenon DEF Truthful, Usable
<1>2. \A r \in node[n].own : r[1] \notin {"jdk", "jdk-feature", "launcher"}
  BY Zenon DEF Truthful, OwnLabels
<1>3. CASE bareFeature(t.jdk)
  <2>1. <<"jdk-feature", t.jdk[1]>> \in requiredCapabilityLabels(t)
    BY <1>3, Zenon DEF requiredCapabilityLabels
  <2>2. <<"jdk-feature", t.jdk[1]>> \in node[n].caps
    BY <2>1, <1>2, Zenon DEF Matches
  <2>3. PICK j \in A : j[2] = t.jdk[1]
    BY <2>2 DEF Truthful, Caps
  <2>4. Len(t.jdk) = 1 /\ Len(t.jdk) # 2 /\ t.jdk[1] \in Feature
    BY <1>3 DEF bareFeature
  <2>5. parseJDKRequest(t.jdk) = <<"", t.jdk[1]>>
    BY <2>4, Zenon DEF parseJDKRequest
  <2> DEFINE F == {k \in A : k[2] = t.jdk[1]}
  <2>6. F # {} /\ F \subseteq Dist \X Feature
    BY <2>3, <1>1, Zenon
  <2>7. {k \in F : \A l \in F : DistRank[k[1]] <= DistRank[l[1]]} # {}
    BY <2>6, FirstDist, Zenon
  <2>8. selectJDK(node[n], t.jdk) = {k \in F : \A l \in F : DistRank[k[1]] <= DistRank[l[1]]}
    <3>0. ASSUME NEW x PROVE <<"", x>>[1] = "" /\ <<"", x>>[2] = x
      BY Zenon
    <3>1. parseJDKRequest(t.jdk)[1] = "" /\ parseJDKRequest(t.jdk)[2] = t.jdk[1]
      BY <2>5, <3>0, Zenon
    <3>2. {k \in Usable(node[n]) : k[2] = parseJDKRequest(t.jdk)[2]} = F
      BY <1>1, <3>1, Zenon
    <3>3. node[n].inventory # "unreadable"
      BY Zenon DEF Truthful
    <3> HIDE DEF F
    <3> QED BY <3>1, <3>2, <3>3, Zenon DEF selectJDK
  <2> QED BY <2>7, <2>8, Zenon
<1>4. CASE ~bareFeature(t.jdk)
  <2>1. <<"jdk", t.jdk>> \in requiredCapabilityLabels(t)
    BY <1>4, Zenon DEF requiredCapabilityLabels
  <2>2. <<"jdk", t.jdk>> \in node[n].caps
    BY <2>1, <1>2, Zenon DEF Matches
  <2>3. t.jdk \in A
    BY <2>2 DEF Truthful, Caps
  <2>4. t.jdk = <<t.jdk[1], t.jdk[2]>> /\ t.jdk[1] \in Dist /\ t.jdk[2] \in Feature
    BY <2>3, <1>1
  <2>5. Len(t.jdk) = 2 /\ t.jdk[1] # ""
    BY <2>4, DistAssumption, Zenon
  <2>6. parseJDKRequest(t.jdk) = t.jdk
    BY <2>4, <2>5, Zenon DEF parseJDKRequest
  <2> QED BY <1>1, <2>3, <2>5, <2>6, Zenon DEF selectJDK, Truthful
<1> QED BY <1>3, <1>4, Zenon

\* A launcher label stands for a launcher the shim finds on the host, and the
\* arch requirement for the host's arch.
LEMMA LabelledRest ==
    ASSUME NEW n \in Node, Truthful(node[n]), node[n].ready, NEW t,
           \A r \in requiredCapabilityLabels(t) : Matches(n, r)
    PROVE  selectLauncher(node[n], t.launcher) /\ supportsArch(node[n], t.arch)
<1>1. \A r \in node[n].own : r[1] \notin {"jdk", "jdk-feature", "launcher"}
  BY Zenon DEF Truthful, OwnLabels
<1>2. selectLauncher(node[n], t.launcher)
  <2>1. CASE t.launcher \in {"", "java"}
    BY <2>1, Zenon DEF selectLauncher, IsVanillaLauncher
  <2>2. CASE t.launcher \notin {"", "java"}
    <3>1. <<"launcher", t.launcher>> \in requiredCapabilityLabels(t)
      BY <2>2, Zenon DEF requiredCapabilityLabels
    <3>2. <<"launcher", t.launcher>> \in node[n].caps
      BY <3>1, <1>1, Zenon DEF Matches
    <3>3. t.launcher \in node[n].annotated
      BY <3>2 DEF Truthful, Caps
    <3> QED BY <3>3, Zenon DEF Truthful, selectLauncher
  <2> QED BY <2>1, <2>2, Zenon
<1>3. supportsArch(node[n], t.arch)
  <2>1. CASE t.arch # {}
    <3>1. <<"arch", t.arch>> \in requiredCapabilityLabels(t)
      BY <2>1, Zenon DEF requiredCapabilityLabels
    <3> QED BY <3>1, Zenon DEF Matches, supportsArch
  <2> QED BY <2>1, Zenon DEF supportsArch
<1> QED BY <1>2, <1>3, Zenon

\* A steered pod fits no node that lacks one of its requirements.
LEMMA FitsRequirements ==
    ASSUME NEW q, NEW n, q.terms = injectNodeAffinity(q.tmpl), Fits(q, n)
    PROVE  \A r \in requiredCapabilityLabels(q.tmpl) : Matches(n, r)
<1>1. CASE requiredCapabilityLabels(q.tmpl) = {}
  BY <1>1, Zenon
<1>2. CASE requiredCapabilityLabels(q.tmpl) # {}
  <2> DEFINE reqs == requiredCapabilityLabels(q.tmpl)
             base == IF q.tmpl.terms = {} THEN {{}} ELSE q.tmpl.terms
  <2>1. q.terms = {x \cup reqs : x \in base}
    BY <1>2, Zenon DEF injectNodeAffinity
  <2>2. base # {}
    BY Zenon
  <2>3. PICK x \in q.terms : \A r \in x : Matches(n, r)
    BY <2>1, <2>2, Zenon DEF Fits
  <2>4. reqs \subseteq x
    BY <2>1, <2>3, Zenon
  <2> QED BY <2>3, <2>4, Zenon
<1> QED BY <1>1, <1>2, Zenon

\* The invariant gives the property: what the labels promised is what runs.
LEMMA SteerInvImplies == SteerInv => SteeredRuns
<1> SUFFICES ASSUME SteerInv, NEW p \in Pod, Bound(p), pod[p].how = "steered", ~pod[p].moved
             PROVE  Honours(pod[p].tmpl, pod[p].node)
  BY Zenon DEF SteeredRuns
<1> DEFINE q == pod[p]
           m == pod[p].node
<1>1. Steered(q) /\ q.tmpl.brewlet /\ m # ""
  BY Zenon DEF SteerInv, Bound
<1>2. m \in Node /\ node[m].ready /\ Fits(q, m) /\ Truthful(node[m])
  BY <1>1, Zenon DEF Steered, SteerInv
<1>3. \A r \in requiredCapabilityLabels(q.tmpl) : Matches(m, r)
  BY <1>1, <1>2, FitsRequirements, Zenon DEF Steered
<1> QED BY <1>2, <1>3, LabelledJDK, LabelledRest, Zenon DEF Honours

----------------------------------------------------------------------------
(* The invariant is kept: what a step does to the nodes and the pods.      *)

Kept == UNCHANGED <<node, plans, pod>>
Offered == manual \cup (IF api.dep.owner = "app" THEN {api.dep.tmpl} ELSE {})
Placed(p, q) == pod' = [pod EXCEPT ![p] = q] /\ UNCHANGED <<node, plans>>

\* A step leaves nodes and pods alone, or is one of the operations below.
LEMMA NextKinds ==
    ASSUME [Next]_vars
    PROVE  \/ Kept
           \/ \E p \in Pod, t \in Offered : Handle(p, t)
           \/ \E p \in Pod : Placed(p, NoPod) \/ Start(p) \/ \E n \in Node : Bind(p, n)
           \/ \E n \in Node : Withdraw(n) \/ Publish(n) \/ NodeReconcile(n)
<1>1. CASE UNCHANGED vars
  BY <1>1, Zenon DEF vars, podVars, Kept
<1>2. CASE Reconcile \/ HPA \/ ReportRollout \/ App(Restart) \/ App(Edit)
  BY <1>2, Zenon DEF Reconcile, HPA, ReportRollout, App, podVars, Kept
<1>3. CASE \E k \in {"app", "dep", "svc", "hpa"} : App(Deliver(k))
  BY <1>3, Zenon DEF App, podVars, Kept
<1>4. CASE \E k \in {"dep", "svc", "hpa"} : App(Leave(k)) \/ App(Collect(k))
  BY <1>4, Zenon DEF App, podVars, Kept
<1>5. CASE \E p \in Pod : Replicate(p) \/ Retire(p) \/ Schedule(p) \/ Cluster(Start(p))
  BY <1>5, Zenon DEF Replicate, Retire, Schedule, Cluster, Placed, Offered
<1>6. CASE \E p \in Pod, t \in manual : CreateByHand(p, t)
  BY <1>6, Zenon DEF CreateByHand, Offered
<1>7. CASE \E n \in Node : \/ Cluster(SyncFleet(n)) \/ Cluster(Withdraw(n)) \/ Cluster(Publish(n))
                          \/ Cluster(NodeEvent(n)) \/ Cluster(NodeReconcile(n))
  BY <1>7, Zenon DEF Cluster, SyncFleet, NodeEvent, Kept
<1> QED BY <1>1, <1>2, <1>3, <1>4, <1>5, <1>6, <1>7, Zenon DEF Next

\* A pod's part of the invariant survives a change of the nodes that leaves the
\* pod's node alone where it matters, or counts the pod as moved.
LEMMA SteeredKept ==
    ASSUME NEW q, Steered(q),
           q.tmpl.brewlet /\ q.node # "" /\ ~q.moved =>
               /\ node'[q.node].ready = node[q.node].ready /\ node'[q.node].arch = node[q.node].arch
               /\ node'[q.node].caps = node[q.node].caps /\ node'[q.node].own = node[q.node].own
    PROVE  Steered(q)'
BY Zenon DEF Steered, Fits, Matches

\* A pod in its slot is replaced, the nodes stay.
LEMMA PlacedKeeps ==
    ASSUME SteerInv, NEW p \in Pod, NEW q, Placed(p, q), q = NoPod \/ Steered(q)
    PROVE  SteerInv'
<1>1. node' = node /\ plans' = plans /\ pod' = [pod EXCEPT ![p] = q]
  BY Zenon DEF Placed
<1>2. pod' = [r \in Pod |-> pod'[r]] /\ \A r \in Pod : pod'[r] = IF r = p THEN q ELSE pod[r]
  BY <1>1, Zenon DEF SteerInv
<1>3. ASSUME NEW r \in Pod, pod'[r] # NoPod PROVE Steered(pod'[r])
  BY <1>2, <1>3, Zenon DEF SteerInv
<1>4. \A x : Steered(x)' <=> Steered(x)
  BY <1>1, Zenon DEF Steered, Fits, Matches
<1> QED BY <1>1, <1>2, <1>3, <1>4, Zenon DEF SteerInv

\* The fields of an updated pod.
LEMMA PodUpdates ==
    ASSUME NEW q, IsPod(q), NEW v
    PROVE  /\ [q EXCEPT !.node = v] = [how |-> q.how, tmpl |-> q.tmpl, ref |-> q.ref, digest |-> q.digest,
                                       terms |-> q.terms, node |-> v, moved |-> q.moved, jdk |-> q.jdk]
           /\ [q EXCEPT !.moved = v] = [how |-> q.how, tmpl |-> q.tmpl, ref |-> q.ref, digest |-> q.digest,
                                        terms |-> q.terms, node |-> q.node, moved |-> v, jdk |-> q.jdk]
           /\ [q EXCEPT !.jdk = v] = [how |-> q.how, tmpl |-> q.tmpl, ref |-> q.ref, digest |-> q.digest,
                                      terms |-> q.terms, node |-> q.node, moved |-> q.moved, jdk |-> v]
BY SMT DEF IsPod

\* A pod the webhook admits carries its requirements and is on no node yet.
LEMMA HandleKeeps ==
    ASSUME SteerInv, NEW p \in Pod, NEW t, Handle(p, t)
    PROVE  SteerInv'
<1>1. ASSUME NEW how, how # "steered" \/ t.brewlet, NEW ref, NEW digest, NEW terms,
             how = "steered" => terms = injectNodeAffinity(t)
      PROVE  Steered(Stored(t, how, ref, digest, terms))
  BY <1>1, Zenon DEF Stored, Steered, IsPod
<1>2. /\ \A how : how # "steered" => Steered(Untouched(t, how))
      /\ t.brewlet => Steered(MutatePod(t))
  BY <1>1, Zenon DEF Untouched, MutatePod
<1>3. PICK q : Placed(p, q) /\ Steered(q)
  BY <1>2, Zenon DEF Handle, Placed
<1> QED BY <1>3, PlacedKeeps, Zenon

\* The scheduler binds a pod to a ready node that fits.
LEMMA BindKeeps ==
    ASSUME SteerInv, NEW p \in Pod, NEW n \in Node, Bind(p, n)
    PROVE  SteerInv'
<1> DEFINE q == [pod[p] EXCEPT !.node = n]
<1>1. pod[p] # NoPod /\ Steered(pod[p]) /\ Fits(pod[p], n)
  BY Zenon DEF Bind, SteerInv
<1>2. IsPod(q) /\ q.node = n /\ q.how = pod[p].how /\ q.tmpl = pod[p].tmpl /\ q.terms = pod[p].terms
  <2>1. q = [how |-> pod[p].how, tmpl |-> pod[p].tmpl, ref |-> pod[p].ref, digest |-> pod[p].digest,
             terms |-> pod[p].terms, node |-> n, moved |-> pod[p].moved, jdk |-> pod[p].jdk]
    BY <1>1, PodUpdates, Zenon DEF Steered
  <2> QED BY <2>1, Zenon DEF IsPod
<1>3. Fits(q, n)
  BY <1>1, <1>2, Zenon DEF Fits
<1>4. Steered(q)
  BY <1>1, <1>2, <1>3, Zenon DEF Steered, Fits
<1>5. Placed(p, q)
  BY Zenon DEF Bind, Placed, SteerInv
<1> QED BY <1>4, <1>5, PlacedKeeps, Zenon

\* The shim's start only records the JDK that runs.
LEMMA StartKeeps ==
    ASSUME SteerInv, NEW p \in Pod, Start(p)
    PROVE  SteerInv'
<1> DEFINE q == [pod[p] EXCEPT !.jdk = selectJDK(node[pod[p].node], pod[p].tmpl.jdk)]
<1>1. pod[p] # NoPod /\ Steered(pod[p])
  BY Zenon DEF Start, Bound, SteerInv
<1>2. /\ IsPod(q) /\ q.node = pod[p].node /\ q.how = pod[p].how
      /\ q.tmpl = pod[p].tmpl /\ q.terms = pod[p].terms /\ q.moved = pod[p].moved
  <2> DEFINE v == selectJDK(node[pod[p].node], pod[p].tmpl.jdk)
  <2> HIDE DEF v
  <2>1. [pod[p] EXCEPT !.jdk = v] =
            [how |-> pod[p].how, tmpl |-> pod[p].tmpl, ref |-> pod[p].ref, digest |-> pod[p].digest,
             terms |-> pod[p].terms, node |-> pod[p].node, moved |-> pod[p].moved, jdk |-> v]
    BY <1>1, PodUpdates, Zenon DEF Steered
  <2>2. q = [pod[p] EXCEPT !.jdk = v]
    BY Zenon DEF v
  <2> HIDE DEF q
  <2> QED BY <2>1, <2>2, Zenon DEF IsPod
<1>3. Steered(q)
  <2> HIDE DEF q
  <2> QED BY <1>1, <1>2, Zenon DEF Steered, Fits
<1>4. Placed(p, q)
  BY Zenon DEF Start, Placed, SteerInv
<1> QED BY <1>3, <1>4, PlacedKeeps, Zenon

\* The nodes change at n; a pod there is counted as moved, unless what it was
\* bound by is left alone.
LEMMA NodeKeeps ==
    ASSUME SteerInv, NEW n \in Node, NEW r, node' = [node EXCEPT ![n] = r], IsNode(r), Truthful(r),
           \A m \in Node : plans'[m] \in Seq(ProvisionerRun), plans' = [m \in Node |-> plans'[m]],
           UNCHANGED pod,
           \/ \A p \in Pod : pod[p] # NoPod /\ pod[p].tmpl.brewlet /\ pod[p].node = n => pod[p].moved
           \/ r.ready = node[n].ready /\ r.arch = node[n].arch /\ r.caps = node[n].caps /\ r.own = node[n].own
    PROVE  SteerInv'
<1>1. node' = [m \in Node |-> node'[m]] /\ \A m \in Node : node'[m] = IF m = n THEN r ELSE node[m]
  BY Zenon DEF SteerInv
<1>2. \A m \in Node : IsNode(node[m])' /\ Truthful(node[m])'
  <2> SUFFICES ASSUME NEW m \in Node PROVE IsNode(node'[m]) /\ Truthful(node'[m])
    BY Zenon DEF IsNode, Truthful
  <2> QED BY <1>1, Zenon DEF SteerInv
<1>3. ASSUME NEW p \in Pod, pod[p] # NoPod PROVE Steered(pod[p])'
  <2> DEFINE q == pod[p]
  <2>1. Steered(q)
    BY <1>3, Zenon DEF SteerInv
  <2>2. ASSUME q.tmpl.brewlet, q.node # "", ~q.moved
        PROVE  /\ node'[q.node].ready = node[q.node].ready /\ node'[q.node].arch = node[q.node].arch
               /\ node'[q.node].caps = node[q.node].caps /\ node'[q.node].own = node[q.node].own
    <3>1. q.node \in Node
      BY <2>1, <2>2, Zenon DEF Steered
    <3> QED BY <3>1, <2>2, <1>1, <1>3, Zenon
  <2>3. ASSUME NEW x, x = pod[p], x = pod'[p] PROVE Steered(x)'
    BY <2>1, <2>2, <2>3, SteeredKept, Zenon
  <2>4. pod'[p] = pod[p]
    BY Zenon
  <2> QED BY <2>3, <2>4, Zenon DEF Steered, Fits, Matches
<1> QED BY <1>1, <1>2, <1>3, Zenon DEF SteerInv

\* The fields of a node after the steps that change one.
LEMMA StateUpdate ==
    ASSUME NEW r, IsNode(r), NEW v, NEW u, u = [r EXCEPT !.state = v]
    PROVE  /\ IsNode(u) /\ u.ready = r.ready /\ u.inventory = r.inventory /\ u.own = r.own
           /\ u.active = r.active /\ u.caps = r.caps /\ u.annotated = r.annotated
           /\ u.homes = r.homes /\ u.launchers = r.launchers /\ u.arch = r.arch /\ u.jdks = r.jdks
BY SMT DEF IsNode

\* What the provisioner withdraws (label_node, clear_node_advertisement) only
\* makes the node less ready.
LEMMA ReadyUpdate ==
    ASSUME NEW r, IsNode(r), Truthful(r), NEW u, u = [r EXCEPT !.ready = FALSE, !.error = FALSE]
    PROVE  IsNode(u) /\ Truthful(u)
<1>1. IsNode(u) /\ ~u.ready /\ u.inventory = r.inventory /\ u.own = r.own /\ u.active = r.active
  BY SMT DEF IsNode
<1> QED BY <1>1, Zenon DEF Truthful

\* A failed run leaves a node that is not ready.
LEMMA FailedUpdate ==
    ASSUME NEW r, IsNode(r), Truthful(r), ~r.ready, NEW run
    PROVE  IsNode(Failed(r, run)) /\ Truthful(Failed(r, run))
<1> DEFINE e == run.fails = "error"
<1>1. Failed(r, run) = [r EXCEPT !.error = e, !.looping = TRUE, !.jdks = {}, !.annotated = {}, !.caps = {}]
  BY Zenon DEF Failed
<1> HIDE DEF e
<1>2. ASSUME NEW u, u = Failed(r, run)
      PROVE  IsNode(u) /\ u.ready = r.ready /\ u.inventory = r.inventory /\ u.own = r.own /\ u.active = r.active
  BY <1>1, <1>2, SMT DEF IsNode
<1> QED BY <1>2, Zenon DEF Truthful

\* A finished run advertises exactly the inventory it activated.
LEMMA ProvisionedUpdate ==
    ASSUME NEW r, IsNode(r), Truthful(r), NEW run \in ProvisionerRun
    PROVE  IsNode(Provisioned(r, run)) /\ Truthful(Provisioned(r, run))
<1> DEFINE j == run.jdks
           l == run.launchers
           c == Caps(run.jdks, run.launchers)
<1>1. Provisioned(r, run) =
          [r EXCEPT !.ready = TRUE, !.looping = FALSE, !.homes = @ \cup j, !.active = j, !.jdks = j,
                    !.launchers = @ \cup l, !.annotated = l, !.caps = c]
  BY Zenon DEF Provisioned
<1> HIDE DEF j, l, c
<1>2. PICK u : u = Provisioned(r, run)
  BY Zenon
<1>3. /\ IsNode(u) /\ u.inventory = r.inventory /\ u.own = r.own /\ u.active = j
      /\ u.homes = r.homes \cup j /\ u.launchers = r.launchers \cup l
      /\ u.annotated = l /\ u.caps = c /\ u.jdks = j
  BY <1>1, <1>2, SMT DEF IsNode
<1>4. c = Caps(j, l)
  BY Zenon DEF j, l, c
<1>5. j \in SUBSET (Dist \X Feature)
  BY Zenon DEF j, ProvisionerRun
<1>6. Truthful(u)
  BY <1>3, <1>4, <1>5, Zenon DEF Truthful
<1> QED BY <1>2, <1>3, <1>6, Zenon

\* The node controller writes only the provision-state label.
LEMMA NodeReconcileKeeps ==
    ASSUME SteerInv, NEW n \in Node, NodeReconcile(n)
    PROVE  SteerInv'
<1>3. PICK v : node' = node \/ node' = [node EXCEPT ![n].state = v]
  BY Zenon DEF NodeReconcile, Mark
<1>1. CASE node' = node
  BY <1>1 DEF NodeReconcile, SteerInv, IsNode, Truthful, Steered, Fits, Matches
<1>2. CASE node' = [node EXCEPT ![n].state = v]
  <2> DEFINE r == [node[n] EXCEPT !.state = v]
  <2>1. node' = [node EXCEPT ![n] = r]
    BY <1>2, Zenon
  <2>2. IsNode(node[n]) /\ Truthful(node[n])
    BY Zenon DEF SteerInv
  <2>3. /\ IsNode(r) /\ r.ready = node[n].ready /\ r.inventory = node[n].inventory /\ r.own = node[n].own
        /\ r.active = node[n].active /\ r.caps = node[n].caps /\ r.annotated = node[n].annotated
        /\ r.homes = node[n].homes /\ r.launchers = node[n].launchers /\ r.arch = node[n].arch
        /\ r.jdks = node[n].jdks
    BY <2>2, StateUpdate
  <2> HIDE DEF r
  <2>4. Truthful(r)
    BY <2>2, <2>3, Zenon DEF Truthful
  <2>5. /\ pod' = pod /\ plans' = [m \in Node |-> plans'[m]]
        /\ \A m \in Node : plans'[m] \in Seq(ProvisionerRun)
    BY Zenon DEF NodeReconcile, SteerInv
  <2> QED BY <2>1, <2>3, <2>4, <2>5, NodeKeeps, Zenon
<1> QED BY <1>1, <1>2, <1>3, Zenon

\* A node that is not ready has no pod that was bound to it and not moved.
LEMMA UnreadyMoved ==
    ASSUME SteerInv, NEW n \in Node, ~node[n].ready, NEW p \in Pod,
           pod[p] # NoPod, pod[p].tmpl.brewlet, pod[p].node = n, n # ""
    PROVE  pod[p].moved
BY Zenon DEF SteerInv, Steered

\* The first run and the rest of a node's plan.
LEMMA HeadTail ==
    ASSUME NEW S, NEW s \in Seq(S), s # <<>>
    PROVE  Head(s) \in S /\ Tail(s) \in Seq(S)
<1>1. Len(s) \in Nat /\ Len(s) # 0
  OBVIOUS
<1> QED BY <1>1

\* A provisioner's run, failed or finished, keeps the invariant.
LEMMA PublishKeeps ==
    ASSUME SteerInv, NEW n \in Node, n # "", Publish(n)
    PROVE  SteerInv'
<1> DEFINE run == Head(plans[n])
<1>1. ~node[n].ready /\ plans[n] # <<>> /\ plans[n] \in Seq(ProvisionerRun)
  BY Zenon DEF Publish, SteerInv
<1>2. run \in ProvisionerRun /\ Tail(plans[n]) \in Seq(ProvisionerRun)
  BY <1>1, HeadTail, Zenon
<1>3. IsNode(node[n]) /\ Truthful(node[n])
  BY Zenon DEF SteerInv
<1>4. PICK r : node' = [node EXCEPT ![n] = r] /\ r \in {Provisioned(node[n], run), Failed(node[n], run)}
  BY Zenon DEF Publish
<1>5. IsNode(r) /\ Truthful(r)
  BY <1>1, <1>2, <1>3, <1>4, FailedUpdate, ProvisionedUpdate, Zenon
<1>6. /\ UNCHANGED pod /\ plans' = [m \in Node |-> plans'[m]]
      /\ \A m \in Node : plans'[m] \in Seq(ProvisionerRun)
  BY <1>2, Zenon DEF Publish, SteerInv
<1>7. \A p \in Pod : pod[p] # NoPod /\ pod[p].tmpl.brewlet /\ pod[p].node = n => pod[p].moved
  BY <1>1, UnreadyMoved, Zenon
<1> QED BY <1>4, <1>5, <1>6, <1>7, NodeKeeps, Zenon

\* Withdrawing readiness marks every pod of the node as provisioned over.
LEMMA WithdrawKeeps ==
    ASSUME SteerInv, NEW n \in Node, Withdraw(n)
    PROVE  SteerInv'
<1> DEFINE r == [node[n] EXCEPT !.ready = FALSE, !.error = FALSE]
<1>1. node' = [node EXCEPT ![n] = r] /\ plans' = plans
  BY Zenon DEF Withdraw, SteerInv
<1>2. IsNode(r) /\ Truthful(r)
  BY ReadyUpdate, Zenon DEF SteerInv
<1> HIDE DEF r
<1>3. node' = [m \in Node |-> node'[m]] /\ \A m \in Node : node'[m] = IF m = n THEN r ELSE node[m]
  BY <1>1, Zenon DEF SteerInv
<1>4. \A m \in Node : IsNode(node[m])' /\ Truthful(node[m])'
  <2> SUFFICES ASSUME NEW m \in Node PROVE IsNode(node'[m]) /\ Truthful(node'[m])
    BY Zenon DEF IsNode, Truthful
  <2> QED BY <1>2, <1>3, Zenon DEF SteerInv
<1>5. /\ pod' = [p \in Pod |-> pod'[p]]
      /\ \A p \in Pod : pod'[p] = IF Bound(p) /\ pod[p].node = n THEN [pod[p] EXCEPT !.moved = TRUE] ELSE pod[p]
  BY Zenon DEF Withdraw
<1>6. ASSUME NEW p \in Pod, pod'[p] # NoPod PROVE Steered(pod[p])'
  <2>1. CASE Bound(p) /\ pod[p].node = n
    <3> DEFINE q == pod[p]
    <3>1. Steered(q)
      BY <2>1, Zenon DEF Bound, SteerInv
    <3>2. pod'[p] = [how |-> q.how, tmpl |-> q.tmpl, ref |-> q.ref, digest |-> q.digest,
                     terms |-> q.terms, node |-> q.node, moved |-> TRUE, jdk |-> q.jdk]
      BY <2>1, <1>5, <3>1, PodUpdates, Zenon DEF Steered
    <3>3. ASSUME NEW x, x = pod'[p] PROVE Steered(x)'
      <4>1. IsPod(x) /\ x.moved /\ x.how = q.how /\ x.tmpl = q.tmpl /\ x.terms = q.terms
        BY <3>2, <3>3 DEF IsPod
      <4> QED BY <3>1, <4>1, Zenon DEF Steered
    <3> QED BY <3>3, Zenon DEF Steered, Fits, Matches
  <2>2. CASE ~(Bound(p) /\ pod[p].node = n)
    <3>1. pod'[p] = pod[p] /\ pod[p] # NoPod /\ Steered(pod[p])
      BY <2>2, <1>5, <1>6, Zenon DEF SteerInv
    <3>2. ASSUME pod[p].tmpl.brewlet, pod[p].node # "", ~pod[p].moved
          PROVE  node'[pod[p].node] = node[pod[p].node]
      <4>1. pod[p].node \in Node /\ pod[p].node # n
        BY <2>2, <3>1, <3>2, Zenon DEF Bound, Steered
      <4> QED BY <4>1, <1>3, Zenon
    <3>3. ASSUME NEW x, x = pod[p], x = pod'[p] PROVE Steered(x)'
      BY <3>1, <3>2, <3>3, SteeredKept, Zenon
    <3> QED BY <3>1, <3>3, Zenon DEF Steered, Fits, Matches
  <2> QED BY <2>1, <2>2, Zenon
<1> QED BY <1>1, <1>3, <1>4, <1>5, <1>6, Zenon DEF SteerInv

\* Every scenario starts with labels that match the inventory and no pod.
LEMMA SteerInit == Init => SteerInv
<1> SUFFICES ASSUME NEW sc \in Scenarios, PodInit(sc) PROVE SteerInv
  BY Zenon DEF Init
<1>1. pod = [p \in Pod |-> pod[p]] /\ \A p \in Pod : pod[p] = NoPod
  BY Zenon DEF PodInit
<1>2. plans = [n \in Node |-> plans[n]] /\ \A n \in Node : plans[n] \in Seq(ProvisionerRun)
  BY ScenariosAssumption, Zenon DEF PodInit
<1>3. node = [n \in Node |-> node[n]]
  BY Zenon DEF PodInit
<1>4. ASSUME NEW n \in Node PROVE IsNode(node[n]) /\ Truthful(node[n])
  <2>1. /\ IsNode(node[n]) /\ node[n].inventory = "listed" /\ node[n].own = sc.nodes[n].own
        /\ node[n].active = sc.nodes[n].jdks /\ node[n].homes = sc.nodes[n].jdks
        /\ node[n].annotated = sc.nodes[n].launchers /\ node[n].launchers = sc.nodes[n].launchers
        /\ node[n].caps = Caps(sc.nodes[n].jdks, sc.nodes[n].launchers) /\ node[n].jdks = sc.nodes[n].jdks
    BY Zenon DEF PodInit, IsNode
  <2> QED BY <2>1, ScenariosAssumption, Zenon DEF Truthful
<1> QED BY <1>1, <1>2, <1>3, <1>4, Zenon DEF SteerInv

\* One case per kind of step.
LEMMA SteerNext == SteerInv /\ [Next]_vars => SteerInv'
<1> SUFFICES ASSUME SteerInv, [Next]_vars PROVE SteerInv'
  BY Zenon
<1>1. CASE Kept
  BY <1>1 DEF Kept, SteerInv, IsNode, Truthful, Steered, Fits, Matches
<1>2. CASE \E p \in Pod, t \in Offered : Handle(p, t)
  BY <1>2, HandleKeeps, Zenon
<1>3. CASE \E p \in Pod : Placed(p, NoPod) \/ Start(p) \/ \E n \in Node : Bind(p, n)
  BY <1>3, PlacedKeeps, StartKeeps, BindKeeps, Zenon
<1>4. CASE \E n \in Node : Withdraw(n) \/ Publish(n) \/ NodeReconcile(n)
  BY <1>4, NodeAssumption, WithdrawKeeps, PublishKeeps, NodeReconcileKeeps, Zenon
<1> QED BY <1>1, <1>2, <1>3, <1>4, NextKinds, Zenon

\* For any nodes, pods and scenarios: the webhook never steers a pod to a node
\* whose shim cannot honour its request, while the node is not provisioned anew.
THEOREM SteeringSound == Spec => []SteeredRuns
<1>1. Init => SteerInv
  BY SteerInit, Zenon
<1>2. SteerInv /\ [Next]_vars => SteerInv'
  BY SteerNext, Zenon
<1>3. SteerInv => SteeredRuns
  BY SteerInvImplies, Zenon
<1> QED BY <1>1, <1>2, <1>3, PTL DEF Spec

----------------------------------------------------------------------------
(* The webhook's decision is the shim's.                                   *)

\* On a ready node the webhook's view of a well formed JDK request is selectJDK's.
LEMMA JDKAgrees ==
    ASSUME NEW n \in Node, Truthful(node[n]), node[n].ready, NEW t, NamesFeature(t)
    PROVE  supportsJDK(NodeCapabilityFrom(node[n]), t.jdk) <=> (t.jdk # <<>> => selectJDK(node[n], t.jdk) # {})
<1> DEFINE A == node[n].active
           c == NodeCapabilityFrom(node[n])
<1>1. Usable(node[n]) = A /\ A \subseteq Dist \X Feature /\ c.jdks = A /\ node[n].inventory = "listed"
  BY Zenon DEF Truthful, Usable, NodeCapabilityFrom
<1> HIDE DEF c
<1>2. CASE t.jdk = <<>>
  BY <1>2, Zenon DEF supportsJDK
<1>3. CASE t.jdk # <<>> /\ bareFeature(t.jdk)
  <2> DEFINE F == {k \in A : k[2] = t.jdk[1]}
  <2>1. Len(t.jdk) = 1 /\ Len(t.jdk) # 2 /\ t.jdk[1] \in Feature
    BY <1>3 DEF bareFeature
  <2>2. parseJDKRequest(t.jdk) = <<"", t.jdk[1]>>
    BY <2>1, Zenon DEF parseJDKRequest
  <2>3. ASSUME NEW x PROVE <<"", x>>[1] = "" /\ <<"", x>>[2] = x
    BY Zenon
  <2>4. parseJDKRequest(t.jdk)[1] = "" /\ parseJDKRequest(t.jdk)[2] = t.jdk[1]
    BY <2>2, <2>3, Zenon
  <2>5. {k \in Usable(node[n]) : k[2] = parseJDKRequest(t.jdk)[2]} = F
    BY <1>1, <2>4, Zenon
  <2>6. F # {} => {k \in F : \A l \in F : DistRank[k[1]] <= DistRank[l[1]]} # {}
    BY <1>1, FirstDist, Zenon
  <2>7. supportsJDK(c, t.jdk) <=> F # {}
    BY <1>1, <1>3, Zenon DEF supportsJDK
  <2> HIDE DEF F
  <2>8. node[n].inventory # "unreadable"
    BY <1>1, Zenon
  <2>9. selectJDK(node[n], t.jdk) = {k \in F : \A l \in F : DistRank[k[1]] <= DistRank[l[1]]}
    BY <2>4, <2>5, <2>8, Zenon DEF selectJDK
  <2> QED BY <1>3, <2>6, <2>7, <2>9, Zenon DEF c
<1>4. CASE t.jdk # <<>> /\ ~bareFeature(t.jdk)
  <2>1. Len(t.jdk) = 2 /\ t.jdk[1] # "" /\ t.jdk[2] \in Feature
    BY <1>4, Zenon DEF NamesFeature
  <2>2. parseJDKRequest(t.jdk) = t.jdk
    BY <2>1, Zenon DEF parseJDKRequest
  <2>3. supportsJDK(c, t.jdk) <=> t.jdk \in A
    BY <1>1, <1>4, Zenon DEF supportsJDK
  <2>4. selectJDK(node[n], t.jdk) = {j \in A : j[2] = t.jdk[2]} \cap {t.jdk}
    BY <1>1, <2>1, <2>2, Zenon DEF selectJDK
  <2>5. selectJDK(node[n], t.jdk) # {} <=> t.jdk \in A
    BY <2>4, Zenon
  <2> QED BY <1>4, <2>3, <2>5, Zenon DEF c
<1> QED BY <1>2, <1>3, <1>4, Zenon

\* The invariant gives the property: with the fleet in sight, a well formed request
\* passes exactly when some ready node serves it, and a denial names its axis.
LEMMA AgreesHeld == SteerInv => WebhookAgrees
<1> SUFFICES ASSUME SteerInv, \A n \in Node : fleet[n] = NodeCapabilityFrom(node[n]), NEW t
             PROVE  LET why == CheckFleet(fleet, t)
                    IN  /\ requiredCapabilityLabels(t) # {} /\ NamesFeature(t) =>
                             (why = "" <=> \E n \in Node : node[n].ready /\ Honours(t, n) /\ Offers(n, t.launcher))
                        /\ why = "NoCompatibleJDK" => t.jdk # <<>>
                        /\ why = "NoCompatibleLauncher" => ~IsVanillaLauncher(t.launcher)
                        /\ why = "NoCompatibleArch" => t.arch # {}
  BY Zenon DEF WebhookAgrees
<1> DEFINE why == CheckFleet(fleet, t)
           explicit == t.jdk # <<>> \/ t.launcher \notin {"", "java"} \/ t.arch # {}
           Serves(n) == /\ supportsJDK(fleet[n], t.jdk) /\ supportsLauncher(fleet[n], t.launcher)
                        /\ supportsArch(fleet[n], t.arch)
<1>1. why = "" <=> ~explicit \/ \E n \in Node : fleet[n].ready /\ Serves(n)
  BY Zenon DEF CheckFleet
<1>2. requiredCapabilityLabels(t) # {} => explicit
  BY Zenon DEF requiredCapabilityLabels
<1>3. ASSUME NamesFeature(t), NEW n \in Node
      PROVE  fleet[n].ready /\ Serves(n) <=> node[n].ready /\ Honours(t, n) /\ Offers(n, t.launcher)
  <2>1. /\ fleet[n].ready = node[n].ready /\ fleet[n].arch = node[n].arch /\ fleet[n].launchers = node[n].annotated
        /\ fleet[n] = NodeCapabilityFrom(node[n]) /\ Truthful(node[n])
    <3>1. fleet[n] = NodeCapabilityFrom(node[n])
      BY Zenon
    <3>2. Truthful(node[n])
      BY Zenon DEF SteerInv
    <3> QED BY <3>1, <3>2 DEF NodeCapabilityFrom
  <2>2. node[n].ready => (supportsJDK(fleet[n], t.jdk) <=> (t.jdk # <<>> => selectJDK(node[n], t.jdk) # {}))
    BY <1>3, <2>1, JDKAgrees, Zenon
  <2>3. supportsArch(fleet[n], t.arch) <=> supportsArch(node[n], t.arch)
    BY <2>1, Zenon DEF supportsArch
  <2>4. supportsLauncher(fleet[n], t.launcher) <=> IsVanillaLauncher(t.launcher) \/ t.launcher \in node[n].annotated
    BY <2>1, Zenon DEF supportsLauncher, IsVanillaLauncher
  <2>5. node[n].ready /\ t.launcher \in node[n].annotated => t.launcher \in node[n].launchers
    BY <2>1, Zenon DEF Truthful
  <2> QED BY <2>1, <2>2, <2>3, <2>4, <2>5, Zenon DEF Honours, Offers, selectLauncher
<1>4. /\ why = "NoCompatibleJDK" => t.jdk # <<>>
      /\ why = "NoCompatibleLauncher" => ~IsVanillaLauncher(t.launcher)
      /\ why = "NoCompatibleArch" => t.arch # {}
  BY Zenon DEF CheckFleet, IsVanillaLauncher
<1> HIDE DEF why, explicit, Serves
<1> QED BY <1>1, <1>2, <1>3, <1>4, Zenon DEF why

\* For any nodes, pods and scenarios: CheckFleet, on a current view of the fleet,
\* denies a well formed request exactly when no ready node's shim would honour it.
THEOREM AgreementSound == Spec => []WebhookAgrees
<1>1. Init => SteerInv
  BY SteerInit, Zenon
<1>2. SteerInv /\ [Next]_vars => SteerInv'
  BY SteerNext, Zenon
<1>3. SteerInv => WebhookAgrees
  BY AgreesHeld, Zenon
<1> QED BY <1>1, <1>2, <1>3, PTL DEF Spec

----------------------------------------------------------------------------
(* The application and the objects it manages.                             *)

\* The options in a template's environment are for the JDK that it requests.
OptionsFit(t) ==
    \A v \in t.env : v[2] = "args" => v[1] = "JAVA_TOOL_OPTIONS" \/ parseJDKRequest(t.jdk)[2] # "8"

Objects == {"app", "dep", "svc", "hpa"}
IsApp(a) ==
    a.gen = 0 \/ /\ DOMAIN a = {"gen", "spec", "obs", "ready", "cond", "condGen"}
                 /\ a.gen \in Nat /\ AdmittedSpec(a.spec)
IsDep(d) ==
    /\ DOMAIN d = {"owner", "tmpl", "replicas", "rolled", "ready"}
    /\ d.replicas \in Nat /\ d.ready \in 0 .. Cardinality(Pod)
    /\ d.owner = "app" => OptionsFit(d.tmpl)
IsHPA(h) == h.min \in Nat /\ h.max \in Nat /\ 1 <= h.min /\ h.min <= h.max

IsStore(o) == DOMAIN o = Objects /\ IsApp(o.app) /\ IsDep(o.dep) /\ IsHPA(o.hpa)

\* The autoscaler and the Deployment are well formed, whichever spec they are
\* built from, for a reconciliation only gets past a valid one.
AppInv ==
    /\ IsStore(api) /\ IsStore(seen) /\ IsApp(cur)
    /\ \E S : edits \in Seq(S) /\ \A s \in S : s = Gone \/ AdmittedSpec(s)
    /\ pc \in {"idle", "dep", "svc", "hpa", "status"} /\ queued \in BOOLEAN
    /\ pc # "idle" => cur.gen # 0 /\ validateSpec(cur.spec)
    /\ \A t \in manual : OptionsFit(t)

\* A pod's options are for the JDK it requests, which is the one it runs on.
Fitted(q) ==
    /\ q.how \in {"steered", "open", "other"} /\ OptionsFit(q.tmpl) /\ (q.node # "" => q.node \in Node)
    /\ \A j \in q.jdk : j[2] = parseJDKRequest(q.tmpl.jdk)[2] /\ \A i \in q.jdk : i = j
FitInv == \A p \in Pod : pod[p] # NoPod => Fitted(pod[p])

StateInv ==
    /\ tracked = [n \in Node |-> tracked[n]]
    /\ \A n \in Node : node[n].state \in ProvisionState /\ tracked[n].state \in ProvisionState

\* Step by step: the variable is chosen by the version that the request names.
LEMMA TemplateFits == ASSUME NEW s, AdmittedSpec(s) PROVE OptionsFit(Template(s))
<1> DEFINE t == Template(s)
           name == jvmOptionsEnvName(s.version)
<1>1. t.env = buildEnv(s) /\ t.jdk = requestedJDK(s)
  BY Zenon DEF Template
<1>2. ASSUME NEW v \in t.env, v[2] = "args" PROVE v = <<name, "args">>
  BY <1>1, <1>2, Zenon DEF buildEnv, AdmittedSpec, OwnEnv
<1> HIDE DEF t
<1>3. s.version # "8" => parseJDKRequest(t.jdk)[2] # "8"
  <2>1. CASE s.version = ""
    <3>1. t.jdk = <<>>
      BY <1>1, <2>1, Zenon DEF requestedJDK
    <3> QED BY <3>1 DEF parseJDKRequest
  <2>2. CASE s.version # "" /\ s.dist = ""
    <3>1. t.jdk = <<s.version>>
      BY <1>1, <2>2, Zenon DEF requestedJDK
    <3> QED BY <3>1 DEF parseJDKRequest
  <2>3. CASE s.version # "" /\ s.dist # ""
    <3>1. t.jdk = <<s.dist, s.version>>
      BY <1>1, <2>3, Zenon DEF requestedJDK
    <3>2. Len(t.jdk) # 1 /\ t.jdk[2] = s.version
      BY <3>1
    <3>3. parseJDKRequest(t.jdk) = t.jdk \/ parseJDKRequest(t.jdk) = <<"", "21">>
      BY <3>2, Zenon DEF parseJDKRequest
    <3>4. <<"", "21">>[2] # "8"
      BY Zenon
    <3> QED BY <3>2, <3>3, <3>4, Zenon
  <2> QED BY <2>1, <2>2, <2>3, Zenon
<1>4. s.version = "8" => name = "JAVA_TOOL_OPTIONS"
  BY Zenon DEF jvmOptionsEnvName
<1>5. ASSUME NEW v, v = <<name, "args">> PROVE v[1] = name
  BY <1>5, Zenon
<1> HIDE DEF name
<1>6. OptionsFit(t)
  BY <1>2, <1>3, <1>4, <1>5, Zenon DEF OptionsFit
<1> QED BY <1>6, Zenon DEF t

\* A store in which one object is replaced.
LEMMA StorePut ==
    ASSUME NEW o, DOMAIN o = Objects, NEW k \in Objects, NEW v
    PROVE  /\ DOMAIN [o EXCEPT ![k] = v] = Objects /\ [o EXCEPT ![k] = v][k] = v
           /\ \A l \in Objects : l # k => [o EXCEPT ![k] = v][l] = o[l]
BY Zenon

\* What is built from a valid spec is well formed.
LEMMA BuiltFits ==
    ASSUME NEW s, AdmittedSpec(s), validateSpec(s), NEW o, IsDep(o)
    PROVE  IsDep(buildDeployment(s, o)) /\ IsHPA(buildHPA(s, o))
<1> DEFINE n == desiredReplicas(s)
           want == IF n = {} THEN o.replicas ELSE CHOOSE k \in n : TRUE
           min == IF s.auto.min = {} THEN 1 ELSE CHOOSE m \in s.auto.min : TRUE
<1>1. n \subseteq Nat
  BY DEF desiredReplicas, AdmittedSpec
<1>2. want \in Nat
  <2>1. n # {} => (CHOOSE k \in n : TRUE) \in n
    BY Zenon
  <2> QED BY <1>1, <2>1, Zenon DEF IsDep
<1>3. IsDep(buildDeployment(s, o))
  <2> DEFINE d == buildDeployment(s, o)
  <2>1. /\ DOMAIN d = DOMAIN o /\ d.owner = "app" /\ d.tmpl = Template(s) /\ d.replicas = want /\ d.ready = o.ready
    BY Zenon DEF buildDeployment, IsDep
  <2> HIDE DEF d, want
  <2>2. IsDep(d)
    BY <1>2, <2>1, TemplateFits, Zenon DEF IsDep
  <2> QED BY <2>2, Zenon DEF d
<1>4. s.auto.on => min \in Nat /\ 1 <= min /\ min <= s.auto.max /\ s.auto.max \in Nat
  <2>1. s.auto.min # {} => (CHOOSE m \in s.auto.min : TRUE) \in s.auto.min
    BY Zenon
  <2> QED BY <2>1 DEF validateSpec, AdmittedSpec
<1>5. IsHPA(buildHPA(s, o))
  <2>1. CASE ~s.auto.on
    BY <2>1 DEF buildHPA, NoHPA, IsHPA
  <2>2. CASE s.auto.on
    <3>1. buildHPA(s, o).min = min /\ buildHPA(s, o).max = s.auto.max
      BY <2>2, Zenon DEF buildHPA
    <3> HIDE DEF min
    <3> QED BY <2>2, <1>4, <3>1, Zenon DEF IsHPA
  <2> QED BY <2>1, <2>2, Zenon
<1> QED BY <1>3, <1>5, Zenon

----------------------------------------------------------------------------
(* What a step does to the objects in the API server.                      *)

\* A step leaves the application's part alone, or is one of the operations below.
LEMMA AppKinds ==
    ASSUME [Next]_vars
    PROVE  \/ UNCHANGED appVars /\ manual' \subseteq manual
           \/ /\ manual' = manual
              /\ \/ Begin \/ UpdateStatus \/ Restart \/ Edit \/ ReportRollout
                 \/ \E n \in 1 .. Cardinality(Pod) : Scale(n)
                 \/ \E k \in Objects : Deliver(k)
                 \/ \E k \in {"dep", "svc", "hpa"} : Apply(k) \/ Leave(k) \/ Collect(k)
<1>1. CASE UNCHANGED vars
  BY <1>1, Zenon DEF vars
<1>2. CASE Reconcile \/ HPA \/ ReportRollout \/ App(Restart) \/ App(Edit)
  BY <1>2, Zenon DEF Reconcile, HPA, ReportRollout, App
<1>3. CASE \E k \in {"app", "dep", "svc", "hpa"} : App(Deliver(k))
  BY <1>3, Zenon DEF App, Objects
<1>4. CASE \E k \in {"dep", "svc", "hpa"} : App(Leave(k)) \/ App(Collect(k))
  BY <1>4, Zenon DEF App
<1>5. CASE \E p \in Pod : Replicate(p) \/ Retire(p) \/ Schedule(p) \/ Cluster(Start(p))
  BY <1>5, Zenon DEF Replicate, Retire, Schedule, Cluster
<1>6. CASE \E p \in Pod, t \in manual : CreateByHand(p, t)
  BY <1>6, Zenon DEF CreateByHand
<1>7. CASE \E n \in Node : \/ Cluster(SyncFleet(n)) \/ Cluster(Withdraw(n)) \/ Cluster(Publish(n))
                          \/ Cluster(NodeEvent(n)) \/ Cluster(NodeReconcile(n))
  BY <1>7, Zenon DEF Cluster
<1> QED BY <1>1, <1>2, <1>3, <1>4, <1>5, <1>6, <1>7, Zenon DEF Next

\* The controller writes the application, an object that it may, or removes one;
\* a holder or the garbage collector frees a name; the cluster scales and counts.
Bare(k) == CASE k = "dep" -> NoDep [] k = "svc" -> NoSvc [] OTHER -> NoHPA
AppWritten == \E a : IsApp(a) /\ api' = [api EXCEPT !["app"] = a]
Wrote(k) ==
    /\ pc = k /\ api[k].owner # "other"
    /\ api' = [api EXCEPT ![k] = Desired(k, cur.spec, api[k])]
Deleted(k) == pc = k /\ Desired(k, cur.spec, seen[k]).owner = "absent" /\ api' = Removed(k)
Freed(k) == pc' = pc /\ api' = [api EXCEPT ![k] = Bare(k)]
Resized(n) ==
    /\ pc' = pc /\ api.dep.owner = "app"
    /\ api' = [api EXCEPT !["dep"] = [api.dep EXCEPT !.replicas = n, !.rolled = FALSE]]
Counted(n) ==
    /\ pc' = pc /\ api.dep.owner = "app"
    /\ api' = [api EXCEPT !["dep"] = [api.dep EXCEPT !.rolled = TRUE, !.ready = n]]

\* The status write of a failed reconciliation.
LEMMA FailWrites ==
    ASSUME AppInv, NEW a, a.gen # 0, Fail(a)
    PROVE  api' = api \/ AppWritten
<1>1. CASE api.app # a
  BY <1>1, Zenon DEF Fail
<1>2. CASE api.app = a
  <2> DEFINE b == [a EXCEPT !.cond = "Error", !.condGen = a.gen]
  <2>1. api' = [api EXCEPT !["app"] = b]
    BY <1>2, Zenon DEF Fail
  <2>2. IsApp(a) /\ DOMAIN a = {"gen", "spec", "obs", "ready", "cond", "condGen"}
    BY <1>2, Zenon DEF AppInv, IsStore, IsApp
  <2>3. DOMAIN b = DOMAIN a /\ b.gen = a.gen /\ b.spec = a.spec
    BY <2>2, Zenon
  <2>4. IsApp(b)
    BY <2>2, <2>3, Zenon DEF IsApp
  <2> QED BY <2>1, <2>4, Zenon DEF AppWritten
<1> QED BY <1>1, <1>2, Zenon

\* The pods that are up are pods.
LEMMA UpBound == Up \in 0 .. Cardinality(Pod) /\ Cardinality(Pod) \in Nat
<1> DEFINE S == {p \in Deployed : Running(p)}
<1>1. S \subseteq Pod
  BY Zenon DEF Deployed, Alive
<1>2. Cardinality(S) <= Cardinality(Pod) /\ IsFiniteSet(S)
  <2> HIDE DEF S
  <2> QED BY <1>1, PodAssumption, FS_Subset, Zenon
<1>3. Cardinality(S) \in Nat /\ Cardinality(Pod) \in Nat
  <2> HIDE DEF S
  <2> QED BY <1>2, PodAssumption, FS_CardinalityType, Zenon
<1> QED BY <1>2, <1>3 DEF Up

\* A reconciliation's write of one object.
LEMMA ApplyWrites ==
    ASSUME AppInv, NEW k \in {"dep", "svc", "hpa"}, Apply(k)
    PROVE  api' = api \/ AppWritten \/ Wrote(k) \/ Deleted(k)
<1> DEFINE o == seen[k]
           new == Desired(k, cur.spec, o)
<1>1. pc = k /\ cur.gen # 0
  BY Zenon DEF Apply, AppInv
<1>2. \/ new.owner = "absent" /\ api' = Removed(k)
      \/ /\ ~Refused(o)
         /\ api' = api \/ (api[k] = o /\ api' = [api EXCEPT ![k] = new])
      \/ Fail(cur)
  BY Zenon DEF Apply
<1>3. CASE new.owner = "absent" /\ api' = Removed(k)
  BY <1>1, <1>3, Zenon DEF Deleted
<1>4. CASE ~Refused(o) /\ api[k] = o /\ api' = [api EXCEPT ![k] = new]
  <2> HIDE DEF o
  <2> QED BY <1>1, <1>4, Zenon DEF Wrote, Refused
<1>5. CASE Fail(cur)
  BY <1>1, <1>5, FailWrites, Zenon
<1> QED BY <1>2, <1>3, <1>4, <1>5, Zenon

\* The status and the edits are of an application.
LEMMA StatusWrites ==
    ASSUME AppInv, UpdateStatus \/ Edit
    PROVE  api' = api \/ AppWritten
<1>1. CASE UpdateStatus
  <2> DEFINE d == seen.dep
             new == [cur EXCEPT !.obs = cur.gen, !.ready = d.ready, !.condGen = cur.gen,
                                !.cond = IF deploymentReady(d) THEN "True" ELSE "Progressing"]
  <2>1. cur.gen # 0 /\ IsApp(cur) /\ DOMAIN cur = {"gen", "spec", "obs", "ready", "cond", "condGen"}
    BY <1>1, Zenon DEF UpdateStatus, AppInv, IsApp
  <2>2. DOMAIN new = DOMAIN cur /\ new.gen = cur.gen /\ new.spec = cur.spec
    BY <2>1, Zenon
  <2>3. api' = api \/ api' = [api EXCEPT !["app"] = new]
    BY <1>1, Zenon DEF UpdateStatus
  <2> HIDE DEF new
  <2>4. IsApp(new)
    BY <2>1, <2>2, Zenon DEF IsApp
  <2> QED BY <2>3, <2>4, Zenon DEF AppWritten
<1>2. CASE Edit
  <2> DEFINE a == api.app
             new == [a EXCEPT !.gen = a.gen + 1, !.spec = Head(edits)]
             put == IF Head(edits) = Gone THEN NoApp ELSE new
  <2>1. IsApp(a) /\ a.gen # 0 /\ DOMAIN a = {"gen", "spec", "obs", "ready", "cond", "condGen"} /\ a.gen \in Nat
    BY <1>2, Zenon DEF Edit, AppInv, IsStore, IsApp
  <2>2. DOMAIN new = DOMAIN a /\ new.gen = a.gen + 1 /\ new.spec = Head(edits)
    BY <2>1, Zenon
  <2>3. PICK S : edits \in Seq(S) /\ \A s \in S : s = Gone \/ AdmittedSpec(s)
    BY Zenon DEF AppInv
  <2>4. Head(edits) = Gone \/ AdmittedSpec(Head(edits))
    BY <1>2, <2>3, HeadTail, Zenon DEF Edit
  <2>5. api' = [api EXCEPT !["app"] = put]
    BY <1>2, Zenon DEF Edit
  <2> HIDE DEF new, a
  <2>6. Head(edits) # Gone => IsApp(new)
    BY <2>1, <2>2, <2>4 DEF IsApp
  <2>7. IsApp(NoApp)
    BY Zenon DEF IsApp, NoApp
  <2>8. IsApp(put)
    BY <2>6, <2>7, Zenon
  <2> HIDE DEF put
  <2> QED BY <2>5, <2>8, Zenon DEF AppWritten
<1> QED BY <1>1, <1>2, Zenon

\* Every change of the objects is one of those.
LEMMA Effects ==
    ASSUME AppInv, [Next]_vars
    PROVE  \/ api' = api \/ AppWritten
           \/ \E k \in {"dep", "svc", "hpa"} : Wrote(k) \/ Deleted(k) \/ Freed(k)
           \/ \E n \in Nat : Resized(n)
           \/ \E n \in 0 .. Cardinality(Pod) : Counted(n)
<1>1. CASE UNCHANGED appVars
  BY <1>1, Zenon DEF appVars
<1>2. CASE Begin
  BY <1>2, FailWrites, Zenon DEF Begin
<1>3. CASE UpdateStatus \/ Edit
  BY <1>3, StatusWrites, Zenon
<1>4. CASE Restart \/ \E k \in Objects : Deliver(k)
  BY <1>4, Zenon DEF Restart, Deliver
<1>5. CASE ReportRollout
  <2>1. Counted(Up)
    BY <1>5, Zenon DEF ReportRollout, Counted
  <2> QED BY <2>1, UpBound, Zenon
<1>6. CASE \E n \in 1 .. Cardinality(Pod) : Scale(n)
  <2>1. PICK n \in 1 .. Cardinality(Pod) : Scale(n)
    BY <1>6, Zenon
  <2>2. Resized(n)
    BY <2>1, Zenon DEF Scale, Resized
  <2> QED BY <2>1, <2>2, UpBound
<1>7. CASE \E k \in {"dep", "svc", "hpa"} : Apply(k)
  BY <1>7, ApplyWrites, Zenon
<1>8. CASE \E k \in {"dep", "svc", "hpa"} : Leave(k) \/ Collect(k)
  BY <1>8, Zenon DEF Leave, Collect, Freed, Bare
<1> QED BY <1>1, <1>2, <1>3, <1>4, <1>5, <1>6, <1>7, <1>8, AppKinds, Zenon

\* The objects stay well formed.
LEMMA StoreStep ==
    ASSUME AppInv, [Next]_vars
    PROVE  IsStore(api')
<1>1. IsStore(api) /\ DOMAIN api = Objects /\ IsApp(api.app) /\ IsDep(api.dep) /\ IsHPA(api.hpa)
  BY Zenon DEF AppInv, IsStore
<1>2. ASSUME NEW k \in Objects, NEW v, api' = [api EXCEPT ![k] = v],
             k = "app" => IsApp(v), k = "dep" => IsDep(v), k = "hpa" => IsHPA(v)
      PROVE  IsStore(api')
  <2>1. DOMAIN api' = Objects /\ api'[k] = v /\ \A l \in Objects : l # k => api'[l] = api[l]
    BY <1>1, <1>2, StorePut, Zenon
  <2> QED BY <1>1, <1>2, <2>1, Zenon DEF IsStore, Objects
<1>3. CASE AppWritten
  BY <1>2, <1>3, Zenon DEF AppWritten, Objects
<1>4. ASSUME NEW k \in {"dep", "svc", "hpa"}, Wrote(k) PROVE IsStore(api')
  <2> DEFINE v == Desired(k, cur.spec, api[k])
  <2>1. AdmittedSpec(cur.spec) /\ validateSpec(cur.spec)
    BY <1>4, Zenon DEF Wrote, AppInv, IsApp
  <2>2. k = "dep" => v = buildDeployment(cur.spec, api.dep)
    BY Zenon DEF Desired
  <2>3. k = "hpa" => v = buildHPA(cur.spec, api.hpa)
    BY Zenon DEF Desired
  <2>4. IsDep(buildDeployment(cur.spec, api.dep)) /\ \A o : IsHPA(buildHPA(cur.spec, o))
    BY <1>1, <2>1, BuiltFits, Zenon DEF buildHPA
  <2>5. api' = [api EXCEPT ![k] = v]
    BY <1>4, Zenon DEF Wrote
  <2> HIDE DEF v
  <2> QED BY <1>2, <2>2, <2>3, <2>4, <2>5, Zenon DEF Objects
<1>5. IsDep(NoDep) /\ IsHPA(NoHPA)
  BY UpBound DEF IsDep, IsHPA, NoDep, NoHPA
<1>6. ASSUME NEW k \in {"dep", "svc", "hpa"}, Deleted(k) PROVE IsStore(api')
  <2>1. k # "dep"
    <3>1. DOMAIN seen.dep = {"owner", "tmpl", "replicas", "rolled", "ready"}
      BY Zenon DEF AppInv, IsStore, IsDep
    <3>2. buildDeployment(cur.spec, seen.dep).owner = "app"
      BY <3>1, Zenon DEF buildDeployment
    <3>3. Desired("dep", cur.spec, seen["dep"]) = buildDeployment(cur.spec, seen.dep)
      BY Zenon DEF Desired
    <3> QED BY <1>6, <3>2, <3>3, Zenon DEF Deleted
  <2>2. api' = [api EXCEPT ![k] = IF k = "svc" THEN NoSvc ELSE NoHPA]
    BY <1>6, Zenon DEF Deleted, Removed
  <2> QED BY <1>2, <1>5, <2>1, <2>2, Zenon DEF Objects
<1>7. ASSUME NEW k \in {"dep", "svc", "hpa"}, Freed(k) PROVE IsStore(api')
  <2>1. (k = "dep" => Bare(k) = NoDep) /\ (k = "hpa" => Bare(k) = NoHPA)
    BY Zenon DEF Bare
  <2>2. api' = [api EXCEPT ![k] = Bare(k)]
    BY <1>7, Zenon DEF Freed
  <2> QED BY <1>2, <1>5, <2>1, <2>2, Zenon DEF Objects
<1>8. ASSUME NEW n, (n \in Nat /\ Resized(n)) \/ (n \in 0 .. Cardinality(Pod) /\ Counted(n)) PROVE IsStore(api')
  <2>1. PICK d : /\ api' = [api EXCEPT !["dep"] = d] /\ api.dep.owner = "app"
                 /\ \/ n \in Nat /\ d = [api.dep EXCEPT !.replicas = n, !.rolled = FALSE]
                    \/ n \in 0 .. Cardinality(Pod) /\ d = [api.dep EXCEPT !.rolled = TRUE, !.ready = n]
    BY <1>8, Zenon DEF Resized, Counted
  <2>2. IsDep(d)
    BY <1>1, <2>1, Zenon DEF IsDep
  <2> QED BY <1>2, <2>1, <2>2, Zenon DEF Objects
<1> QED BY <1>1, <1>3, <1>4, <1>6, <1>7, <1>8, Effects, Zenon

\* The invariant of the application holds at the start and is kept.
LEMMA AppStarts == Init => AppInv
<1> SUFFICES ASSUME NEW sc \in Scenarios, AppInit(sc), manual = sc.manual PROVE AppInv
  BY Zenon DEF Init
<1>1. /\ sc.edits \in Seq(Range(sc.edits)) /\ (sc.edits # <<>> => Head(sc.edits) # Gone)
      /\ \A s \in Range(sc.edits) : s = Gone \/ AdmittedSpec(s)
      /\ \A k \in {"dep", "svc", "hpa"} : sc.held[k] \in {"absent", "other", "nobody"}
      /\ \A t \in sc.manual : OwnEnv(t.env)
  BY ScenariosAssumption, Zenon
<1>2. /\ edits \in Seq(Range(sc.edits))
      /\ sc.edits # <<>> => AdmittedSpec(Head(sc.edits))
  <2>1. CASE sc.edits = <<>>
    BY <1>1, <2>1, Zenon DEF AppInit
  <2>2. CASE sc.edits # <<>>
    <3>1. Head(sc.edits) \in Range(sc.edits) /\ Tail(sc.edits) \in Seq(Range(sc.edits))
      BY <1>1, <2>2, HeadTail, Zenon
    <3> QED BY <1>1, <2>2, <3>1, Zenon DEF AppInit
  <2> QED BY <2>1, <2>2, Zenon
<1>3. IsDep([NoDep EXCEPT !.owner = sc.held.dep])
  BY <1>1, UpBound DEF NoDep, IsDep
<1>4. IsHPA([NoHPA EXCEPT !.owner = sc.held.hpa])
  BY DEF NoHPA, IsHPA
<1>5. IsApp(NoApp)
  BY Zenon DEF IsApp, NoApp
<1>6. IsStore(api)
  <2> DEFINE a == IF sc.edits = <<>> THEN NoApp
                  ELSE [gen |-> 1, spec |-> Head(sc.edits), obs |-> 0, ready |-> 0, cond |-> "", condGen |-> 0]
             d == [NoDep EXCEPT !.owner = sc.held.dep]
             s == [NoSvc EXCEPT !.owner = sc.held.svc]
             h == [NoHPA EXCEPT !.owner = sc.held.hpa]
  <2>1. api = [app |-> a, dep |-> d, svc |-> s, hpa |-> h]
    BY Zenon DEF AppInit
  <2>2. IsApp(a)
    BY <1>2, <1>5, Zenon DEF IsApp
  <2> HIDE DEF a, d, s, h
  <2>3. DOMAIN api = Objects /\ api.app = a /\ api.dep = d /\ api.hpa = h
    BY <2>1, Zenon DEF Objects
  <2> QED BY <1>3, <1>4, <2>2, <2>3, Zenon DEF IsStore, d, h
<1>7. IsStore(seen)
  <2>1. seen = [api EXCEPT !["app"] = NoApp]
    BY Zenon DEF AppInit
  <2> QED BY <1>5, <1>6, <2>1, Zenon DEF IsStore, Objects
<1>8. pc = "idle" /\ queued = FALSE /\ cur = NoApp
  BY Zenon DEF AppInit
<1>9. \A t \in manual : OptionsFit(t)
  BY <1>1, Zenon DEF OptionsFit, OwnEnv
<1> QED BY <1>1, <1>2, <1>5, <1>6, <1>7, <1>8, <1>9, Zenon DEF AppInv

LEMMA AppNext == AppInv /\ [Next]_vars => AppInv'
<1> SUFFICES ASSUME AppInv, [Next]_vars PROVE AppInv'
  BY Zenon
<1>1. IsStore(api)'
  <2>1. IsStore(api')
    BY StoreStep, Zenon
  <2> QED BY <2>1, Zenon DEF IsStore, IsApp, IsDep, IsHPA
<1>2. IsStore(seen)'
  <2>1. seen' = seen \/ seen' = api \/ \E k \in Objects : seen' = [seen EXCEPT ![k] = api[k]]
    BY AppKinds, Zenon DEF appVars, Begin, UpdateStatus, Restart, Edit, ReportRollout, Scale, Deliver, Apply, Leave, Collect
  <2>2. IsStore(seen')
    BY <2>1, Zenon DEF AppInv, IsStore, Objects
  <2> QED BY <2>2, Zenon DEF IsStore, IsApp, IsDep, IsHPA
<1>3. IsApp(cur)'
  <2>1. cur' = cur \/ cur' = seen.app
    BY AppKinds, Zenon DEF appVars, Begin, UpdateStatus, Restart, Edit, ReportRollout, Scale, Deliver, Apply, Leave, Collect
  <2>2. IsApp(cur')
    BY <2>1, Zenon DEF AppInv, IsStore
  <2> QED BY <2>2, Zenon DEF IsApp
<1>4. (\E S : edits \in Seq(S) /\ \A s \in S : s = Gone \/ AdmittedSpec(s))'
  <2>1. PICK S : edits \in Seq(S) /\ \A s \in S : s = Gone \/ AdmittedSpec(s)
    BY Zenon DEF AppInv
  <2>2. edits' = edits \/ (edits # <<>> /\ edits' = Tail(edits))
    BY AppKinds, Zenon DEF appVars, Begin, UpdateStatus, Restart, Edit, ReportRollout, Scale, Deliver, Apply, Leave, Collect
  <2>3. edits' \in Seq(S)
    BY <2>1, <2>2, HeadTail, Zenon
  <2> QED BY <2>1, <2>3, Zenon
<1>5. /\ pc' \in {"idle", "dep", "svc", "hpa", "status"}
      /\ pc' # "idle" => cur'.gen # 0 /\ validateSpec(cur'.spec)
  <2>1. \/ pc' = "idle" \/ (pc' = pc /\ cur' = cur)
        \/ pc' = "dep" /\ cur' = seen.app /\ seen.app.gen # 0 /\ validateSpec(seen.app.spec)
        \/ \E k \in {"dep", "svc", "hpa"} : pc = k /\ pc' = After(k) /\ cur' = cur
    BY AppKinds, Zenon DEF appVars, Begin, UpdateStatus, Restart, Edit, ReportRollout, Scale, Deliver, Apply, Leave, Collect, Fail
  <2>2. \A k \in {"dep", "svc", "hpa"} : After(k) \in {"svc", "hpa", "status"}
    BY Zenon DEF After
  <2> QED BY <2>1, <2>2, Zenon DEF AppInv
<1>6. queued' \in BOOLEAN
  <2>1. queued' \in {queued, TRUE, FALSE} \/ \E k \in Objects : queued' = (queued \/ Enqueues(k))
    BY AppKinds, Zenon DEF appVars, Begin, UpdateStatus, Restart, Edit, ReportRollout, Scale, Deliver, Apply, Leave, Collect, Fail
  <2> QED BY <2>1, Zenon DEF AppInv
<1>7. (\A t \in manual : OptionsFit(t))'
  <2>1. manual' \subseteq manual
    BY AppKinds, Zenon
  <2> QED BY <2>1, Zenon DEF AppInv, OptionsFit
<1> QED BY <1>1, <1>2, <1>3, <1>4, <1>5, <1>6, <1>7, Zenon DEF AppInv

----------------------------------------------------------------------------
(* Scaling, and the objects of others.                                     *)

\* A reconciliation of an autoscaling application writes the count it has read,
\* and the API server takes the write only if that count is still the live one.
LEMMA ScalingStep ==
    ASSUME AppInv, [Next]_vars, api.dep.owner = "app", api'.dep.owner = "app", cur.spec.auto.on,
           api.dep.replicas # api'.dep.replicas
    PROVE  pc' = pc
<1>1. DOMAIN api = Objects /\ DOMAIN api.dep = {"owner", "tmpl", "replicas", "rolled", "ready"}
  BY Zenon DEF AppInv, IsStore, IsDep
<1>2. ASSUME NEW k \in Objects, NEW v, api' = [api EXCEPT ![k] = v]
      PROVE  k = "dep" /\ api'.dep = v
  BY <1>1, <1>2, StorePut, Zenon DEF Objects
<1>3. ~AppWritten
  BY <1>2, Zenon DEF AppWritten, Objects
<1>4. ASSUME NEW k \in {"dep", "svc", "hpa"}, Wrote(k) PROVE FALSE
  <2>1. k = "dep" /\ api'.dep = Desired(k, cur.spec, api[k])
    BY <1>2, <1>4, Zenon DEF Wrote, Objects
  <2>2. api'.dep = buildDeployment(cur.spec, api.dep)
    BY <2>1, Zenon DEF Desired
  <2>3. buildDeployment(cur.spec, api.dep).replicas = api.dep.replicas
    BY <1>1, Zenon DEF buildDeployment, desiredReplicas
  <2> QED BY <2>2, <2>3, Zenon
<1>5. ASSUME NEW k \in {"dep", "svc", "hpa"}, Deleted(k) PROVE FALSE
  <2>1. k = "dep" /\ api'.dep = IF k = "svc" THEN NoSvc ELSE NoHPA
    BY <1>2, <1>5, Zenon DEF Deleted, Removed, Objects
  <2> QED BY <2>1 DEF NoHPA
<1>6. (\E k \in {"dep", "svc", "hpa"} : Freed(k)) \/ (\E n \in Nat : Resized(n)) => pc' = pc
  BY Zenon DEF Freed, Resized
<1>7. (\E n \in 0 .. Cardinality(Pod) : Counted(n)) => pc' = pc
  BY Zenon DEF Counted
<1>8. api' # api
  BY Zenon
<1> QED BY <1>3, <1>4, <1>5, <1>6, <1>7, <1>8, Effects, Zenon

\* An object under another controller changes by its removal only.
LEMMA ForeignStep ==
    ASSUME AppInv, [Next]_vars, NEW k \in {"dep", "svc", "hpa"}, api[k].owner = "other", api'[k] # api[k]
    PROVE  /\ api'[k].owner = "absent"
           /\ pc = k /\ pc' # k => Desired(k, cur.spec, seen[k]).owner = "absent"
<1>1. DOMAIN api = Objects
  BY Zenon DEF AppInv, IsStore
<1>2. ASSUME NEW l \in Objects, NEW v, api' = [api EXCEPT ![l] = v]
      PROVE  k = l /\ api'[k] = v
  BY <1>1, <1>2, StorePut, Zenon DEF Objects
<1>3. ~AppWritten
  BY <1>2, Zenon DEF AppWritten, Objects
<1>4. ASSUME NEW l \in {"dep", "svc", "hpa"}, Wrote(l) PROVE FALSE
  BY <1>2, <1>4, Zenon DEF Wrote, Objects
<1>5. ASSUME NEW l \in {"dep", "svc", "hpa"}, Deleted(l)
      PROVE  api'[k].owner = "absent" /\ Desired(k, cur.spec, seen[k]).owner = "absent"
  <2>1. k = l /\ api'[k] = IF l = "svc" THEN NoSvc ELSE NoHPA
    BY <1>2, <1>5, Zenon DEF Deleted, Removed, Objects
  <2>2. api'[k].owner = "absent"
    <3>1. NoSvc.owner = "absent" /\ NoHPA.owner = "absent"
      BY Zenon DEF NoSvc, NoHPA
    <3> QED BY <2>1, <3>1, Zenon
  <2>3. Desired(l, cur.spec, seen[l]).owner = "absent"
    BY <1>5, Zenon DEF Deleted
  <2> QED BY <2>1, <2>2, <2>3, Zenon
<1>6. ASSUME NEW l \in {"dep", "svc", "hpa"}, Freed(l) PROVE api'[k].owner = "absent" /\ pc' = pc
  <2>1. k = l /\ api'[k] = Bare(l) /\ pc' = pc
    BY <1>2, <1>6, Zenon DEF Freed, Objects
  <2>2. Bare(l).owner = "absent"
    BY Zenon DEF Bare, NoDep, NoSvc, NoHPA
  <2> QED BY <2>1, <2>2, Zenon
<1>7. ASSUME NEW n, Resized(n) \/ Counted(n) PROVE FALSE
  <2>1. k = "dep" /\ api.dep.owner = "app"
    BY <1>2, <1>7, Zenon DEF Resized, Counted, Objects
  <2> QED BY <2>1, Zenon
<1> QED BY <1>3, <1>4, <1>5, <1>6, <1>7, Effects, Zenon

LEMMA AppKept == Spec => []AppInv
<1>1. Init => AppInv
  BY AppStarts, Zenon
<1>2. AppInv /\ [Next]_vars => AppInv'
  BY AppNext, Zenon
<1> QED BY <1>1, <1>2, PTL DEF Spec

\* For any scenarios: while the application autoscales, no step of a
\* reconciliation changes the number of replicas, whatever was read when.
THEOREM ScalingSafe == Spec => ScalingKept
<1>1. AppInv /\ [Next]_vars =>
        [api.dep.owner = "app" /\ api'.dep.owner = "app" /\ cur.gen = api.app.gen /\ cur.gen # 0
           /\ cur.spec.auto.on /\ api.dep.replicas # api'.dep.replicas => pc' = pc]_vars
  BY ScalingStep, Zenon
<1> QED BY <1>1, AppKept, PTL DEF Spec, ScalingKept

\* For any scenarios: the controller never takes over or changes an object of
\* another controller, and removes one only where the spec wants none.
THEOREM ForeignSafe == Spec => ForeignKept
<1>1. AppInv /\ [Next]_vars =>
        [\A k \in {"dep", "svc", "hpa"} :
           api[k].owner = "other" /\ api'[k] # api[k] =>
               /\ api'[k].owner = "absent"
               /\ pc = k /\ pc' # k => Desired(k, cur.spec, seen[k]).owner = "absent"]_vars
  BY ForeignStep, Zenon
<1> QED BY <1>1, AppKept, PTL DEF Spec, ForeignKept

\* javaapplication_controller.go:91 says of a Service that the spec does not want that
\* "any previously managed one" is removed, :146 that deleteIfExists "deletes a managed
\* object", and docs/deploying-workloads.md:235 that "the managed HPA is deleted". For
\* an object of another controller, too, the one step that the reconciliation has,
\* unless a call fails, deletes it: deleteIfExists looks at the name alone.
THEOREM ForeignDeleted ==
    ASSUME NEW k \in {"svc", "hpa"}, pc = k, api[k].owner = "other",
           Desired(k, cur.spec, seen[k]).owner = "absent"
    PROVE  Apply(k) /\ pc' # "idle"
             <=> /\ api' = [api EXCEPT ![k] = IF k = "svc" THEN NoSvc ELSE NoHPA]
                 /\ pc' = After(k) /\ UNCHANGED <<seen, queued, cur, edits, faults, loads>>
<1>1. After(k) # "idle"
  BY DEF After
<1>2. Removed(k) = [api EXCEPT ![k] = IF k = "svc" THEN NoSvc ELSE NoHPA]
  BY Zenon DEF Removed
<1>3. Fail(cur) => pc' = "idle"
  BY Zenon DEF Fail
<1>4. Apply(k) /\ pc' # "idle" =>
        api' = Removed(k) /\ pc' = After(k) /\ UNCHANGED <<seen, queued, cur, edits, faults, loads>>
  BY <1>3, Zenon DEF Apply
<1>5. api' = Removed(k) /\ pc' = After(k) /\ UNCHANGED <<seen, queued, cur, edits, faults, loads>> => Apply(k)
  BY Zenon DEF Apply
<1> QED BY <1>1, <1>2, <1>4, <1>5, Zenon

----------------------------------------------------------------------------
(* The pods' options and JDKs.                                             *)

\* The shim finds one JDK, or none, and of the version that the request names.
LEMMA SelectFits ==
    ASSUME NEW n \in Node, Truthful(node[n]), NEW r, NEW j \in selectJDK(node[n], r)
    PROVE  j[2] = parseJDKRequest(r)[2] /\ \A i \in selectJDK(node[n], r) : i = j
<1> DEFINE want == parseJDKRequest(r)
           fits == {k \in Usable(node[n]) : k[2] = want[2]}
           first == {k \in fits : \A l \in fits : DistRank[k[1]] <= DistRank[l[1]]}
<1>1. fits \subseteq Dist \X Feature
  BY Zenon DEF Truthful, Usable
<1> HIDE DEF want
<1>2. selectJDK(node[n], r) = IF want[1] # "" THEN fits \cap {want} ELSE first
  BY Zenon DEF selectJDK, Truthful, want
<1>3. ASSUME NEW i \in first, NEW k \in first PROVE i = k
  <2>1. i \in fits /\ k \in fits /\ DistRank[i[1]] <= DistRank[k[1]] /\ DistRank[k[1]] <= DistRank[i[1]]
    BY <1>3, Zenon
  <2>2. i[2] = want[2] /\ k[2] = want[2]
    BY <2>1, Zenon
  <2> HIDE DEF fits
  <2>3. i[1] \in Dist /\ k[1] \in Dist /\ DistRank[i[1]] \in Nat /\ DistRank[k[1]] \in Nat
    BY <1>1, <2>1, DistAssumption, Zenon
  <2>4. DistRank[i[1]] = DistRank[k[1]]
    BY <2>1, <2>3
  <2>5. i[1] = k[1] /\ i[2] = k[2] /\ i \in Dist \X Feature /\ k \in Dist \X Feature
    BY <1>1, <2>1, <2>4, <2>2, DistAssumption, Zenon
  <2> QED BY <2>5
<1>4. j \in fits
  BY <1>2, Zenon
<1>5. \A i \in selectJDK(node[n], r) : i = j
  <2> HIDE DEF fits, first
  <2>1. CASE want[1] # ""
    <3>1. selectJDK(node[n], r) = fits \cap {want}
      BY <1>2, <2>1, Zenon
    <3> QED BY <3>1, Zenon
  <2>2. CASE want[1] = ""
    BY <1>2, <1>3, <2>2, Zenon
  <2> QED BY <2>1, <2>2, Zenon
<1> QED BY <1>4, <1>5, Zenon DEF want

\* A step of the pods keeps their options and their JDKs fitting.
LEMMA FitStep ==
    ASSUME SteerInv, FitInv, \A t \in Offered : OptionsFit(t), [Next]_vars
    PROVE  FitInv'
<1>1. \A p \in Pod : pod[p] # NoPod => Fitted(pod[p]) /\ IsPod(pod[p])
  BY Zenon DEF FitInv, SteerInv, Steered
<1>2. ASSUME NEW p \in Pod, NEW q, pod' = [pod EXCEPT ![p] = q], q = NoPod \/ Fitted(q)
      PROVE  FitInv'
  <2>1. \A r \in Pod : pod'[r] = IF r = p THEN q ELSE pod[r]
    BY <1>2, Zenon DEF SteerInv
  <2>2. \A r \in Pod : pod'[r] # NoPod => Fitted(pod'[r])
    BY <1>1, <1>2, <2>1, Zenon
  <2> QED BY <2>2, Zenon DEF FitInv, Fitted, OptionsFit
<1>3. CASE UNCHANGED pod
  BY <1>3, Zenon DEF FitInv, Fitted, OptionsFit
<1>4. ASSUME NEW p \in Pod, NEW t \in Offered, Handle(p, t) PROVE FitInv'
  <2>1. ASSUME NEW how \in {"steered", "open", "other"}, NEW ref, NEW digest, NEW terms
        PROVE  Fitted(Stored(t, how, ref, digest, terms))
    BY <1>4, Zenon DEF Stored, Fitted
  <2>2. /\ \A how \in {"steered", "open", "other"} : Fitted(Untouched(t, how))
        /\ Fitted(MutatePod(t))
    BY <2>1, Zenon DEF Untouched, MutatePod
  <2>3. PICK q : pod' = [pod EXCEPT ![p] = q] /\ Fitted(q)
    BY <1>4, <2>2, Zenon DEF Handle
  <2> QED BY <1>2, <2>3, Zenon
<1>5. ASSUME NEW p \in Pod, Start(p) PROVE FitInv'
  <2> DEFINE m == pod[p].node
             v == selectJDK(node[m], pod[p].tmpl.jdk)
             q == [pod[p] EXCEPT !.jdk = v]
  <2>1. pod' = [pod EXCEPT ![p] = q] /\ pod[p] # NoPod
    BY <1>5, Zenon DEF Start, Bound, SteerInv
  <2>2. m \in Node /\ Truthful(node[m])
    BY <1>1, <1>5, <2>1, Zenon DEF Start, Bound, Fitted, SteerInv
  <2>3. \A j \in v : j[2] = parseJDKRequest(pod[p].tmpl.jdk)[2] /\ \A i \in v : i = j
    BY <2>2, SelectFits, Zenon
  <2> HIDE DEF v
  <2>4. q.how = pod[p].how /\ q.tmpl = pod[p].tmpl /\ q.node = pod[p].node /\ q.jdk = v
    BY <1>1, <2>1, PodUpdates
  <2> HIDE DEF q
  <2>5. Fitted(q)
    BY <1>1, <2>1, <2>3, <2>4, Zenon DEF Fitted
  <2> QED BY <1>2, <2>1, <2>5, Zenon
<1>6. ASSUME NEW p \in Pod, NEW n \in Node, Bind(p, n) PROVE FitInv'
  <2> DEFINE q == [pod[p] EXCEPT !.node = n]
  <2>1. pod' = [pod EXCEPT ![p] = q] /\ pod[p] # NoPod
    BY <1>6, Zenon DEF Bind, SteerInv
  <2>2. q.how = pod[p].how /\ q.tmpl = pod[p].tmpl /\ q.node = n /\ q.jdk = pod[p].jdk
    BY <1>1, <2>1, PodUpdates
  <2> HIDE DEF q
  <2>3. Fitted(q)
    BY <1>1, <2>1, <2>2 DEF Fitted
  <2> QED BY <1>2, <2>1, <2>3, Zenon
<1>7. ASSUME NEW n \in Node, Withdraw(n) PROVE FitInv'
  <2>1. ASSUME NEW p \in Pod, pod'[p] # NoPod PROVE Fitted(pod'[p])
    <3> DEFINE q == [pod[p] EXCEPT !.moved = TRUE]
    <3>1. pod'[p] = pod[p] \/ (pod[p] # NoPod /\ pod'[p] = q)
      BY <1>7, Zenon DEF Withdraw, Bound
    <3>2. pod[p] # NoPod => /\ q.how = pod[p].how /\ q.tmpl = pod[p].tmpl
                            /\ q.node = pod[p].node /\ q.jdk = pod[p].jdk
      BY <1>1, PodUpdates
    <3> HIDE DEF q
    <3>3. pod[p] # NoPod => Fitted(q)
      BY <1>1, <3>2 DEF Fitted
    <3> QED BY <1>1, <2>1, <3>1, <3>3, Zenon
  <2> QED BY <2>1, Zenon DEF FitInv, Fitted, OptionsFit
<1>8. Kept \/ (\E n \in Node : Publish(n) \/ NodeReconcile(n)) => UNCHANGED pod
  BY Zenon DEF Kept, Publish, NodeReconcile
<1> QED BY <1>2, <1>3, <1>4, <1>5, <1>6, <1>7, <1>8, NextKinds, Zenon DEF Placed

\* The provisioning states of the nodes, and of the operator's copies of them.
LEMMA StateStep ==
    ASSUME SteerInv, StateInv, [Next]_vars
    PROVE  StateInv'
<1>1. \A n \in Node : IsNode(node[n])
  BY Zenon DEF SteerInv
<1>2. tracked' = [n \in Node |-> tracked'[n]] /\ \A n \in Node : tracked'[n].state \in ProvisionState
  <2>1. tracked' = tracked \/ \E n \in Node : tracked' = [tracked EXCEPT ![n] = Progress(node[n])]
    <3>1. CASE UNCHANGED vars
      BY <3>1, Zenon DEF vars, podVars
    <3>2. CASE Next
      BY <3>2, Zenon DEF Next, Reconcile, HPA, ReportRollout, App, podVars, Replicate, Handle, Retire, Schedule, Cluster,
                  Bind, Start, CreateByHand, SyncFleet, Withdraw, Publish, NodeEvent, NodeReconcile
    <3> QED BY <3>1, <3>2, Zenon
  <2>2. \A n \in Node : Progress(node[n]).state \in ProvisionState
    BY Zenon DEF Progress, StateInv
  <2> QED BY <2>1, <2>2, Zenon DEF StateInv
<1>3. ASSUME NEW n \in Node PROVE node'[n].state \in ProvisionState
  <2>1. CASE UNCHANGED node
    BY <2>1, Zenon DEF StateInv
  <2>2. ASSUME NEW m \in Node, Withdraw(m) PROVE node'[n].state = node[n].state
    BY <1>1, <2>2, Zenon DEF Withdraw, SteerInv, IsNode
  <2>3. ASSUME NEW m \in Node, Publish(m) PROVE node'[n].state = node[n].state
    <3>1. PICK r : node' = [node EXCEPT ![m] = r] /\ r.state = node[m].state
      <4>1. \A run : Provisioned(node[m], run).state = node[m].state /\ Failed(node[m], run).state = node[m].state
        BY <1>1, Zenon DEF Provisioned, Failed, IsNode
      <4> QED BY <2>3, <4>1, Zenon DEF Publish
    <3> QED BY <3>1, Zenon DEF SteerInv
  <2>4. ASSUME NEW m \in Node, NodeReconcile(m) PROVE node'[n].state \in ProvisionState
    <3>1. \A failing : StateOf(m, tracked[m], failing) \in ProvisionState
      BY Zenon DEF StateOf, StateInv, ProvisionState
    <3>2. PICK v \in ProvisionState : node' = node \/ node' = [node EXCEPT ![m].state = v]
      BY <2>4, <3>1, Zenon DEF NodeReconcile, Mark
    <3> QED BY <1>1, <3>2, Zenon DEF SteerInv, StateInv, IsNode
  <2>5. Kept \/ (\E p \in Pod : Placed(p, NoPod) \/ Start(p) \/ \E m \in Node : Bind(p, m)) => UNCHANGED node
    BY Zenon DEF Kept, Placed, Start, Bind
  <2>6. (\E p \in Pod, t \in Offered : Handle(p, t)) => UNCHANGED node
    BY Zenon DEF Handle
  <2> QED BY <2>1, <2>2, <2>3, <2>4, <2>5, <2>6, NextKinds, Zenon DEF StateInv
<1> QED BY <1>2, <1>3, Zenon DEF StateInv

WorkloadInv == SteerInv /\ AppInv /\ FitInv /\ StateInv

LEMMA WorkloadKept == Spec => []WorkloadInv
<1>1. Init => WorkloadInv
  <2> SUFFICES ASSUME Init PROVE FitInv /\ StateInv
    BY SteerInit, AppStarts, Zenon DEF WorkloadInv
  <2>1. PICK sc \in Scenarios : PodInit(sc)
    BY Zenon DEF Init
  <2>2. FitInv
    BY <2>1, Zenon DEF PodInit, FitInv
  <2>3. \A n \in Node : node[n].state \in ProvisionState
    BY <2>1, ScenariosAssumption, Zenon DEF PodInit
  <2>4. tracked = [n \in Node |-> Progress(node[n])]
    BY <2>1, Zenon DEF PodInit
  <2>5. StateInv
    BY <2>3, <2>4, Zenon DEF StateInv, Progress
  <2> QED BY <2>2, <2>5, Zenon
<1>2. WorkloadInv /\ [Next]_vars => WorkloadInv'
  <2> SUFFICES ASSUME WorkloadInv, [Next]_vars PROVE WorkloadInv'
    BY Zenon
  <2>1. \A t \in Offered : OptionsFit(t)
    BY Zenon DEF WorkloadInv, Offered, AppInv, IsStore, IsDep
  <2> QED BY <2>1, SteerNext, AppNext, FitStep, StateStep, Zenon DEF WorkloadInv
<1> QED BY <1>1, <1>2, PTL DEF Spec

\* For any fleet, pods and edits: the JVM of a running pod reads the variable
\* that the controller put the options in.
THEOREM OptionsSafe == Spec => []OptionsReach
<1>1. WorkloadInv => OptionsReach
  <2> SUFFICES ASSUME WorkloadInv, NEW p \in Pod, Running(p), NEW j \in pod[p].jdk, NEW v \in pod[p].tmpl.env,
                      v[2] = "args", j[2] = "8"
               PROVE  v[1] = "JAVA_TOOL_OPTIONS"
    BY Zenon DEF OptionsReach
  <2>1. Fitted(pod[p])
    BY Zenon DEF Running, Bound, WorkloadInv, FitInv
  <2> QED BY <2>1, Zenon DEF Fitted, OptionsFit
<1> QED BY <1>1, WorkloadKept, PTL

\* For any fleet, pods and edits: the objects are well formed.
THEOREM WorkloadTypeCorrect == Spec => []WorkloadTypeOK
<1>1. WorkloadInv => WorkloadTypeOK
  <2> SUFFICES ASSUME WorkloadInv PROVE WorkloadTypeOK
    BY Zenon
  <2>1. /\ pc \in {"idle", "dep", "svc", "hpa", "status"} /\ queued \in BOOLEAN
        /\ api.dep.replicas \in Nat /\ api.dep.ready \in 0 .. Cardinality(Pod)
        /\ 1 <= api.hpa.min /\ api.hpa.min <= api.hpa.max
    BY Zenon DEF WorkloadInv, AppInv, IsStore, IsDep, IsHPA
  <2>2. \A n \in Node : node[n].state \in ProvisionState
    BY Zenon DEF WorkloadInv, StateInv
  <2>3. ASSUME NEW p \in Alive
        PROVE  pod[p].how \in {"steered", "open", "other"} /\ Cardinality(pod[p].jdk) <= 1
    <3>1. Fitted(pod[p])
      BY Zenon DEF WorkloadInv, FitInv, Alive
    <3> DEFINE J == pod[p].jdk
    <3>2. \A i, j \in J : i = j
      BY <3>1, Zenon DEF Fitted
    <3> HIDE DEF J
    <3>3. J = {} \/ \E j : J = {j}
      BY <3>2
    <3>4. Cardinality(J) = 0 \/ Cardinality(J) = 1
      BY <3>3, FS_EmptySet, FS_Singleton, Zenon
    <3>5. Cardinality(J) <= 1
      BY <3>4
    <3>6. pod[p].how \in {"steered", "open", "other"}
      BY <3>1, Zenon DEF Fitted
    <3> QED BY <3>5, <3>6, Zenon DEF J
  <2> QED BY <2>1, <2>2, <2>3, Zenon DEF WorkloadTypeOK
<1> QED BY <1>1, WorkloadKept, PTL
==============================================================================

-------------------------- MODULE JavaApplication --------------------------
(***************************************************************************)
(* The JavaApplication controller: one application, the Deployment, the    *)
(* Service and the HorizontalPodAutoscaler it manages, and its status. The *)
(* controller reads its informer cache, which lags behind the API server;  *)
(* writes go to the API server, which refuses a stale one. Users edit and  *)
(* delete the application, the autoscaler scales, objects of other owners  *)
(* may hold the same names, calls fail and the operator restarts.          *)
(***************************************************************************)
EXTENDS PodAdmission

VARIABLES
    api,      \* the API server's objects: api.app, api.dep, api.svc, api.hpa
    seen,     \* the operator's cached copies of them
    queued,   \* the application is in the work queue
    pc,       \* the reconciliation's next step, or "idle"
    cur,      \* the JavaApplication that the reconciliation read
    edits,    \* bound: the specs users still set; Gone deletes the application
    faults,   \* bound: calls that fail and restarts of the operator
    loads     \* bound: changes of load that the autoscaler follows

appVars == <<api, seen, queued, pc, cur, edits, faults, loads>>

NoApp == [gen |-> 0]
Gone == [artifact |-> NoRef]

\* An object's controller is the application, "other", "nobody", or it is absent.
NoTemplate == [label |-> "", brewlet |-> FALSE]
NoDep == [owner |-> "absent", tmpl |-> NoTemplate, replicas |-> 1, rolled |-> FALSE, ready |-> 0]
NoSvc == [owner |-> "absent", type |-> "", ports |-> {}]
NoHPA == [owner |-> "absent", min |-> 1, max |-> 1]

----------------------------------------------------------------------------
(* What a spec asks for. An optional number is a set of at most one.       *)

validateSpec_Off(s) == TRUE
validateSpec(s) ==
    s.auto.on => /\ s.auto.max >= 1
                 /\ \A m \in s.auto.min : 1 <= m /\ m <= s.auto.max

jvmOptionsEnvName_Modern(version) == "JDK_JAVA_OPTIONS"
jvmOptionsEnvName(version) == IF version = "8" THEN "JAVA_TOOL_OPTIONS" ELSE "JDK_JAVA_OPTIONS"

\* The options variable that carries jvm.args, unless the user set one of them.
buildEnv(s) ==
    s.env \cup (IF s.args /\ s.env = {} THEN {<<jvmOptionsEnvName(s.version), "args">>} ELSE {})

\* podAnnotations: a distribution without a version requests nothing.
requestedJDK(s) == IF s.version = "" THEN <<>> ELSE IF s.dist = "" THEN <<s.version>> ELSE <<s.dist, s.version>>

\* buildDeployment's pod template; the label is what the selector goes by.
Template(s) ==
    [label |-> "app", brewlet |-> TRUE, images |-> <<s.artifact>>, container |-> 0, ref |-> NoRef, digest |-> "",
     jdk |-> requestedJDK(s), launcher |-> IF s.launcher = "java" THEN "" ELSE s.launcher,
     arch |-> s.arch \ {""}, env |-> buildEnv(s), terms |-> {}]

\* nil ({}) leaves the count to the autoscaler.
desiredReplicas_Always(s) == IF s.replicas = {} THEN {1} ELSE s.replicas
desiredReplicas(s) == IF s.auto.on THEN {} ELSE IF s.replicas = {} THEN {1} ELSE s.replicas

\* The mutations of CreateOrUpdate, on the cached copy o. The API server's
\* default for a Deployment's replicas, and an autoscaler's minimum, is 1.
buildDeployment(s, o) ==
    LET n == desiredReplicas(s)
        want == IF n = {} THEN o.replicas ELSE CHOOSE k \in n : TRUE
        same == o.owner = "app" /\ o.tmpl = Template(s) /\ o.replicas = want
    IN  [o EXCEPT !.owner = "app", !.tmpl = Template(s), !.replicas = want,
                  !.rolled = IF same THEN @ ELSE FALSE]

buildService(s, o) ==
    IF ~s.service \/ s.ports = {} THEN NoSvc
    ELSE [owner |-> "app", type |-> IF s.type = "" THEN "ClusterIP" ELSE s.type, ports |-> s.ports]

buildHPA(s, o) ==
    IF ~s.auto.on THEN NoHPA
    ELSE [owner |-> "app", max |-> s.auto.max,
          min |-> IF s.auto.min = {} THEN 1 ELSE CHOOSE m \in s.auto.min : TRUE]

Desired(k, s, o) ==
    CASE k = "dep" -> buildDeployment(s, o)
      [] k = "svc" -> buildService(s, o)
      [] k = "hpa" -> buildHPA(s, o)

----------------------------------------------------------------------------
(* Reconcile. One step of it is one call that reads or writes an object.   *)

After(k) == CASE k = "dep" -> "svc" [] k = "svc" -> "hpa" [] k = "hpa" -> "status"

\* fail: Ready=False in a best-effort status write; the error requeues.
Fail(a) ==
    /\ api' = IF api.app = a THEN [api EXCEPT !.app.cond = "Error", !.app.condGen = a.gen] ELSE api
    /\ pc' = "idle" /\ queued' = TRUE

Begin ==
    /\ pc = "idle" /\ queued
    /\ cur' = seen.app
    /\ \/ /\ seen.app.gen = 0
          /\ queued' = FALSE /\ UNCHANGED <<api, pc>>
       \/ /\ seen.app.gen # 0 /\ ~validateSpec(seen.app.spec)
          /\ Fail(seen.app)
       \/ /\ seen.app.gen # 0 /\ validateSpec(seen.app.spec)
          /\ pc' = "dep" /\ queued' = FALSE /\ UNCHANGED api
    /\ UNCHANGED <<seen, edits, faults, loads>>

\* deleteIfExists goes by the name alone and asks the API server.
Removed(k) == [api EXCEPT ![k] = IF k = "svc" THEN NoSvc ELSE NoHPA]

\* controllerutil.SetControllerReference refuses an object of another controller.
Refused_Never(o) == FALSE
Refused(o) == o.owner = "other"

\* The selector of a Deployment that exists is kept, and the API server rejects a
\* template whose label it does not select.
Unselected(k, o) == k = "dep" /\ o.owner # "absent" /\ o.tmpl.label # "app"

\* reconcileDeployment, reconcileService and reconcileHPA: CreateOrUpdate, or
\* deleteIfExists. A write is refused unless the cached copy is the live object.
\* A Deployment or HPA is written even when nothing changes, for its defaulted
\* fields differ from the built ones.
Apply(k) ==
    LET o == seen[k]
        new == Desired(k, cur.spec, o)
    IN  /\ pc = k
        /\ \/ /\ new.owner = "absent"
              /\ api' = Removed(k) /\ pc' = After(k) /\ UNCHANGED <<queued, faults>>
           \/ /\ new.owner # "absent" /\ ~Refused(o) /\ ~Unselected(k, o)
              /\ \/ new = o /\ (k = "svc" \/ api[k] = o) /\ UNCHANGED api
                 \/ new # o /\ api[k] = o /\ api' = [api EXCEPT ![k] = new]
              /\ pc' = After(k) /\ UNCHANGED <<queued, faults>>
           \/ /\ new.owner # "absent"
              /\ Refused(o) \/ Unselected(k, o) \/ (api[k] # o /\ (new # o \/ k # "svc"))
              /\ Fail(cur) /\ UNCHANGED faults
           \/ faults > 0 /\ faults' = faults - 1 /\ Fail(cur)
        /\ UNCHANGED <<seen, cur, edits, loads>>

deploymentReady(d) == d.owner # "absent" /\ d.ready >= d.replicas /\ d.rolled

\* A status write that fails or is refused requeues.
UpdateStatus ==
    LET d == seen.dep
        new == [cur EXCEPT !.obs = cur.gen, !.ready = d.ready, !.condGen = cur.gen,
                           !.cond = IF deploymentReady(d) THEN "True" ELSE "Progressing"]
    IN  /\ pc = "status" /\ pc' = "idle"
        /\ \/ api.app = cur /\ api' = [api EXCEPT !.app = new] /\ UNCHANGED <<queued, faults>>
           \/ api.app # cur /\ queued' = TRUE /\ UNCHANGED <<api, faults>>
           \/ faults > 0 /\ faults' = faults - 1 /\ queued' = TRUE /\ UNCHANGED api
        /\ UNCHANGED <<seen, cur, edits, loads>>

\* An informer delivers the latest object; SetupWithManager queues the
\* application for itself and for the objects it controls, before or after.
Enqueues_AppOnly(k) == k = "app"
Enqueues(k) == k = "app" \/ "app" \in {seen[k].owner, api[k].owner}

Deliver(k) ==
    /\ seen[k] # api[k]
    /\ seen' = [seen EXCEPT ![k] = api[k]]
    /\ queued' = (queued \/ Enqueues(k))
    /\ UNCHANGED <<api, pc, cur, edits, faults, loads>>

Restart ==
    /\ faults > 0 /\ faults' = faults - 1
    /\ pc' = "idle" /\ seen' = api /\ queued' = TRUE
    /\ UNCHANGED <<api, cur, edits, loads>>

----------------------------------------------------------------------------
(* The users, the autoscaler and the garbage collector.                    *)

Edit ==
    /\ edits # <<>> /\ api.app.gen # 0
    /\ edits' = Tail(edits)
    /\ api' = [api EXCEPT !.app =
                 IF Head(edits) = Gone THEN NoApp ELSE [api.app EXCEPT !.gen = @ + 1, !.spec = Head(edits)]]
    /\ UNCHANGED <<seen, queued, pc, cur, faults, loads>>

\* The holder of a name lets go of it.
Leave(k) ==
    /\ api[k].owner = "other"
    /\ api' = [api EXCEPT ![k] = CASE k = "dep" -> NoDep [] k = "svc" -> NoSvc [] OTHER -> NoHPA]
    /\ UNCHANGED <<seen, queued, pc, cur, edits, faults, loads>>

Scale(n) ==
    LET within == api.dep.replicas \in api.hpa.min .. api.hpa.max
    IN  /\ api.hpa.owner = "app" /\ api.dep.owner = "app"
        /\ n # api.dep.replicas /\ n \in api.hpa.min .. api.hpa.max
        /\ IF within THEN loads > 0 /\ loads' = loads - 1 ELSE UNCHANGED loads
        /\ api' = [api EXCEPT !.dep.replicas = n, !.dep.rolled = FALSE]
        /\ UNCHANGED <<seen, queued, pc, cur, edits, faults>>

Collect(k) ==
    /\ api.app.gen = 0 /\ api[k].owner = "app"
    /\ api' = [api EXCEPT ![k] = CASE k = "dep" -> NoDep [] k = "svc" -> NoSvc [] OTHER -> NoHPA]
    /\ UNCHANGED <<seen, queued, pc, cur, edits, faults, loads>>

----------------------------------------------------------------------------
\* A new application, with or without objects of other owners under its name.
AppInit(sc) ==
    /\ api = [app |-> IF sc.edits = <<>> THEN NoApp
                      ELSE [gen |-> 1, spec |-> Head(sc.edits), obs |-> 0, ready |-> 0, cond |-> "", condGen |-> 0],
              dep |-> [NoDep EXCEPT !.owner = sc.held.dep],
              svc |-> [NoSvc EXCEPT !.owner = sc.held.svc],
              hpa |-> [NoHPA EXCEPT !.owner = sc.held.hpa]]
    /\ seen = [api EXCEPT !.app = NoApp]
    /\ edits = IF sc.edits = <<>> THEN <<>> ELSE Tail(sc.edits)
    /\ queued = FALSE /\ pc = "idle" /\ cur = NoApp
    /\ faults = sc.faults /\ loads = sc.loads
=============================================================================

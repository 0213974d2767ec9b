-------------------------- MODULE NodeRuntimeProofs --------------------------
(***************************************************************************)
(* The shims and the exporters of a node, for any tasks, inputs, calls,    *)
(* faults and exporters: what is reported of a launch is true, the         *)
(* exporter understands it, and it is sent to an exporter that listens.    *)
(***************************************************************************)
EXTENDS NodeRuntime, LaunchPlanProofs

----------------------------------------------------------------------------
(* The shim's handlers implement the launch ledger: however they          *)
(* interleave and wherever a shim is killed, no attempt is reported twice. *)

\* An attempt that still can be reported has not been. A pending entry may
\* outlive its task, so it does not by itself say that its attempt is open: what
\* does is that no Start is in flight when a Create fails beside such an entry.
OpenUnreported(t) ==
    /\ pc[t] \in Creating => reports[t] = <<>>
    /\ t \in pending /\ pc[t] # "failed" => reports[t] = <<>>
    /\ pc[t] \in Creating \cup {"failed"} => \A n \in Call : start[t][n] \notin {"call", "ok", "error"}
    /\ in[t].sandbox => pc[t] \notin Creating \cup {"failed"} /\ t \notin pending /\ reports[t] = <<>>

Shape ==
    /\ pc \in [Task -> Step] /\ pending \subseteq Task
    /\ start \in [Task -> [Call -> {"idle", "call", "ok", "error", "exec"}]]
    /\ reports = [t \in Task |-> reports[t]]
LedgerInv == Shape /\ \A t \in Task : OpenUnreported(t)

(* What a handler does to the state the ledger is about, by kinds of steps. *)

Moves(t, s) == pc' = [pc EXCEPT ![t] = s]
Reports(t) == \E r : reports' = [reports EXCEPT ![t] = Append(@, r)]

Begins(t) ==
    /\ pc[t] \in {"none", "failed"} /\ \A n \in Call : start[t][n] \in {"idle", "exec"}
    /\ Moves(t, IF in[t].sandbox THEN "pause" ELSE "resolve") /\ reports' = [reports EXCEPT ![t] = <<>>]
    /\ UNCHANGED <<pending, start>>
Advances(t) ==
    /\ \/ pc[t] \in Creating /\ \E s \in Creating : Moves(t, s)
       \/ pc[t] = "pause" /\ Moves(t, "created")
       \/ pc[t] = "created" /\ Moves(t, "none")
       \/ UNCHANGED pc
    /\ UNCHANGED <<pending, start, reports>>
Fails(t) == pc[t] \in Creating /\ Moves(t, "failed") /\ Reports(t) /\ UNCHANGED <<pending, start>>
Records(t) ==
    /\ pc[t] = "record" /\ \E s \in {"none", "created"} : Moves(t, s)
    /\ pending' = pending \cup {t} /\ UNCHANGED <<start, reports>>
Starts(t) ==
    /\ \E n \in Call, s \in {"idle", "call", "ok", "error", "exec"} :
         /\ start' = [start EXCEPT ![t][n] = s]
         /\ pc[t] = "created" \/ start[t][n] = "call" \/ s = "idle"
    /\ UNCHANGED <<pc, pending, reports>>
Settles(t) ==
    /\ \E n \in Call : start[t][n] \in {"ok", "error"} /\ start' = [start EXCEPT ![t][n] = "idle"]
    /\ pending' = pending \ {t} /\ UNCHANGED pc
    /\ IF t \in pending THEN Reports(t) ELSE UNCHANGED reports
Forgets(t) == pending' = pending \ {t} /\ UNCHANGED <<pc, start, reports>>
Dies(t) ==
    /\ Moves(t, "none") /\ pending' = pending \ {t}
    /\ start' = [start EXCEPT ![t] = [n \in Call |-> "idle"]] /\ UNCHANGED reports

Effect(t) ==
    /\ UNCHANGED in
    /\ \/ Begins(t) \/ Advances(t) \/ Fails(t) \/ Records(t)
       \/ Starts(t) \/ Settles(t) \/ Forgets(t) \/ Dies(t)

\* Every handler of the shim is one of these steps.
LEMMA HandlerEffect ==
    ASSUME NEW t \in Task, Handlers(t) PROVE Effect(t)
<1>. USE DEF Effect, Moves, Goto, At, Creating
<1>f. ASSUME NEW err, NEW reason, NEW known, NEW phases, CreateFails(t, err, reason, known, phases)
      PROVE Moves(t, "failed") /\ Reports(t)
  BY <1>f, Zenon DEF CreateFails, Report, Reports
<1>r. ASSUME NEW err, Resolved(t, err)
      PROVE (Moves(t, "prepare") /\ UNCHANGED reports) \/ (Moves(t, "failed") /\ Reports(t))
  BY <1>r, <1>f, Zenon DEF Resolved
<1>1. CASE CreateCall(t)
  BY <1>1, Zenon DEF CreateCall, Begins, Advances, Busy
<1>2. CASE CreatePause(t)
  BY <1>2, Zenon DEF CreatePause, Advances, history
<1>3. CASE Resolve(t)
  BY <1>3, <1>r, <1>f, Zenon DEF Resolve, Fails, Advances
<1>4. CASE StageDone(t) \/ StageFails(t)
  BY <1>4, <1>r, Zenon DEF StageDone, StageFails, Fails, Advances
<1>5. CASE Prepare(t)
  BY <1>5, <1>f, Zenon DEF Prepare, Fails, Advances
<1>6. CASE Overlay(t) \/ WriteBundle(t)
  BY <1>6, <1>f, Zenon DEF Overlay, WriteBundle, Fails, Advances
<1>7. CASE RuncCreate(t)
  BY <1>7, <1>f, Zenon DEF RuncCreate, Fails, Advances
<1>8. CASE Record(t)
  BY <1>8, Zenon DEF Record, Records, history
<1>9. CASE DeleteCall(t) \/ DeleteInner(t) \/ ProcessExit(t)
  BY <1>9, Zenon DEF DeleteCall, DeleteInner, ProcessExit, Advances, history
<1>10. CASE DeleteForget(t)
  BY <1>10, Zenon DEF DeleteForget, Forgets, history
<1>11. CASE KillShim(t)
  BY <1>11, Zenon DEF KillShim, Dies, history
<1>12. CASE \E n \in Call : StartCall(t, n) \/ StartInner(t, n) \/ StartExec(t, n)
  BY <1>12, Zenon DEF StartCall, StartInner, StartExec, Starts, GotoStart, history
<1>13. CASE \E n \in Call : StartReport(t, n)
  BY <1>13, Zenon DEF StartReport, Settles, Reports, Report, GotoStart
<1>. QED BY <1>1, <1>2, <1>3, <1>4, <1>5, <1>6, <1>7, <1>8, <1>9, <1>10, <1>11, <1>12, <1>13, Zenon DEF Handlers

\* A step of one task leaves the others' entries alone.
LEMMA OthersKept ==
    ASSUME LedgerInv, NEW t \in Task, Effect(t)
    PROVE  /\ \A u \in Task \ {t} : /\ pc'[u] = pc[u] /\ start'[u] = start[u] /\ reports'[u] = reports[u]
                                    /\ u \in pending' <=> u \in pending
           /\ Shape'
<1>. USE DEF LedgerInv, Shape, Step, Creating, Call
<1>1. CASE Begins(t) BY <1>1, Zenon DEF Begins, Moves
<1>2. CASE Advances(t) BY <1>2 DEF Advances, Moves
<1>3. CASE Fails(t) BY <1>3, Zenon DEF Fails, Moves, Reports
<1>4. CASE Records(t) BY <1>4, Zenon DEF Records, Moves
<1>5. CASE Starts(t) BY <1>5 DEF Starts
<1>6. CASE Settles(t) BY <1>6 DEF Settles, Reports
<1>7. CASE Forgets(t) BY <1>7, Zenon DEF Forgets
<1>8. CASE Dies(t) BY <1>8, Zenon DEF Dies, Moves
<1>. QED BY <1>1, <1>2, <1>3, <1>4, <1>5, <1>6, <1>7, <1>8, Zenon DEF Effect

\* The entry of the stepping task keeps the invariant, and its step is one of the
\* ledger's or leaves the ledger alone.
LEMMA OwnKept ==
    ASSUME LedgerInv, NEW t \in Task, Effect(t)
    PROVE  OpenUnreported(t)'
<1>. USE DEF LedgerInv, Shape, Step, Creating, Call, OpenUnreported, Effect
<1>1. CASE Begins(t) BY <1>1, Zenon DEF Begins, Moves
<1>2. CASE Advances(t) BY <1>2 DEF Advances, Moves
<1>3. CASE Fails(t) BY <1>3, Zenon DEF Fails, Moves, Reports
<1>4. CASE Records(t) BY <1>4, Zenon DEF Records, Moves
<1>5. CASE Starts(t) BY <1>5 DEF Starts
<1>6. CASE Settles(t) BY <1>6, Zenon DEF Settles, Reports
<1>7. CASE Forgets(t) BY <1>7, Zenon DEF Forgets
<1>8. CASE Dies(t) BY <1>8, Zenon DEF Dies, Moves
<1>. QED BY <1>1, <1>2, <1>3, <1>4, <1>5, <1>6, <1>7, <1>8, Zenon

IsOpen(t) == reports[t] = <<>> /\ (pc[t] \in Creating \/ t \in pending)

\* What a handler does to the ledger's entry of its own task.
LEMMA OwnEntry ==
    ASSUME LedgerInv, NEW t \in Task, Effect(t)
    PROVE  \/ IsOpen(t)' /\ Len(reports'[t]) = 0
           \/ IsOpen(t) /\ ~IsOpen(t)' /\ Len(reports'[t]) = 1
           \/ IsOpen(t) /\ ~IsOpen(t)' /\ reports'[t] = reports[t]
           \/ (IsOpen(t)' <=> IsOpen(t)) /\ reports'[t] = reports[t]
<1>. USE DEF LedgerInv, Shape, Step, Creating, Call, OpenUnreported, Effect, IsOpen
<1>a. ASSUME NEW r PROVE Len(Append(<<>>, r)) = 1 /\ Append(<<>>, r) # <<>>
  OBVIOUS
<1>1. CASE Begins(t) BY <1>1, Zenon DEF Begins, Moves
<1>2. CASE Advances(t) BY <1>2, Zenon DEF Advances, Moves
<1>3. CASE Fails(t) BY <1>3, <1>a DEF Fails, Moves, Reports
<1>4. CASE Records(t) BY <1>4, Zenon DEF Records, Moves
<1>5. CASE Starts(t) BY <1>5, Zenon DEF Starts
<1>6. CASE Settles(t)
  <2>1. CASE t \in pending
    <3>1. pc[t] # "failed" BY <1>6, <2>1, Zenon DEF Settles
    <3>2. reports[t] = <<>> BY <2>1, <3>1, Zenon
    <3>3. PICK r : reports' = [reports EXCEPT ![t] = Append(@, r)] BY <1>6, <2>1, Zenon DEF Settles, Reports
    <3>4. reports'[t] = Append(<<>>, r) BY <3>2, <3>3, Zenon
    <3>. QED BY <2>1, <3>2, <3>4, <1>a, Zenon
  <2>2. CASE t \notin pending
    <3>1. pc[t] \notin Creating BY <1>6, Zenon DEF Settles
    <3>. QED BY <1>6, <2>2, <3>1, Zenon DEF Settles
  <2>. QED BY <2>1, <2>2, Zenon
<1>7. CASE Forgets(t) BY <1>7, Zenon DEF Forgets
<1>8. CASE Dies(t) BY <1>8, Zenon DEF Dies, Moves
<1>. QED BY <1>1, <1>2, <1>3, <1>4, <1>5, <1>6, <1>7, <1>8, Zenon

\* The handlers keep LedgerInv, whichever of them runs next.
LEMMA LedgerInductive ==
    ASSUME LedgerInv, [ShimNext]_shimVars PROVE LedgerInv'
<1>1. CASE UNCHANGED shimVars
  BY <1>1, Zenon DEF shimVars, task, history, LedgerInv, Shape, OpenUnreported, Creating
<1>2. CASE ShimNext
  <2>1. PICK t \in Task : Handlers(t) BY <1>2, Zenon DEF ShimNext
  <2>2. Effect(t) BY <2>1, HandlerEffect, Zenon
  <2>3. OpenUnreported(t)' BY <2>2, OwnKept, Zenon
  <2>4. ASSUME NEW u \in Task \ {t} PROVE OpenUnreported(u)'
    BY <2>2, OthersKept, Zenon DEF OpenUnreported, LedgerInv, Effect, Creating
  <2>. QED BY <2>2, <2>3, <2>4, OthersKept, Zenon DEF LedgerInv
<1>. QED BY <1>1, <1>2, Zenon

\* Create, Start and Delete, however they interleave and wherever the shim is
\* killed, implement the launch ledger: every attempt is reported at most once.
THEOREM LedgerRefined == ShimSpec => ReportedOnce
<1>1. ShimInit => LedgerInv /\ Ledger!Init
  BY DEF ShimInit, LedgerInv, Shape, OpenUnreported, Ledger!Init, Creating, Step, Call
<1>2. ASSUME LedgerInv, [ShimNext]_shimVars
      PROVE  [Ledger!Next]_(Ledger!vars)
  <2>1. CASE UNCHANGED shimVars
    BY <2>1, Zenon DEF shimVars, task, history, Ledger!vars
  <2>2. CASE ShimNext
    <3>1. PICK t \in Task : Handlers(t) BY <2>2, Zenon DEF ShimNext
    <3>2. Effect(t) BY <3>1, HandlerEffect, Zenon
    <3>3. \A u \in Task \ {t} : (IsOpen(u)' <=> IsOpen(u)) /\ reports'[u] = reports[u]
      BY <1>2, <3>2, OthersKept, Zenon DEF IsOpen, Creating
    <3>4. CASE IsOpen(t)' /\ Len(reports'[t]) = 0
      BY <3>3, <3>4, Zenon DEF Ledger!Next, Ledger!Open, IsOpen
    <3>5. CASE IsOpen(t) /\ ~IsOpen(t)' /\ Len(reports'[t]) = 1
      BY <3>3, <3>5, Zenon DEF Ledger!Next, Ledger!Report, IsOpen
    <3>6. CASE IsOpen(t) /\ ~IsOpen(t)' /\ reports'[t] = reports[t]
      BY <3>3, <3>6, Zenon DEF Ledger!Next, Ledger!Drop, IsOpen
    <3>7. CASE (IsOpen(t)' <=> IsOpen(t)) /\ reports'[t] = reports[t]
      BY <3>3, <3>7, Zenon DEF Ledger!vars, IsOpen
    <3>. QED BY <1>2, <3>2, <3>4, <3>5, <3>6, <3>7, OwnEntry, Zenon
  <2>. QED BY <1>2, <2>1, <2>2, Zenon
<1>. QED BY <1>1, <1>2, LedgerInductive, PTL DEF ShimSpec, ReportedOnce, Ledger!Spec

----------------------------------------------------------------------------
(* The exporters' socket.                                                  *)

\* An exporter that never ran beside another is alone, finds the path free and owns
\* it from the bind on.
Alone(e) ==
    /\ exp[e] # "refused"
    /\ exp[e] # "down" => \A o \in Exporter \ {e} : exp[o] \in {"down", "refused"}
    /\ exp[e] = "unlinked" => sock = Free
    /\ exp[e] \in {"bound", "up"} => sock = e
SocketInv ==
    /\ exp \in [Exporter -> {"down", "refused", "unlinked", "bound", "up", "closed"}]
    /\ \A e \in Exporter \ beside : Alone(e)

\* The exporters keep SocketInv, whichever of them runs next.
LEMMA SocketInductive ==
    ASSUME SocketInv, [ExporterNext]_exporterVars PROVE SocketInv'
<1>. USE ExporterAssumption DEF SocketInv, Alone, Turn
<1>1. CASE UNCHANGED exporterVars
  BY <1>1, Zenon DEF exporterVars
<1>2. ASSUME NEW e \in Exporter, Unlink(e) PROVE SocketInv'
  BY <1>2, Zenon DEF Unlink
<1>3. ASSUME NEW e \in Exporter, Listen(e) PROVE SocketInv'
  BY <1>3 DEF Listen
<1>4. ASSUME NEW e \in Exporter, Chmod(e) \/ Close(e) PROVE SocketInv'
  <2>1. CASE Chmod(e)
    BY <2>1 DEF Chmod
  <2>2. CASE Close(e)
    BY <2>2 DEF Close
  <2>. QED BY <1>4, <2>1, <2>2, Zenon
<1>5. ASSUME NEW e \in Exporter, Depart(e) \/ Die(e) PROVE SocketInv'
  BY <1>5 DEF Depart, Die
<1>. QED BY <1>1, <1>2, <1>3, <1>4, <1>5, Zenon DEF ExporterNext

\* However exporters start, stop, crash and are replaced, one that never ran beside
\* another is not refused the path by what its predecessors left there, and has its
\* socket at the path of serveDatagrams while it serves the metrics.
THEOREM SocketSafe == Spec => []RestartBinds
<1>1. Init => SocketInv
  BY Zenon DEF Init, ExporterInit, SocketInv, Alone
<1>2. SocketInv /\ [Shims \/ Exporters]_<<shimVars, exporterVars>> => SocketInv'
  BY SocketInductive, Zenon DEF Shims, Exporters, exporterVars
<1>3. SocketInv => RestartBinds
  BY Zenon DEF SocketInv, Alone, RestartBinds
<1>. QED BY <1>1, <1>2, <1>3, PTL DEF Spec

----------------------------------------------------------------------------
(* The artifacts that Create accepts and the directory they are staged in. *)

Late == {"prepare", "overlay", "layers", "runc", "record", "created"}

\* Past its resolution an artifact is complete and the node can run it.
StageInv ==
    /\ in \in Inputs /\ writer \in [Task -> Task \cup {Nobody}]
    /\ \A t \in Task : pc[t] = "pause" => in[t].sandbox
    /\ \A t \in Task : pc[t] \in Late /\ ~in[t].sandbox => LateError(in[t]) = None

\* A step that neither stages nor accepts an artifact.
Aside(t) ==
    /\ UNCHANGED <<in, writer>>
    /\ \/ UNCHANGED pc
       \/ Goto(t, "pause") /\ in[t].sandbox
       \/ \E s \in {"none", "failed", "resolve"} : Goto(t, s)
       \/ \E s \in Late : Goto(t, s) /\ pc[t] \in Late \cup {"pause"}

\* Every handler is such a step but the two that resolve and stage.
LEMMA AsideSteps ==
    ASSUME NEW t \in Task, Handlers(t), ~Resolve(t), ~StageDone(t)
    PROVE  Aside(t)
<1>c. ASSUME NEW err, NEW reason, NEW known, NEW phases, CreateFails(t, err, reason, known, phases)
      PROVE  Goto(t, "failed")
  BY <1>c, Zenon DEF CreateFails
<1>1. CASE CreateCall(t) \/ CreatePause(t)
  BY <1>1, Zenon DEF CreateCall, CreatePause, Aside, At, Late
<1>2. CASE StageFails(t)
  <2>1. Goto(t, "failed")
    BY <1>2, <1>c, Zenon DEF StageFails, Resolved, None
  <2>. QED BY <1>2, <2>1, Zenon DEF StageFails, Aside
<1>3. CASE Prepare(t)
  <2>1. Goto(t, "overlay") \/ Goto(t, "failed")
    BY <1>3, <1>c, Zenon DEF Prepare
  <2>. QED BY <1>3, <2>1, Zenon DEF Prepare, Aside, At, Late
<1>4. CASE Overlay(t) \/ WriteBundle(t) \/ RuncCreate(t)
  <2>1. Goto(t, "layers") \/ Goto(t, "runc") \/ Goto(t, "record") \/ Goto(t, "failed")
    BY <1>4, <1>c, Zenon DEF Overlay, WriteBundle, RuncCreate
  <2>. QED BY <1>4, <2>1, Zenon DEF Overlay, WriteBundle, RuncCreate, Aside, At, Late
<1>5. CASE Record(t) \/ DeleteCall(t) \/ DeleteInner(t) \/ DeleteForget(t) \/ ProcessExit(t)
  BY <1>5, Zenon DEF Record, DeleteCall, DeleteInner, DeleteForget, ProcessExit, Aside, At, Late
<1>6. CASE KillShim(t)
  BY <1>6, Zenon DEF KillShim, Aside
<1>7. CASE \E n \in Call : StartCall(t, n) \/ StartInner(t, n) \/ StartReport(t, n) \/ StartExec(t, n)
  BY <1>7, Zenon DEF StartCall, StartInner, StartReport, StartExec, Aside
<1>. QED BY <1>1, <1>2, <1>3, <1>4, <1>5, <1>6, <1>7, Zenon DEF Handlers

\* Resolving and staging accept an artifact only when nothing of it is missing.
LEMMA StageSteps ==
    ASSUME NEW t \in Task, Resolve(t) \/ StageDone(t)
    PROVE  /\ UNCHANGED in
           /\ Goto(t, "stage") \/ Goto(t, "failed") \/ (Goto(t, "prepare") /\ LateError(in[t]) = None)
<1>1. ASSUME NEW err, Resolved(t, err) PROVE Goto(t, "failed") \/ (Goto(t, "prepare") /\ err = None)
  BY <1>1, Zenon DEF Resolved, CreateFails
<1>2. CASE Resolve(t)
  <2>1. CASE EarlyError(in[t]) = None
    BY <1>1, <1>2, <2>1, Zenon DEF Resolve, CreateFails
  <2>2. CASE EarlyError(in[t]) # None
    BY <1>1, <1>2, <2>2, Zenon DEF Resolve, CreateFails
  <2>. QED BY <2>1, <2>2, Zenon
<1>3. CASE StageDone(t)
  BY <1>1, <1>3, Zenon DEF StageDone
<1>. QED BY <1>2, <1>3, Zenon

\* The handlers keep StageInv, whichever of them runs next.
LEMMA StageInductive ==
    ASSUME LedgerInv, StageInv, [ShimNext]_shimVars PROVE StageInv'
<1>i. \A t \in Task : Dir(t) \in Task
  BY InputsAssumption, Zenon DEF StageInv, Dir
<1>p. pc \in [Task -> Step]
  BY Zenon DEF LedgerInv, Shape
<1>. USE DEF StageInv, At, Goto
<1>1. CASE UNCHANGED shimVars
  BY <1>1, Zenon DEF shimVars, task
<1>2. ASSUME NEW t \in Task, Resolve(t) \/ StageDone(t) PROVE StageInv'
  <2>1. /\ UNCHANGED in
        /\ Goto(t, "stage") \/ Goto(t, "failed") \/ (Goto(t, "prepare") /\ LateError(in[t]) = None)
    BY <1>2, StageSteps, Zenon
  <2>2. writer' \in [Task -> Task \cup {Nobody}]
    BY <1>2, <1>i, Zenon DEF Resolve, StageDone, Staged
  <2>3. ASSUME NEW u \in Task, pc'[u] \in Late, ~in[u].sandbox PROVE LateError(in[u]) = None
    BY <1>p, <2>1, <2>3, Zenon DEF Late
  <2>4. \A u \in Task : pc'[u] = "pause" => in[u].sandbox
    BY <1>p, <2>1, Zenon
  <2>. QED BY <2>1, <2>2, <2>3, <2>4, Zenon
<1>3. ASSUME NEW t \in Task, Aside(t) PROVE StageInv'
  <2>1. ASSUME NEW u \in Task, pc'[u] \in Late, ~in[u].sandbox PROVE LateError(in[u]) = None
    BY <1>p, <1>3, <2>1, Zenon DEF Aside, Late
  <2>2. \A u \in Task : pc'[u] = "pause" => in[u].sandbox
    BY <1>p, <1>3, Zenon DEF Aside, Late
  <2>. QED BY <1>3, <2>1, <2>2, Zenon DEF Aside
<1>. QED BY <1>1, <1>2, <1>3, AsideSteps, Zenon DEF ShimNext

----------------------------------------------------------------------------
(* Errors, the reasons made of them and the events the exporter decodes.   *)

Reasons == {"none", "NoCompatibleJDK", "NoCompatibleLauncher", "NoCompatibleArch", "MissingArtifactReference",
            "ArtifactResolution", "OverlaySetup", "RuntimeCreate", "ProcessStart", "BundlePreparation"}

\* Reason never leaves the exporter's vocabulary, whatever the message.
LEMMA ReasonKnown == ASSUME NEW err PROVE Reason(err) \in Reasons
BY Zenon DEF Reason, Reasons

\* The reasons of the errors that the shim's own steps meet.
LEMMA ReasonOfWords ==
    /\ \A err \in SUBSET {"artifact", "manifest", "blob"} :
         err # None /\ Reason(err) \in {"ArtifactResolution", "BundlePreparation"}
    /\ Reason({"NoCompatibleJDK"}) = "NoCompatibleJDK" /\ {"NoCompatibleJDK"} # None
    /\ Reason({"NoCompatibleLauncher"}) = "NoCompatibleLauncher" /\ {"NoCompatibleLauncher"} # None
    /\ Reason({"overlay"}) = "OverlaySetup" /\ {"overlay"} # None
    /\ Reason({"no Brewlet artifact reference", "artifact"}) = "MissingArtifactReference"
    /\ {"no Brewlet artifact reference", "artifact"} # None
<1>1. \A err \in SUBSET {"artifact", "manifest", "blob"} :
         err # None /\ Reason(err) \in {"ArtifactResolution", "BundlePreparation"}
  BY Zenon DEF Reason, None
<1>2. Reason({"NoCompatibleJDK"}) = "NoCompatibleJDK" /\ {"NoCompatibleJDK"} # None
  BY Zenon DEF Reason, None
<1>3. Reason({"NoCompatibleLauncher"}) = "NoCompatibleLauncher" /\ {"NoCompatibleLauncher"} # None
  BY Zenon DEF Reason, None
<1>4. Reason({"overlay"}) = "OverlaySetup" /\ {"overlay"} # None
  BY Zenon DEF Reason, None
<1>5. /\ Reason({"no Brewlet artifact reference", "artifact"}) = "MissingArtifactReference"
      /\ {"no Brewlet artifact reference", "artifact"} # None
  BY Zenon DEF Reason, None
<1>. QED BY <1>1, <1>2, <1>3, <1>4, <1>5, Zenon

\* FirstOf reports an error of the list, if there is one.
LEMMA FirstOfIs ==
    ASSUME NEW errs, NEW k \in Nat, DOMAIN errs = 1 .. k
    PROVE  /\ FirstOf(errs) = None => \A n \in DOMAIN errs : errs[n] = None
           /\ FirstOf(errs) # None => \E n \in DOMAIN errs : FirstOf(errs) = errs[n]
<1>. DEFINE D == {n \in DOMAIN errs : errs[n] # None}
<1>1. CASE D = {}
  BY <1>1, Zenon DEF FirstOf
<1>2. CASE D # {}
  <2>1. D \subseteq Nat
    OBVIOUS
  <2>2. PICK n \in D : \A m \in D : n <= m
    <3>. HIDE DEF D
    <3>. QED BY <1>2, <2>1, LeastOf, Zenon
  <2>3. n \in DOMAIN errs /\ errs[n] # None /\ \A m \in 1 .. n - 1 : errs[m] = None
    BY <2>2
  <2>. DEFINE c == CHOOSE i \in DOMAIN errs : errs[i] # None /\ \A m \in 1 .. i - 1 : errs[m] = None
  <2>4. c \in DOMAIN errs /\ errs[c] # None
    BY <2>3, Zenon
  <2>5. FirstOf(errs) = errs[c]
    BY <1>2, Zenon DEF FirstOf
  <2>. HIDE DEF c
  <2>. QED BY <2>4, <2>5, Zenon
<1>. QED BY <1>1, <1>2, Zenon

\* What loading the artifact reports is of the artifact, and a config that is
\* not valid is reported.
LEMMA EarlyIs ==
    ASSUME NEW i
    PROVE  /\ EarlyError(i) = None => Validate(i.cfg)
           /\ EarlyError(i) # None => EarlyError(i) \in SUBSET {"artifact", "manifest", "blob"}
<1>. DEFINE W == SUBSET {"artifact", "manifest", "blob"}
            L == FirstOf(LoadErrors(i))
            C == FirstOf(ConfigErrors(i))
<1>1. DOMAIN LoadErrors(i) = 1 .. 4 /\ \A n \in 1 .. 4 : LoadErrors(i)[n] = None \/ LoadErrors(i)[n] \in W
  BY DEF LoadErrors, Check
<1>2. DOMAIN ConfigErrors(i) = 1 .. 3 /\ \A n \in 1 .. 3 : ConfigErrors(i)[n] = None \/ ConfigErrors(i)[n] \in W
  BY DEF ConfigErrors, Check
<1>3. L = None \/ L \in W
  BY <1>1, FirstOfIs, Zenon
<1>4. C = None \/ C \in W
  BY <1>2, FirstOfIs, Zenon
<1>5. C = None => Validate(i.cfg)
  <2>1. C = None => ConfigErrors(i)[2] = None
    BY <1>2, FirstOfIs
  <2>2. ConfigErrors(i)[2] = None => Validate(i.cfg)
    BY Zenon DEF ConfigErrors, Check, None
  <2>. QED BY <2>1, <2>2, Zenon
<1>. DEFINE both == <<L, C>>
<1>6. DOMAIN both = 1 .. 2 /\ both[1] = L /\ both[2] = C /\ \A n \in 1 .. 2 : n = 1 \/ n = 2
  OBVIOUS
<1>7. EarlyError(i) = FirstOf(both)
  BY Zenon DEF EarlyError
<1>8. /\ EarlyError(i) = None => C = None
      /\ EarlyError(i) # None => EarlyError(i) = L \/ EarlyError(i) = C
  <2>. HIDE DEF L, C, both
  <2>1. /\ EarlyError(i) = None => \A n \in 1 .. 2 : both[n] = None
        /\ EarlyError(i) # None => \E n \in 1 .. 2 : EarlyError(i) = both[n]
    BY <1>6, <1>7, FirstOfIs, Zenon
  <2>. QED BY <1>6, <2>1
<1>. QED BY <1>3, <1>4, <1>5, <1>8, Zenon

\* The later errors blame the JDK or the launcher only if the node lacks it.
LEMMA LateIs ==
    ASSUME NEW i, LateError(i) # None
    PROVE  \/ LateError(i) \in SUBSET {"artifact", "manifest", "blob"}
           \/ LateError(i) = {"NoCompatibleJDK"} /\ selectJDK(Node, i.jdk) = {}
           \/ LateError(i) = {"NoCompatibleLauncher"} /\ ~selectLauncher(Node, i.launcher)
<1>. DEFINE W == SUBSET {"artifact", "manifest", "blob"}
            F == FirstOf(FileErrors(i))
            errs == <<F, Check(selectJDK(Node, i.jdk) # {}, {"NoCompatibleJDK"}),
                      Check(selectLauncher(Node, i.launcher), {"NoCompatibleLauncher"})>>
<1>0. F = None \/ F \in W
  <2>1. DOMAIN FileErrors(i) = 1 .. 3 /\ \A n \in 1 .. 3 : FileErrors(i)[n] = None \/ FileErrors(i)[n] \in W
    BY DEF FileErrors, Check
  <2>. QED BY <2>1, FirstOfIs, Zenon
<1>1. DOMAIN errs = 1 .. 3
  OBVIOUS
<1>2. LateError(i) = FirstOf(errs)
  BY Zenon DEF LateError
<1>3. PICK n \in 1 .. 3 : LateError(i) = errs[n]
  <2>. HIDE DEF errs
  <2>. QED BY <1>1, <1>2, FirstOfIs, Zenon
<1>4. n = 1 \/ n = 2 \/ n = 3
  OBVIOUS
<1>. HIDE DEF F
<1>. QED BY <1>0, <1>3, <1>4 DEF Check

\* A runnable image without the archive that its config names is refused.
LEMMA LateArchive ==
    ASSUME NEW i, LateError(i) = None, i.format = "image" PROVE i.cfg.cds = "none" \/ i.archive
<1>. DEFINE files == FileErrors(i)
            F == FirstOf(files)
            errs == <<F, Check(selectJDK(Node, i.jdk) # {}, {"NoCompatibleJDK"}),
                      Check(selectLauncher(Node, i.launcher), {"NoCompatibleLauncher"})>>
<1>1. /\ DOMAIN errs = 1 .. 3 /\ 1 \in 1 .. 3 /\ errs[1] = F
      /\ DOMAIN files = 1 .. 3 /\ 2 \in 1 .. 3
      /\ files[2] = Check(i.format = "image" /\ i.cfg.cds # "none" => i.archive, {})
  BY DEF FileErrors
<1>2. FirstOf(errs) = None
  BY Zenon DEF LateError
<1>3. files[2] = None
  <2>. HIDE DEF errs, files
  <2>. QED BY <1>1, <1>2, FirstOfIs, Zenon
<1>. QED BY <1>1, <1>3 DEF Check, None

\* An event that decodes, or the resolution through a backend that does not exist.
Clear(e) == Decode(e) \/ (e.kind = "artifact_resolution" /\ e.backend \notin {"layout", "containerd"})

\* The event of a phase decodes.
LEMMA PhaseClear ==
    ASSUME NEW err,
           NEW name \in {"artifact_resolve", "bundle_prepare", "overlay_setup", "runc_create", "process_start"}
    PROVE  Clear(Phase(name, err))
BY Zenon DEF Clear, Phase, Decode, Outcome

\* The event of a resolution decodes, or names a backend that does not exist.
LEMMA ResolutionClear ==
    ASSUME NEW t \in Task, in[t].format \in {"native", "image"}, NEW err PROVE Clear(Resolution(t, err))
BY Zenon DEF Clear, Resolution, Decode, Outcome

\* The event of a launch decodes whenever the config that it describes is valid.
LEMMA LaunchClear ==
    ASSUME NEW t \in Task, in[t].format \in {"native", "image"}, NEW err,
           NEW reason \in {"", "RuntimeCreate", "ProcessStart"}, NEW known, known => Validate(in[t].cfg)
    PROVE  Clear(Launch(t, err, reason, known))
<1>. DEFINE e == Launch(t, err, reason, known)
<1>1. e.kind = "launch" /\ e.outcome \in {"success", "error"} /\ e.format \in {"native", "image", "unknown"}
  BY Zenon DEF Launch, Outcome
<1>2. e.reason \in Reasons
  BY ReasonKnown, Zenon DEF Launch, Reasons
<1>3. known => in[t].cfg.mode \in {"", "jar", "classpath", "module"}
  BY Zenon DEF Validate, ModeOwns
<1>4. e.entryMode \in {"jar", "classpath", "module", "unknown"}
  BY <1>3, Zenon DEF Launch
<1>5. Decode(e)
  <2>. HIDE DEF e
  <2>. QED BY <1>1, <1>2, <1>4, Zenon DEF Decode, Reasons
<1>. QED BY <1>5, Zenon DEF Clear

----------------------------------------------------------------------------
(* Blame and events.                                                       *)

\* What BlameIsTrue asks of the reason r of a failed launch of input i.
Blames(i, r) ==
    /\ r = "NoCompatibleJDK" => selectJDK(Node, i.jdk) = {}
    /\ r = "NoCompatibleLauncher" => i.launcher \notin Node.launchers
    /\ (r = "MissingArtifactReference") = (i.ref = "")
    /\ EarlyError(i) # None => r \in {"MissingArtifactReference", "ArtifactResolution", "BundlePreparation"}

\* Past its resolution an artifact is known to have a reference and a valid
\* config; so is that of a launch that waits for its Start.
Passed == Creating \ {"resolve"}
TellInv ==
    /\ \A t \in Task : pc[t] \in Passed \/ t \in pending => in[t].ref # "" /\ EarlyError(in[t]) = None
    /\ \A t \in Task : At(t, "failed") =>
         reports[t][1].outcome = "error" /\ Blames(in[t], reports[t][1].reason)
    /\ EventsDecode

ShimInv == LedgerInv /\ StageInv /\ TellInv

\* Events that decode leave the exporter with events that decode.
LEMMA Observed ==
    ASSUME EventsDecode, NEW S, Observe(S), \A e \in S : Clear(e) PROVE EventsDecode'
BY Zenon DEF EventsDecode, Observe, Clear

\* A Create that fails for a cause that it blames rightly.
FailsFor(t, err, reason, known, phases) ==
    /\ CreateFails(t, err, reason, known, phases) /\ pc[t] \in Creating
    /\ err # None /\ reason \in {"", "RuntimeCreate"}
    /\ Blames(in[t], IF reason = "" THEN Reason(err) ELSE reason)
    /\ known => Validate(in[t].cfg)
    /\ \A e \in phases : Clear(e)
    /\ UNCHANGED <<in, pending>>

\* A Create that fails for a cause that it blames rightly keeps TellInv.
LEMMA FailureTold ==
    ASSUME ShimInv, NEW t \in Task, NEW err, NEW reason, NEW known, NEW phases,
           FailsFor(t, err, reason, known, phases)
    PROVE  TellInv'
<1>1. in \in Inputs /\ in[t].format \in {"native", "image"}
  BY InputsAssumption, Zenon DEF ShimInv, StageInv
<1>2. Clear(Launch(t, err, reason, known))
  BY <1>1, LaunchClear, Zenon DEF FailsFor
<1>3. EventsDecode'
  BY <1>2, Observed, Zenon DEF FailsFor, CreateFails, Report, ShimInv, TellInv
<1>. DEFINE r == [outcome |-> Launch(t, err, reason, known).outcome, reason |-> Launch(t, err, reason, known).reason]
<1>4. reports[t] = <<>> /\ reports = [u \in Task |-> reports[u]]
  BY Zenon DEF FailsFor, ShimInv, LedgerInv, Shape, OpenUnreported
<1>5. reports' = [reports EXCEPT ![t] = Append(reports[t], r)]
  BY Zenon DEF FailsFor, CreateFails, Report
<1>6. reports'[t] = Append(<<>>, r) /\ \A u \in Task \ {t} : reports'[u] = reports[u]
  BY <1>4, <1>5, Zenon
<1>7. reports'[t][1] = r
  BY <1>6
<1>8. r.outcome = "error" /\ r.reason = IF reason = "" THEN Reason(err) ELSE reason
  BY Zenon DEF FailsFor, Launch, Outcome
<1>9. pc' = [pc EXCEPT ![t] = "failed"] /\ UNCHANGED <<in, pending>>
  BY Zenon DEF FailsFor, CreateFails, Goto
<1>. HIDE DEF r
<1>10. reports'[t][1].outcome = "error" /\ Blames(in[t], reports'[t][1].reason)
  BY <1>7, <1>8, Zenon DEF FailsFor
<1>11. pc'[t] = "failed" /\ \A u \in Task \ {t} : pc'[u] = pc[u]
  BY <1>9, Zenon DEF ShimInv, LedgerInv, Shape
<1>12. ASSUME NEW u \in Task, pc'[u] \in Passed \/ u \in pending'
       PROVE  in'[u].ref # "" /\ EarlyError(in'[u]) = None
  BY <1>9, <1>11, <1>12, Zenon DEF ShimInv, TellInv, Passed, Creating
<1>13. ASSUME NEW u \in Task, pc'[u] = "failed"
       PROVE  reports'[u][1].outcome = "error" /\ Blames(in'[u], reports'[u][1].reason)
  BY <1>6, <1>9, <1>10, <1>11, <1>13, Zenon DEF ShimInv, TellInv, At
<1>. QED BY <1>3, <1>12, <1>13, Zenon DEF TellInv, At, Blames

\* A step that reports nothing of a failure: what it says decodes.
Tells(t) ==
    /\ UNCHANGED in
    /\ UNCHANGED bad \/ \E S : Observe(S) /\ \A e \in S : Clear(e)
    /\ reports' = [u \in Task |-> IF u = t THEN reports'[t] ELSE reports[u]]
    /\ reports'[t] = reports[t] \/ pc'[t] # "failed"
    /\ pending' \subseteq pending \cup (IF At(t, "record") THEN {t} ELSE {})
    /\ \/ UNCHANGED pc
       \/ \E s \in Step \ {"failed"} : Goto(t, s) /\ (s \in Passed => in[t].ref # "" /\ EarlyError(in[t]) = None)

\* So does a handler that tells no new failure.
LEMMA TellsKept ==
    ASSUME ShimInv, NEW t \in Task, Tells(t) PROVE TellInv'
<1>1. EventsDecode'
  BY Observed, Zenon DEF Tells, ShimInv, TellInv, EventsDecode
<1>2. pc \in [Task -> Step]
  BY Zenon DEF ShimInv, LedgerInv, Shape
<1>3. UNCHANGED in /\ \A u \in Task \ {t} : reports'[u] = reports[u] /\ pc'[u] = pc[u]
  BY <1>2, Zenon DEF Tells, Goto
<1>4. ASSUME NEW u \in Task, pc'[u] \in Passed \/ u \in pending'
      PROVE  in[u].ref # "" /\ EarlyError(in[u]) = None
  BY <1>2, <1>3, <1>4, Zenon DEF Tells, Goto, At, Passed, Creating, ShimInv, TellInv
<1>5. ASSUME NEW u \in Task, pc'[u] = "failed"
      PROVE  reports'[u] = reports[u] /\ pc[u] = "failed"
  BY <1>2, <1>3, <1>5, Zenon DEF Tells, Goto
<1>6. ASSUME NEW u \in Task, pc'[u] = "failed"
      PROVE  reports'[u][1].outcome = "error" /\ Blames(in'[u], reports'[u][1].reason)
  BY <1>3, <1>5, <1>6, Zenon DEF ShimInv, TellInv, At
<1>. QED BY <1>1, <1>3, <1>4, <1>6, Zenon DEF TellInv, At, Blames

\* The handlers keep TellInv, whichever of them runs next.
LEMMA TellInductive ==
    ASSUME ShimInv, [ShimNext]_shimVars PROVE TellInv'
<1>0. /\ in \in Inputs /\ \A t \in Task : in[t].format \in {"native", "image"}
      /\ pc \in [Task -> Step] /\ reports = [u \in Task |-> reports[u]]
      /\ \A t \in Task : pc[t] \in Passed \/ t \in pending =>
            in[t].ref # "" /\ EarlyError(in[t]) = None /\ Validate(in[t].cfg)
  BY InputsAssumption, EarlyIs, Zenon DEF ShimInv, StageInv, LedgerInv, Shape, TellInv
<1>1. CASE UNCHANGED shimVars
  BY <1>1, Zenon DEF shimVars, task, history, ShimInv, TellInv, EventsDecode, Blames, At
<1>2. ASSUME NEW t \in Task, NEW w \in {{}, {"blob"}, {"overlay"}}, pc[t] \in Passed
      PROVE  w # None /\ Blames(in[t], Reason(w)) /\ Blames(in[t], "RuntimeCreate")
  BY <1>0, <1>2, ReasonOfWords, Zenon DEF Blames
<1>3. ASSUME NEW t \in Task, pc[t] \in Creating, UNCHANGED <<in, pending>>, NEW err, Resolved(t, err), in[t].ref # "",
             err = None => EarlyError(in[t]) = None, err # None => Blames(in[t], Reason(err))
      PROVE  TellInv'
  <2>. DEFINE S == {Resolution(t, err), Phase("artifact_resolve", err)}
  <2>1. \A e \in S : Clear(e)
    BY <1>0, PhaseClear, ResolutionClear, Zenon
  <2>. HIDE DEF S
  <2>2. CASE err = None
    <3>1. Goto(t, "prepare") /\ Observe(S) /\ UNCHANGED reports
      BY <1>3, <2>2, Zenon DEF Resolved, S
    <3>2. Tells(t)
      BY <1>0, <1>3, <2>1, <2>2, <3>1, Zenon DEF Tells, Step
    <3>. QED BY <3>2, TellsKept, Zenon
  <2>3. CASE err # None
    <3>1. CreateFails(t, err, "", FALSE, S)
      BY <1>3, <2>3, Zenon DEF Resolved, S
    <3>2. FailsFor(t, err, "", FALSE, S)
      BY <1>3, <2>1, <2>3, <3>1, Zenon DEF FailsFor
    <3>. QED BY <3>2, FailureTold, Zenon
  <2>. QED BY <2>2, <2>3, Zenon
<1>4. ASSUME NEW t \in Task, Resolve(t) PROVE TellInv'
  <2>0. pc[t] = "resolve" /\ pc[t] \in Creating /\ UNCHANGED <<in, pending>>
    BY <1>4, Zenon DEF Resolve, At, Creating
  <2>. DEFINE err == EarlyError(in[t])
              late == LateError(in[t])
              missing == {"no Brewlet artifact reference", "artifact"}
  <2>1. CASE in[t].ref = ""
    <3>1. CreateFails(t, missing, "", FALSE, {})
      BY <1>4, <2>1, Zenon DEF Resolve
    <3>2. Blames(in[t], Reason(missing)) /\ missing # None
      BY <2>1, ReasonOfWords, Zenon DEF Blames
    <3>3. FailsFor(t, missing, "", FALSE, {})
      BY <2>0, <3>1, <3>2, Zenon DEF FailsFor
    <3>. QED BY <3>3, FailureTold, Zenon
  <2>2. CASE in[t].ref # "" /\ err = None /\ in[t].format = "image"
    <3>1. Goto(t, "stage") /\ UNCHANGED <<reports, bad>>
      BY <1>4, <2>2, Zenon DEF Resolve
    <3>2. Tells(t)
      BY <1>0, <2>0, <2>2, <3>1, Zenon DEF Tells, Step
    <3>. QED BY <3>2, TellsKept, Zenon
  <2>3. CASE in[t].ref # "" /\ err # None
    <3>1. Resolved(t, err)
      BY <1>4, <2>3, Zenon DEF Resolve
    <3>2. Blames(in[t], Reason(err))
      BY <2>3, EarlyIs, ReasonOfWords, Zenon DEF Blames
    <3>. QED BY <1>3, <2>0, <2>3, <3>1, <3>2, Zenon
  <2>4. CASE in[t].ref # "" /\ err = None /\ in[t].format # "image"
    <3>1. Resolved(t, late)
      BY <1>4, <2>4, Zenon DEF Resolve
    <3>2. late # None => Blames(in[t], Reason(late))
      BY <2>4, LateIs, ReasonOfWords, Zenon DEF Blames, selectLauncher
    <3>. QED BY <1>3, <2>0, <2>4, <3>1, <3>2, Zenon
  <2>. QED BY <2>1, <2>2, <2>3, <2>4, Zenon
<1>5. ASSUME NEW t \in Task, StageDone(t) \/ StageFails(t) PROVE TellInv'
  <2>0. pc[t] \in Creating /\ UNCHANGED <<in, pending>> /\ in[t].ref # "" /\ EarlyError(in[t]) = None
    BY <1>0, <1>5, Zenon DEF StageDone, StageFails, At, Creating, Passed
  <2>1. CASE StageDone(t)
    <3>1. Resolved(t, LateError(in[t]))
      BY <2>1, Zenon DEF StageDone
    <3>2. LateError(in[t]) # None => Blames(in[t], Reason(LateError(in[t])))
      BY <2>0, LateIs, ReasonOfWords, Zenon DEF Blames, selectLauncher
    <3>. QED BY <1>3, <2>0, <3>1, <3>2, Zenon
  <2>2. CASE StageFails(t)
    <3>1. PICK w \in {{}, {"blob"}} : Resolved(t, w)
      BY <2>2, Zenon DEF StageFails
    <3>2. w # None /\ Blames(in[t], Reason(w))
      BY <2>0, ReasonOfWords, Zenon DEF Blames
    <3>. QED BY <1>3, <2>0, <3>1, <3>2, Zenon
  <2>. QED BY <1>5, <2>1, <2>2, Zenon
<1>6. ASSUME NEW t \in Task, Prepare(t) PROVE TellInv'
  <2>0. At(t, "prepare") /\ pc[t] \in Passed /\ pc[t] \in Creating /\ UNCHANGED <<in, pending>>
    BY <1>6, Zenon DEF Prepare, At, Passed, Creating
  <2>1. PICK r \in Role :
          LET cds == IF Keyed(in[t]) THEN {[kind |-> "cds", role |-> r]} ELSE {} IN
          \/ Goto(t, "overlay") /\ Observe(cds) /\ UNCHANGED reports
          \/ \E w \in ReadError(t) : CreateFails(t, w, "", TRUE, {Phase("bundle_prepare", w)} \cup cds)
    BY <1>6, Zenon DEF Prepare, Role
  <2>. DEFINE cds == IF Keyed(in[t]) THEN {[kind |-> "cds", role |-> r]} ELSE {}
  <2>2. \A e \in cds : Clear(e)
    BY DEF Clear, Decode, Role
  <2>3. CASE Goto(t, "overlay") /\ Observe(cds) /\ UNCHANGED reports
    <3>. HIDE DEF cds
    <3>1. Tells(t)
      BY <1>0, <2>0, <2>2, <2>3, Zenon DEF Tells, Step
    <3>. QED BY <3>1, TellsKept, Zenon
  <2>4. CASE \E w \in ReadError(t) : CreateFails(t, w, "", TRUE, {Phase("bundle_prepare", w)} \cup cds)
    <3>. HIDE DEF cds
    <3>1. PICK w \in {{}, {"blob"}, {"overlay"}} : CreateFails(t, w, "", TRUE, {Phase("bundle_prepare", w)} \cup cds)
      BY <2>4, Zenon DEF ReadError
    <3>2. \A e \in {Phase("bundle_prepare", w)} \cup cds : Clear(e)
      BY <2>2, PhaseClear, Zenon
    <3>3. w # None /\ Blames(in[t], Reason(w))
      BY <1>2, <2>0, Zenon
    <3>4. FailsFor(t, w, "", TRUE, {Phase("bundle_prepare", w)} \cup cds)
      BY <1>0, <2>0, <3>1, <3>2, <3>3, Zenon DEF FailsFor
    <3>. QED BY <3>4, FailureTold, Zenon
  <2>. QED BY <2>1, <2>3, <2>4, Zenon
<1>7. ASSUME NEW t \in Task, pc[t] \in Passed, UNCHANGED <<in, pending>>,
             NEW s \in Passed \cup {"created"},
             NEW name \in {"bundle_prepare", "overlay_setup", "runc_create"},
             NEW w \in {{}, {"overlay"}}, NEW reason \in {"", "RuntimeCreate"},
             \/ Goto(t, s) /\ Observe({Phase(name, None)}) /\ UNCHANGED reports
             \/ CreateFails(t, w, reason, TRUE, {Phase(name, {})})
      PROVE  TellInv'
  <2>0. pc[t] \in Creating
    BY <1>7, Zenon DEF Passed
  <2>1. CASE Goto(t, s) /\ Observe({Phase(name, None)}) /\ UNCHANGED reports
    <3>. DEFINE S == {Phase(name, None)}
    <3>1. Observe(S) /\ \A e \in S : Clear(e)
      BY <2>1, PhaseClear, Zenon
    <3>. HIDE DEF S
    <3>2. s \in Step \ {"failed"}
      BY Zenon DEF Step, Passed, Creating
    <3>3. Tells(t)
      BY <1>0, <1>7, <2>1, <3>1, <3>2, Zenon DEF Tells
    <3>. QED BY <3>3, TellsKept, Zenon
  <2>2. CASE CreateFails(t, w, reason, TRUE, {Phase(name, {})})
    <3>1. \A e \in {Phase(name, {})} : Clear(e)
      BY PhaseClear, Zenon
    <3>2. w # None /\ Blames(in[t], IF reason = "" THEN Reason(w) ELSE reason)
      BY <1>2, <1>7, Zenon
    <3>3. FailsFor(t, w, reason, TRUE, {Phase(name, {})})
      BY <1>0, <1>7, <2>0, <2>2, <3>1, <3>2, Zenon DEF FailsFor
    <3>. QED BY <3>3, FailureTold, Zenon
  <2>. QED BY <1>7, <2>1, <2>2, Zenon
<1>8. ASSUME NEW t \in Task, Overlay(t) \/ WriteBundle(t) \/ RuncCreate(t) PROVE TellInv'
  <2>0. pc[t] \in Passed /\ UNCHANGED <<in, pending>>
    BY <1>8, Zenon DEF Overlay, WriteBundle, RuncCreate, At, Passed, Creating
  <2>1. CASE Overlay(t)
    <3>1. \/ Goto(t, "layers") /\ Observe({Phase("overlay_setup", None)}) /\ UNCHANGED reports
          \/ CreateFails(t, {"overlay"}, "", TRUE, {Phase("overlay_setup", {})})
      BY <2>1, Zenon DEF Overlay
    <3>. QED BY <1>7, <2>0, <3>1, Zenon DEF Passed, Creating
  <2>2. CASE WriteBundle(t)
    <3>1. \/ Goto(t, "runc") /\ Observe({Phase("bundle_prepare", None)}) /\ UNCHANGED reports
          \/ CreateFails(t, {}, "", TRUE, {Phase("bundle_prepare", {})})
      BY <2>2, Zenon DEF WriteBundle
    <3>. QED BY <1>7, <2>0, <3>1, Zenon DEF Passed, Creating
  <2>3. CASE RuncCreate(t)
    <3>1. \/ Goto(t, "record") /\ Observe({Phase("runc_create", None)}) /\ UNCHANGED reports
          \/ CreateFails(t, {}, "RuntimeCreate", TRUE, {Phase("runc_create", {})})
      BY <2>3, Zenon DEF RuncCreate
    <3>. QED BY <1>7, <2>0, <3>1, Zenon DEF Passed, Creating
  <2>. QED BY <1>8, <2>1, <2>2, <2>3, Zenon
<1>s. \A s \in {"pause", "resolve", "created", "none"} : s \in Step \ {"failed"} /\ s \notin Passed
  BY Zenon DEF Step, Passed, Creating
<1>9. ASSUME NEW t \in Task, CreateCall(t) PROVE TellInv'
  <2>0. UNCHANGED <<in, pending, bad>>
    BY <1>9, Zenon DEF CreateCall
  <2>1. \/ UNCHANGED <<pc, reports>>
        \/ /\ Goto(t, "pause") \/ Goto(t, "resolve")
           /\ reports' = [reports EXCEPT ![t] = <<>>]
    BY <1>9, Zenon DEF CreateCall
  <2>2. CASE UNCHANGED <<pc, reports>>
    <3>1. Tells(t)
      BY <1>0, <2>0, <2>2, Zenon DEF Tells
    <3>. QED BY <3>1, TellsKept, Zenon
  <2>3. ASSUME NEW s \in {"pause", "resolve"}, Goto(t, s), reports' = [reports EXCEPT ![t] = <<>>]
        PROVE  TellInv'
    <3>1. pc'[t] # "failed"
      BY <1>0, <2>3, Zenon DEF Goto
    <3>2. reports' = [u \in Task |-> IF u = t THEN reports'[t] ELSE reports[u]]
      BY <1>0, <2>3, Zenon
    <3>3. Tells(t)
      BY <1>s, <2>0, <2>3, <3>1, <3>2, Zenon DEF Tells
    <3>. QED BY <3>3, TellsKept, Zenon
  <2>. QED BY <2>1, <2>2, <2>3, Zenon
<1>10. ASSUME NEW t \in Task,
              \/ CreatePause(t) \/ Record(t) \/ DeleteCall(t) \/ DeleteInner(t) \/ DeleteForget(t)
              \/ ProcessExit(t) \/ KillShim(t)
       PROVE  TellInv'
  <2>1. UNCHANGED <<in, reports, bad>> /\ pending' \subseteq pending \cup (IF At(t, "record") THEN {t} ELSE {})
    BY <1>10, Zenon DEF CreatePause, Record, DeleteCall, DeleteInner, DeleteForget, ProcessExit, KillShim, history
  <2>2. UNCHANGED pc \/ Goto(t, "created") \/ Goto(t, "none")
    BY <1>10, Zenon DEF CreatePause, Record, DeleteCall, DeleteInner, DeleteForget, ProcessExit, KillShim
  <2>3. Tells(t)
    BY <1>0, <1>s, <2>1, <2>2, Zenon DEF Tells
  <2>. QED BY <2>3, TellsKept, Zenon
<1>11. ASSUME NEW t \in Task, NEW n \in Call, StartCall(t, n) \/ StartInner(t, n) \/ StartExec(t, n)
       PROVE  TellInv'
  <2>1. Tells(t)
    BY <1>0, <1>11, Zenon DEF StartCall, StartInner, StartExec, Tells, history
  <2>. QED BY <2>1, TellsKept, Zenon
<1>12. ASSUME NEW t \in Task, NEW n \in Call, StartReport(t, n) PROVE TellInv'
  <2>0. UNCHANGED <<in, pc>> /\ pending' = pending \ {t} /\ pc[t] # "failed"
    BY <1>12, Zenon DEF StartReport, ShimInv, LedgerInv, OpenUnreported
  <2>1. CASE t \in pending
    <3>. DEFINE err == IF start[t][n] = "ok" THEN None ELSE {}
                why == IF err = None THEN "" ELSE "ProcessStart"
                e == Launch(t, err, why, TRUE)
                S == {Phase("process_start", err)} \cup {e}
    <3>1. Clear(e) /\ Clear(Phase("process_start", err))
      BY <1>0, <2>1, LaunchClear, PhaseClear, Zenon
    <3>2. Observe(S) /\ reports' = [reports EXCEPT ![t] = Append(@, [outcome |-> e.outcome, reason |-> e.reason])]
      BY <1>12, <2>1, Zenon DEF StartReport, Report
    <3>3. reports' = [u \in Task |-> IF u = t THEN reports'[t] ELSE reports[u]]
      BY <1>0, <3>2, Zenon
    <3>4. \A x \in S : Clear(x)
      BY <3>1, Zenon
    <3>. HIDE DEF S
    <3>5. Tells(t)
      BY <2>0, <3>2, <3>3, <3>4, Zenon DEF Tells
    <3>. QED BY <3>5, TellsKept, Zenon
  <2>2. CASE t \notin pending
    <3>1. Tells(t)
      BY <1>0, <1>12, <2>0, <2>2, Zenon DEF StartReport, Tells
    <3>. QED BY <3>1, TellsKept, Zenon
  <2>. QED BY <2>1, <2>2, Zenon
<1>. QED BY <1>1, <1>4, <1>5, <1>6, <1>8, <1>9, <1>10, <1>11, <1>12, Zenon DEF ShimNext, Handlers

----------------------------------------------------------------------------
(* What is reported of a launch.                                           *)

Flying(t) == {n \in Call : start[t][n] \in {"call", "ok", "error"}}

\* The task of runc's service and the call that deletes it, of any task.
Served(t) ==
    /\ inner[t] # "absent" => pc[t] \in {"record", "created"}
    /\ del[t] = "call" => inner[t] # "absent"
    /\ del[t] = "forget" => inner[t] = "absent" /\ pc[t] \in {"record", "none"}
    /\ pc[t] \in Creating \cup {"pause", "failed"} => t \notin ran

\* Without an overlap a Start has the task for itself. A launch that is not
\* reported yet waits in pending, and its process runs as its Start found it.
Alive(t) ==
    /\ Flying(t) # {} => pc[t] = "created" /\ del[t] = "idle" /\ \A m, n \in Flying(t) : m = n
    /\ \A n \in Call : start[t][n] \in {"ok", "error"} => inner[t] # "created"
    /\ pc[t] = "created" /\ ~in[t].sandbox /\ reports[t] = <<>> =>
         t \in pending /\ (t \in ran <=> \E n \in Call : start[t][n] = "ok")
    /\ pc[t] = "created" /\ inner[t] = "created" => reports[t] = <<>>
    /\ reports[t] # <<>> => (reports[t][1].outcome = "success") = (t \in ran)

TruthTypes ==
    /\ inner \in [Task -> {"absent", "created", "running", "stopped"}]
    /\ del \in [Task -> {"idle", "call", "forget"}]
TruthInv ==
    /\ TruthTypes
    /\ \A t \in Task : Served(t)
    /\ \A t \in Task \ overlap : Alive(t)

\* A handler leaves the other tasks alone.
LEMMA HandlerApart ==
    ASSUME TruthTypes, NEW t \in Task, Handlers(t)
    PROVE  /\ TruthTypes'
           /\ \A u \in Task \ {t} : /\ inner'[u] = inner[u] /\ del'[u] = del[u]
                                    /\ (u \in ran' <=> u \in ran) /\ (u \in overlap' <=> u \in overlap)
<1>. USE DEF TruthTypes
<1>1. CASE CreateCall(t)
  BY <1>1, Zenon DEF CreateCall
<1>2. CASE CreatePause(t) \/ Record(t)
  BY <1>2, Zenon DEF CreatePause, Record, history
<1>3. CASE Resolve(t) \/ StageDone(t) \/ StageFails(t)
  BY <1>3, Zenon DEF Resolve, StageDone, StageFails
<1>4. CASE Prepare(t) \/ Overlay(t) \/ WriteBundle(t)
  BY <1>4, Zenon DEF Prepare, Overlay, WriteBundle
<1>5. CASE RuncCreate(t)
  BY <1>5, Zenon DEF RuncCreate
<1>6. CASE DeleteCall(t)
  BY <1>6, Zenon DEF DeleteCall
<1>7. CASE DeleteInner(t) \/ DeleteForget(t) \/ ProcessExit(t) \/ KillShim(t)
  BY <1>7, Zenon DEF DeleteInner, DeleteForget, ProcessExit, KillShim, history
<1>8. CASE \E n \in Call : StartCall(t, n) \/ StartInner(t, n)
  BY <1>8, Zenon DEF StartCall, StartInner
<1>9. CASE \E n \in Call : StartReport(t, n) \/ StartExec(t, n)
  BY <1>9, Zenon DEF StartReport, StartExec, history
<1>. QED BY <1>1, <1>2, <1>3, <1>4, <1>5, <1>6, <1>7, <1>8, <1>9, Zenon DEF Handlers

\* The steps of a Create up to runc's, which may fail.
Works(t) ==
    /\ pc[t] \in Creating \ {"record"} /\ UNCHANGED <<in, inner, pending, start, del, ran, overlap>>
    /\ Goto(t, "failed") \/ \E s \in Creating \ {"record"} : Goto(t, s) /\ UNCHANGED reports

\* The steps of a Create up to runc's are of that kind.
LEMMA WorkSteps ==
    ASSUME NEW t \in Task,
           \/ Resolve(t) \/ StageDone(t) \/ StageFails(t) \/ Prepare(t) \/ Overlay(t) \/ WriteBundle(t)
           \/ RuncCreate(t)
    PROVE  Works(t) \/ (RuncCreate(t) /\ Goto(t, "record") /\ UNCHANGED reports)
<1>. USE DEF Works, At, Creating
<1>c. ASSUME NEW err, NEW reason, NEW known, NEW phases, CreateFails(t, err, reason, known, phases)
      PROVE  Goto(t, "failed")
  BY <1>c, Zenon DEF CreateFails
<1>r. ASSUME NEW err, Resolved(t, err) PROVE Goto(t, "failed") \/ (Goto(t, "prepare") /\ UNCHANGED reports)
  BY <1>r, <1>c, Zenon DEF Resolved
<1>1. CASE Resolve(t)
  BY <1>1, <1>c, <1>r, Zenon DEF Resolve
<1>2. CASE StageDone(t) \/ StageFails(t)
  BY <1>2, <1>r, Zenon DEF StageDone, StageFails
<1>3. CASE Prepare(t)
  BY <1>3, <1>c, Zenon DEF Prepare
<1>4. CASE Overlay(t) \/ WriteBundle(t)
  BY <1>4, <1>c, Zenon DEF Overlay, WriteBundle
<1>5. CASE RuncCreate(t)
  BY <1>5, <1>c, Zenon DEF RuncCreate
<1>. QED BY <1>1, <1>2, <1>3, <1>4, <1>5, Zenon

\* The handlers keep TruthInv, whichever of them runs next.
LEMMA TruthInductive ==
    ASSUME ShimInv, TruthInv, [ShimNext]_shimVars PROVE TruthInv'
<1>0. /\ LedgerInv /\ LedgerInv' /\ TellInv'
      /\ pc \in [Task -> Step] /\ pending \subseteq Task /\ reports = [u \in Task |-> reports[u]]
      /\ start \in [Task -> [Call -> {"idle", "call", "ok", "error", "exec"}]]
  BY LedgerInductive, TellInductive, Zenon DEF ShimInv, LedgerInv, Shape
<1>1. CASE UNCHANGED shimVars
  BY <1>1 DEF shimVars, task, history, TruthInv, TruthTypes, Served, Alive, Flying
<1>2. ASSUME NEW t \in Task, Handlers(t), Served(t)', t \notin overlap' => Alive(t)' PROVE TruthInv'
  <2>1. TruthTypes' /\ \A u \in Task \ {t} : /\ inner'[u] = inner[u] /\ del'[u] = del[u]
                           /\ (u \in ran' <=> u \in ran) /\ (u \in overlap' <=> u \in overlap)
    BY <1>2, HandlerApart, Zenon DEF TruthInv
  <2>2. /\ UNCHANGED in
        /\ \A u \in Task \ {t} : /\ pc'[u] = pc[u] /\ start'[u] = start[u] /\ reports'[u] = reports[u]
                                 /\ u \in pending' <=> u \in pending
    BY <1>0, <1>2, HandlerEffect, OthersKept, Zenon DEF Effect
  <2>3. ASSUME NEW u \in Task \ {t} PROVE Served(u)' /\ (u \notin overlap' => Alive(u)')
    BY <2>1, <2>2 DEF TruthInv, Served, Alive, Flying
  <2>. QED BY <1>2, <2>1, <2>3, Zenon DEF TruthInv
<1>. USE DEF TruthInv, TruthTypes, Goto, At
<1>3. ASSUME NEW t \in Task, Works(t) PROVE Served(t)' /\ (t \notin overlap' => Alive(t)')
  <2>0. OpenUnreported(t) /\ Flying(t) = {}
    BY <1>0, <1>3, Zenon DEF LedgerInv, OpenUnreported, Works, Flying
  <2>1. CASE pc' = [pc EXCEPT ![t] = "failed"]
    <3>1. reports'[t][1].outcome = "error"
      BY <1>0, <2>1, Zenon DEF TellInv
    <3>. QED BY <1>0, <1>3, <2>0, <2>1, <3>1 DEF Works, Served, Alive, Flying, OpenUnreported, Creating
  <2>2. CASE \E s \in Creating \ {"record"} : Goto(t, s) /\ UNCHANGED reports
    BY <1>0, <1>3, <2>0, <2>2 DEF Works, Served, Alive, Flying, OpenUnreported, Creating
  <2>. QED BY <1>3, <2>1, <2>2, Zenon DEF Works
<1>4. ASSUME NEW t \in Task, RuncCreate(t), Goto(t, "record"), UNCHANGED reports
      PROVE  Served(t)' /\ (t \notin overlap' => Alive(t)')
  <2>1. inner' = [inner EXCEPT ![t] = "created"] \/ UNCHANGED inner
    BY <1>4, Zenon DEF RuncCreate
  <2>2. pc[t] = "runc" /\ UNCHANGED <<in, pending, start, del, ran, overlap>>
    BY <1>4, Zenon DEF RuncCreate
  <2>. QED BY <1>0, <1>4, <2>1, <2>2 DEF Served, Alive, Flying, LedgerInv, OpenUnreported, Creating
<1>5. ASSUME NEW t \in Task, CreateCall(t) PROVE Served(t)' /\ (t \notin overlap' => Alive(t)')
  BY <1>0, <1>5 DEF CreateCall, Busy, Served, Alive, Flying, LedgerInv, OpenUnreported, Creating
<1>6. ASSUME NEW t \in Task, CreatePause(t) PROVE Served(t)' /\ (t \notin overlap' => Alive(t)')
  <2>1. in[t].sandbox /\ UNCHANGED <<in, pending, start, del, reports, ran, overlap>>
    BY <1>6, Zenon DEF CreatePause, ShimInv, StageInv, history
  <2>. QED BY <1>0, <1>6, <2>1 DEF CreatePause, Served, Alive, Flying, LedgerInv, OpenUnreported, Creating
<1>7. ASSUME NEW t \in Task, Record(t) PROVE Served(t)' /\ (t \notin overlap' => Alive(t)')
  BY <1>0, <1>7 DEF Record, Served, Alive, Flying, LedgerInv, OpenUnreported, Creating, history
<1>8. ASSUME NEW t \in Task, NEW n \in Call, StartCall(t, n) PROVE Served(t)' /\ (t \notin overlap' => Alive(t)')
  BY <1>0, <1>8 DEF StartCall, GotoStart, Busy, Served, Alive, Flying, LedgerInv, OpenUnreported, Creating
<1>9. ASSUME NEW t \in Task, NEW n \in Call, StartInner(t, n) PROVE Served(t)' /\ (t \notin overlap' => Alive(t)')
  BY <1>0, <1>9 DEF StartInner, GotoStart, Served, Alive, Flying, LedgerInv, OpenUnreported, Creating
<1>10. ASSUME NEW t \in Task, NEW n \in Call, StartReport(t, n) PROVE Served(t)' /\ (t \notin overlap' => Alive(t)')
  <2>0. /\ start[t][n] \in {"ok", "error"} /\ start' = [start EXCEPT ![t][n] = "idle"] /\ pending' = pending \ {t}
        /\ UNCHANGED <<in, pc, inner, del, ran, overlap>>
    BY <1>10, Zenon DEF StartReport, GotoStart
  <2>1. Served(t)'
    BY <2>0, Zenon DEF Served
  <2>2. ASSUME t \notin overlap, t \notin pending PROVE Alive(t)'
    <3>1. UNCHANGED reports
      BY <1>10, <2>2, Zenon DEF StartReport
    <3>. QED BY <1>0, <2>0, <2>2, <3>1 DEF Alive, Flying
  <2>3. ASSUME t \notin overlap, t \in pending PROVE Alive(t)'
    <3>. DEFINE err == IF start[t][n] = "ok" THEN None ELSE {}
                e == Launch(t, err, IF err = None THEN "" ELSE "ProcessStart", TRUE)
                r == [outcome |-> e.outcome, reason |-> e.reason]
    <3>1. reports' = [reports EXCEPT ![t] = Append(@, r)]
      BY <1>10, <2>3, Zenon DEF StartReport, Report
    <3>2. (r.outcome = "success") = (start[t][n] = "ok")
      BY Zenon DEF Launch, Outcome, None
    <3>. HIDE DEF r
    <3>3. Flying(t) # {} /\ pc[t] = "created" /\ n \in Flying(t) /\ inner[t] # "created" /\ \A m \in Flying(t) : m = n
      BY <2>0, <2>3 DEF Alive, Flying
    <3>4. reports[t] = <<>> /\ ~in[t].sandbox
      BY <1>0, <2>3, <3>3, Zenon DEF LedgerInv, OpenUnreported
    <3>5. reports'[t] = Append(<<>>, r)
      BY <1>0, <3>1, <3>4, Zenon
    <3>6. reports'[t] # <<>> /\ reports'[t][1] = r
      BY <3>5
    <3>7. (t \in ran) = (start[t][n] = "ok")
      BY <2>3, <3>3, <3>4 DEF Alive, Flying
    <3>. QED BY <1>0, <2>0, <2>3, <3>2, <3>3, <3>6, <3>7 DEF Alive, Flying
  <2>. QED BY <2>0, <2>1, <2>2, <2>3, Zenon
<1>11. ASSUME NEW t \in Task, NEW n \in Call, StartExec(t, n) PROVE Served(t)' /\ (t \notin overlap' => Alive(t)')
  BY <1>0, <1>11 DEF StartExec, GotoStart, Served, Alive, Flying, LedgerInv, OpenUnreported, Creating, history
<1>12. ASSUME NEW t \in Task, ProcessExit(t) PROVE Served(t)' /\ (t \notin overlap' => Alive(t)')
  BY <1>0, <1>12 DEF ProcessExit, Served, Alive, Flying, Creating, history
<1>13. ASSUME NEW t \in Task, DeleteCall(t) PROVE Served(t)' /\ (t \notin overlap' => Alive(t)')
  BY <1>0, <1>13 DEF DeleteCall, Busy, Served, Alive, Flying, Creating
<1>14. ASSUME NEW t \in Task, DeleteInner(t) PROVE Served(t)' /\ (t \notin overlap' => Alive(t)')
  BY <1>0, <1>14 DEF DeleteInner, Served, Alive, Flying, Creating, history
<1>15. ASSUME NEW t \in Task, DeleteForget(t) PROVE Served(t)' /\ (t \notin overlap' => Alive(t)')
  BY <1>0, <1>15 DEF DeleteForget, Served, Alive, Flying, Creating, history
<1>16. ASSUME NEW t \in Task, KillShim(t) PROVE Served(t)' /\ (t \notin overlap' => Alive(t)')
  BY <1>0, <1>16 DEF KillShim, Served, Alive, Flying, Creating, history
<1>. QED
  <2>1. SUFFICES ASSUME NEW t \in Task, Handlers(t) PROVE Served(t)' /\ (t \notin overlap' => Alive(t)')
    BY <1>1, <1>2, Zenon DEF ShimNext
  <2>. QED BY <1>3, <1>4, <1>5, <1>6, <1>7, <1>8, <1>9, <1>10, <1>11, <1>12, <1>13, <1>14, <1>15, <1>16, <2>1, WorkSteps
           DEF Handlers

----------------------------------------------------------------------------
(* What reaches runc.                                                      *)

\* A launch has one of the elected roles, and that of a task that waits or runs
\* had a valid config.
PlanInv ==
    /\ role \in [Task -> Role]
    /\ \A t \in Task : At(t, "created") /\ ~in[t].sandbox => Validate(in[t].cfg)

\* The handlers keep PlanInv, whichever of them runs next.
LEMMA PlanInductive ==
    ASSUME ShimInv, PlanInv, [ShimNext]_shimVars PROVE PlanInv'
<1>. USE DEF PlanInv, At, Goto
<1>0. /\ pc \in [Task -> Step] /\ \A t \in Task : pc[t] = "pause" => in[t].sandbox
      /\ \A t \in Task : pc[t] = "record" => Validate(in[t].cfg)
  BY EarlyIs, Zenon DEF ShimInv, LedgerInv, Shape, StageInv, TellInv, Passed, Creating
<1>1. CASE UNCHANGED shimVars
  BY <1>1, Zenon DEF shimVars, task
<1>2. ASSUME NEW t \in Task, UNCHANGED in, UNCHANGED role \/ \E r \in Role : role' = [role EXCEPT ![t] = r],
             UNCHANGED pc \/ \E s \in Step : Goto(t, s) /\ (s = "created" => pc[t] \in {"pause", "record"})
      PROVE  PlanInv'
  <2>1. role' \in [Task -> Role]
    BY <1>2, Zenon
  <2>2. ASSUME NEW u \in Task, pc'[u] = "created", ~in[u].sandbox PROVE Validate(in[u].cfg)
    BY <1>0, <1>2, <2>2, Zenon
  <2>. QED BY <1>2, <2>1, <2>2, Zenon
<1>s. "skip" \in Role
  BY Zenon DEF Role
<1>c. ASSUME NEW t \in Task, NEW err, NEW reason, NEW known, NEW phases, CreateFails(t, err, reason, known, phases)
      PROVE  Goto(t, "failed") /\ role' = [role EXCEPT ![t] = "skip"]
  BY <1>c, Zenon DEF CreateFails
<1>r. ASSUME NEW t \in Task, NEW err, Resolved(t, err)
      PROVE  \/ Goto(t, "prepare") /\ UNCHANGED role
             \/ Goto(t, "failed") /\ role' = [role EXCEPT ![t] = "skip"]
  BY <1>r, <1>c, Zenon DEF Resolved
<1>3. ASSUME NEW t \in Task, Resolve(t) \/ StageDone(t) \/ StageFails(t) PROVE PlanInv'
  <2>1. \/ (Goto(t, "prepare") \/ Goto(t, "stage")) /\ UNCHANGED role
        \/ Goto(t, "failed") /\ role' = [role EXCEPT ![t] = "skip"]
    BY <1>3, <1>c, <1>r, Zenon DEF Resolve, StageDone, StageFails
  <2>2. UNCHANGED in
    BY <1>3, Zenon DEF Resolve, StageDone, StageFails
  <2>. QED BY <1>2, <1>s, <2>1, <2>2, Zenon DEF Step
<1>4. ASSUME NEW t \in Task, Prepare(t) PROVE PlanInv'
  <2>1. \/ Goto(t, "overlay") /\ \E r \in Role : role' = [role EXCEPT ![t] = r]
        \/ Goto(t, "failed") /\ role' = [role EXCEPT ![t] = "skip"]
    BY <1>4, <1>c, <1>s, Zenon DEF Prepare
  <2>2. UNCHANGED in
    BY <1>4, Zenon DEF Prepare
  <2>. QED BY <1>2, <1>s, <2>1, <2>2, Zenon DEF Step
<1>5. ASSUME NEW t \in Task, Overlay(t) \/ WriteBundle(t) \/ RuncCreate(t) PROVE PlanInv'
  <2>1. \/ (Goto(t, "layers") \/ Goto(t, "runc") \/ Goto(t, "record")) /\ UNCHANGED role
        \/ Goto(t, "failed") /\ role' = [role EXCEPT ![t] = "skip"]
    BY <1>5, <1>c, Zenon DEF Overlay, WriteBundle, RuncCreate
  <2>2. UNCHANGED in
    BY <1>5, Zenon DEF Overlay, WriteBundle, RuncCreate
  <2>. QED BY <1>2, <1>s, <2>1, <2>2, Zenon DEF Step
<1>6. ASSUME NEW t \in Task, CreateCall(t) \/ CreatePause(t) \/ Record(t) PROVE PlanInv'
  <2>1. /\ UNCHANGED <<in, role>>
        /\ \/ UNCHANGED pc
           \/ Goto(t, "pause") \/ Goto(t, "resolve") \/ Goto(t, "none")
           \/ pc[t] \in {"pause", "record"} /\ Goto(t, "created")
    BY <1>6, Zenon DEF CreateCall, CreatePause, Record
  <2>. QED BY <1>2, <2>1, Zenon DEF Step
<1>7. ASSUME NEW t \in Task, DeleteCall(t) \/ DeleteInner(t) \/ DeleteForget(t) \/ ProcessExit(t) \/ KillShim(t)
      PROVE  PlanInv'
  <2>1. /\ UNCHANGED in
        /\ UNCHANGED pc \/ Goto(t, "none")
        /\ UNCHANGED role \/ role' = [role EXCEPT ![t] = "skip"]
    BY <1>7, Zenon DEF DeleteCall, DeleteInner, DeleteForget, ProcessExit, KillShim
  <2>2. UNCHANGED pc \/ \E s \in Step : Goto(t, s) /\ (s = "created" => pc[t] \in {"pause", "record"})
    BY <2>1, Zenon DEF Step
  <2>3. UNCHANGED role \/ \E r \in Role : role' = [role EXCEPT ![t] = r]
    BY <1>s, <2>1, Zenon
  <2>. QED BY <1>2, <2>1, <2>2, <2>3, Zenon
<1>8. ASSUME NEW t \in Task, NEW n \in Call, StartCall(t, n) \/ StartInner(t, n) \/ StartReport(t, n) \/ StartExec(t, n)
      PROVE  PlanInv'
  BY <1>8, Zenon DEF StartCall, StartInner, StartReport, StartExec
<1>. QED BY <1>1, <1>3, <1>4, <1>5, <1>6, <1>7, <1>8, Zenon DEF ShimNext, Handlers

\* A task that has its plan has a whole one.
LEMMA PlanWhole == ASSUME ShimInv, PlanInv PROVE LaunchIsWhole
<1>1. SUFFICES ASSUME NEW t \in Task, pc[t] \in {"runc", "record", "created"}, ~in[t].sandbox
               PROVE  Whole(in[t], role[t])
  BY Zenon DEF LaunchIsWhole, Whole
<1>2. Validate(in[t].cfg) /\ role[t] \in Role
  BY <1>1, EarlyIs, Zenon DEF ShimInv, TellInv, PlanInv, Passed, Creating, At
<1>3. in \in Inputs /\ LateError(in[t]) = None
  BY <1>1, Zenon DEF ShimInv, StageInv, Late
<1>4. in[t].format = "native" \/ in[t].cfg.cds = "none" \/ in[t].archive
  BY <1>3, InputsAssumption, LateArchive, Zenon
<1>. QED BY <1>2, <1>3, <1>4, InputsAssumption, LaunchWhole, Zenon

----------------------------------------------------------------------------
(* The node.                                                               *)

NodeInv == ShimInv /\ TruthInv /\ PlanInv

\* The three invariants hold together on every node.
LEMMA NodeInvariant == Spec => []NodeInv
<1>1. Init => NodeInv
  <2>. SUFFICES ASSUME Init PROVE NodeInv
    BY Zenon
  <2>. USE DEF Init, ShimInit
  <2>1. LedgerInv
    BY Zenon DEF LedgerInv, Shape, OpenUnreported, Creating, Step, Call
  <2>2. StageInv
    BY TaskAssumption, Zenon DEF StageInv, Late
  <2>3. TellInv
    BY Zenon DEF TellInv, EventsDecode, Passed, Creating, At
  <2>4. TruthInv
    BY Zenon DEF TruthInv, TruthTypes, Served, Alive, Flying, Creating, Call
  <2>5. PlanInv
    BY Zenon DEF PlanInv, Role, At
  <2>. QED BY <2>1, <2>2, <2>3, <2>4, <2>5, Zenon DEF NodeInv, ShimInv
<1>2. NodeInv /\ [Shims \/ Exporters]_<<shimVars, exporterVars>> => NodeInv'
  <2>. SUFFICES ASSUME NodeInv, [ShimNext]_shimVars PROVE NodeInv'
    BY Zenon DEF Shims, Exporters
  <2>. QED BY LedgerInductive, StageInductive, TellInductive, TruthInductive, PlanInductive, Zenon DEF NodeInv, ShimInv
<1>. QED BY <1>1, <1>2, PTL DEF Spec

\* Start's answer and the launch events agree, whatever Creates, Starts, Deletes
\* and kills do to other tasks and at other times: a launch that no two calls
\* raced for is reported once its Start returned, as what it was.
THEOREM ReportTrue == Spec => []ReportIsTrue
<1>1. NodeInv => ReportIsTrue
  <2>1. SUFFICES ASSUME NodeInv, NEW t \in Task \ overlap
                 PROVE  /\ t \in ran /\ At(t, "created") /\ ~in[t].sandbox /\ ~Busy(t) => reports[t] # <<>>
                        /\ reports[t] # <<>> => (reports[t][1].outcome = "success") = (t \in ran)
    BY Zenon DEF ReportIsTrue
  <2>2. Alive(t)
    BY <2>1, Zenon DEF NodeInv, TruthInv
  <2>. QED BY <2>2, Zenon DEF Alive, Busy, At
<1>. QED BY <1>1, NodeInvariant, PTL

\* A failed launch is blamed on the node or on a missing reference only with
\* cause: the words that Reason looks for do not occur in the other failures of
\* Create, for any node and any artifact.
THEOREM BlameTrue == Spec => []BlameIsTrue
<1>1. NodeInv => BlameIsTrue
  BY Zenon DEF NodeInv, ShimInv, TellInv, Blames, BlameIsTrue
<1>. QED BY <1>1, NodeInvariant, PTL

\* Whatever a Create meets, the exporter decodes what is emitted of it.
THEOREM EventsClear == Spec => []EventsDecode
<1>1. NodeInv => EventsDecode
  BY Zenon DEF NodeInv, ShimInv, TellInv
<1>. QED BY <1>1, NodeInvariant, PTL

\* What reaches runc can run, whatever the config, the role and the deployment's
\* choices, and it is the launch of the portable bundle and of `brewlet run`.
THEOREM LaunchSafe == Spec => []LaunchIsWhole
<1>1. NodeInv => LaunchIsWhole
  BY PlanWhole, Zenon DEF NodeInv
<1>. QED BY <1>1, NodeInvariant, PTL

\* Every Create of a runnable image stages it anew: none goes from its resolution to
\* its launch past the truncated files, although other tasks of the image run from
\* the same directory, and a staging that was cut short is mended by no one but the
\* one that truncated the files last. The comments say the tree is staged once per
\* image and reused (blobs.go:144-145, resolver.go:73-74).
THEOREM StagedAnew ==
    Spec => [][\A t \in Task :
                 /\ At(t, "resolve") /\ At(t, "stage")' => writer'[Dir(t)] = t
                 /\ At(t, "resolve") /\ At(t, "prepare")' => in[t].format # "image"
                 /\ writer[Dir(t)] = t /\ ~At(t, "stage") => writer'[Dir(t)] # Nobody]_<<shimVars, exporterVars>>
<1>1. ASSUME NodeInv, ShimNext, NEW t \in Task
      PROVE  /\ At(t, "resolve") /\ At(t, "stage")' => writer'[Dir(t)] = t
             /\ At(t, "resolve") /\ At(t, "prepare")' => in[t].format # "image"
             /\ writer[Dir(t)] = t /\ ~At(t, "stage") => writer'[Dir(t)] # Nobody
  <2>0. /\ pc \in [Task -> Step] /\ writer \in [Task -> Task \cup {Nobody}] /\ Nobody \notin Task
        /\ \A u \in Task : Dir(u) \in Task
    BY <1>1, InputsAssumption, TaskAssumption, Zenon DEF NodeInv, ShimInv, StageInv, LedgerInv, Shape, Dir
  <2>1. PICK u \in Task : Handlers(u)
    BY <1>1, Zenon DEF ShimNext
  <2>2. CASE Aside(u)
    BY <2>0, <2>2, Zenon DEF Aside, Goto, At, Late
  <2>3. CASE Resolve(u)
    <3>1. CASE Goto(u, "stage") /\ writer' = [writer EXCEPT ![Dir(u)] = u]
      BY <2>0, <3>1, Zenon DEF Goto, At
    <3>2. CASE /\ UNCHANGED writer
               /\ Goto(u, "failed") \/ (Goto(u, "prepare") /\ in[u].format # "image")
      BY <2>0, <3>2, Zenon DEF Goto, At
    <3>3. CASE /\ UNCHANGED writer
               /\ Resolved(u, EarlyError(in[u])) /\ EarlyError(in[u]) # None
      BY <2>0, <3>3, Zenon DEF Resolved, CreateFails, Goto, At
    <3>. QED BY <2>3, <3>1, <3>2, <3>3, Zenon DEF Resolve, Resolved, CreateFails
  <2>4. CASE StageDone(u)
    <3>1. pc[u] = "stage" /\ (Goto(u, "prepare") \/ Goto(u, "failed"))
      BY <2>4, Zenon DEF StageDone, Resolved, CreateFails, At
    <3>2. writer' = writer \/ (writer[Dir(u)] = u /\ writer' = [writer EXCEPT ![Dir(u)] = Nobody])
      BY <2>4, Zenon DEF StageDone, Staged
    <3>. QED BY <2>0, <3>1, <3>2, Zenon DEF Goto, At
  <2>. QED BY <2>1, <2>2, <2>3, <2>4, AsideSteps, Zenon
<1>2. ASSUME NodeInv, [Shims \/ Exporters]_<<shimVars, exporterVars>>
      PROVE  [\A t \in Task :
                 /\ At(t, "resolve") /\ At(t, "stage")' => writer'[Dir(t)] = t
                 /\ At(t, "resolve") /\ At(t, "prepare")' => in[t].format # "image"
                 /\ writer[Dir(t)] = t /\ ~At(t, "stage") => writer'[Dir(t)] # Nobody]_<<shimVars, exporterVars>>
  <2>1. CASE UNCHANGED shimVars
    BY <1>2, <2>1, TaskAssumption, Zenon DEF shimVars, task, At, Dir
  <2>. QED BY <1>1, <1>2, <2>1, Zenon DEF Shims, Exporters
<1>. QED BY <1>2, NodeInvariant, PTL DEF Spec

\* Beside the exporters the shims still report every attempt at most once.
THEOREM NodeReportsOnce == Spec => ReportedOnce
<1>1. Init => ShimInit
  BY Zenon DEF Init
<1>2. [Shims \/ Exporters]_<<shimVars, exporterVars>> => [ShimNext]_shimVars
  BY Zenon DEF Shims, Exporters
<1>3. Spec => ShimSpec
  BY <1>1, <1>2, PTL DEF Spec, ShimSpec
<1>. QED BY <1>3, LedgerRefined, PTL
=============================================================================

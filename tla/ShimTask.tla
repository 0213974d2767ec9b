------------------------------ MODULE ShimTask ------------------------------
(***************************************************************************)
(* The containerd shim's task service (service_linux.go): Create resolves  *)
(* the artifact, rewrites the bundle and hands over to runc; Start and     *)
(* Delete wrap runc's. The handlers of one task run concurrently, and the  *)
(* shims of two pods share the directory runnable images are staged in.    *)
(***************************************************************************)
EXTENDS LaunchPlan, Telemetry

CONSTANTS
    Task,        \* workload containers, each of its own pod
    Inputs,      \* assignments of a launch input to every task
    Node,        \* the node's JDK roots and launchers
    Nobody,      \* no task
    MaxCreates,  \* bound: Create calls of one task, some of them spent at the outset
    MaxFaults    \* bound: system calls failed and shims killed

ASSUME TaskAssumption ==
    Nobody \notin Task /\ MaxCreates \in Nat /\ MaxFaults \in Nat

\* An image goes by the name of one of the tasks that run it. What is mounted
\* beside /app has names of its own, and a launcher is a file, not an option.
ASSUME InputsAssumption ==
    \A i \in Inputs : \A t \in Task :
        /\ i[t].image \in Task /\ i[t].format \in {"native", "image"}
        /\ ({i[t].cfg.mainJar, i[t].cfg.cds} \cup i[t].layers) \cap {"/opt/jdk", "cache", "launcher"} = {}
        /\ i[t].launcher \notin {"-XX:SharedArchiveFile", "-XX:+AutoCreateSharedArchive"}

VARIABLES
    in,        \* in[t]: what Create is called with
    pc,        \* pc[t]: the step of t's Create, or how it ended
    role,      \* role[t]: the AppCDS role its launch was given
    inner,     \* inner[t]: the task in runc's service
    pending,   \* tasks created and not yet started
    start,     \* start[t][n]: the step of each Start call
    del,       \* del[t]: the step of t's Delete
    writer,    \* writer[d]: who truncated d's staged app layer last and has not finished
    creates, faults,
    reports,   \* history: launch events of t's latest attempt
    ran,       \* history: tasks whose latest attempt got a running process
    overlap,   \* history: tasks with two of Start, Start and Delete in flight at once
    bad        \* history: events the exporter does not decode

task == <<pc, role, inner, pending, start, del>>
history == <<reports, ran, overlap, bad>>
shimVars == <<in, task, writer, creates, faults, history>>

Step == {"none", "pause", "resolve", "stage", "prepare", "overlay", "layers", "runc", "record",
         "created", "failed"}
Call == {1, 2}

ShimInit ==
    /\ in \in Inputs /\ pc = [t \in Task |-> "none"] /\ role = [t \in Task |-> "skip"]
    /\ inner = [t \in Task |-> "absent"] /\ pending = {}
    /\ start = [t \in Task |-> [n \in Call |-> "idle"]] /\ del = [t \in Task |-> "idle"]
    /\ writer = [t \in Task |-> Nobody] /\ creates \in [Task -> 0 .. MaxCreates] /\ faults = 0
    /\ reports = [t \in Task |-> <<>>] /\ ran = {} /\ overlap = {} /\ bad = {}

At(t, s) == pc[t] = s
Goto(t, s) == pc' = [pc EXCEPT ![t] = s]
Fault == faults < MaxFaults /\ faults' = faults + 1

\* The staging directory is keyed by the image's manifest digest.
Dir(t) == in[t].image

\* A Start or a Delete of the task itself is in flight.
Busy(t) == del[t] # "idle" \/ \E n \in Call : start[t][n] \notin {"idle", "exec"}

----------------------------------------------------------------------------
(* Telemetry. Every emission is best effort and never changes a launch.    *)

Observe(events) == bad' = bad \cup {e \in events : ~Decode(e)}

Phase(name, err) == [kind |-> "launch_phase", phase |-> name, outcome |-> Outcome(err)]

Resolution(t, err) ==
    [kind |-> "artifact_resolution", backend |-> in[t].backend, outcome |-> Outcome(err),
     format |-> IF err = None THEN in[t].format ELSE "unknown"]

\* emitLaunchWithReason; before the artifact is resolved neither its entry mode
\* nor its format is known, and an empty mode is the jar mode.
Launch_RawMode(t, err, reason, known) ==
    [kind |-> "launch", outcome |-> Outcome(err), reason |-> IF reason = "" THEN Reason(err) ELSE reason,
     entryMode |-> IF ~known THEN "unknown" ELSE in[t].cfg.mode,
     format |-> IF known THEN in[t].format ELSE "unknown"]
Launch(t, err, reason, known) ==
    [kind |-> "launch", outcome |-> Outcome(err), reason |-> IF reason = "" THEN Reason(err) ELSE reason,
     entryMode |-> IF ~known THEN "unknown" ELSE IF in[t].cfg.mode = "" THEN "jar" ELSE in[t].cfg.mode,
     format |-> IF known THEN in[t].format ELSE "unknown"]

Report(t, e, phases) ==
    reports' = [reports EXCEPT ![t] = Append(@, [outcome |-> e.outcome, reason |-> e.reason])]
    /\ Observe(phases \cup {e})

\* Create returns an error after reporting the failed launch.
CreateFails(t, err, reason, known, phases) ==
    Goto(t, "failed") /\ Report(t, Launch(t, err, reason, known), phases)
    /\ role' = [role EXCEPT ![t] = "skip"]

----------------------------------------------------------------------------
(* Create.                                                                 *)

\* Options that do not decode and an unreadable spec are refused without a
\* launch event; the pause container goes to runc as it is. containerd creates a
\* task anew once its earlier calls have returned.
CreateCall(t) ==
    /\ pc[t] \in {"none", "failed"} /\ inner[t] = "absent" /\ ~Busy(t)
    /\ creates[t] < MaxCreates /\ creates' = [creates EXCEPT ![t] = @ + 1]
    /\ IF ~in[t].readable THEN UNCHANGED <<pc, reports, ran, overlap>> ELSE
          /\ Goto(t, IF in[t].sandbox THEN "pause" ELSE "resolve")
          /\ reports' = [reports EXCEPT ![t] = <<>>] /\ ran' = ran \ {t} /\ overlap' = overlap \ {t}
    /\ UNCHANGED <<in, role, inner, pending, start, del, writer, faults, bad>>

CreatePause(t) ==
    /\ At(t, "pause") /\ Goto(t, "created") /\ inner' = [inner EXCEPT ![t] = "created"]
    /\ UNCHANGED <<in, role, pending, start, del, writer, creates, faults, history>>

\* What loading the artifact reports, in the code's order, before and after a
\* runnable image is staged: a part of it may be missing on the node.
FirstOf(errs) == IF \A n \in DOMAIN errs : errs[n] = None THEN None
                 ELSE errs[CHOOSE n \in DOMAIN errs : errs[n] # None /\ \A m \in 1 .. n - 1 : errs[m] = None]
Check(ok, words) == IF ok THEN None ELSE words
Has(i, part) == i.missing # part

LoadErrors(i) ==
    <<Check(i.backend \in {"layout", "containerd"}, {"artifact"}),
      Check(i.backend = "containerd" => i.digest # "", {"artifact", "manifest"}),
      Check(Has(i, "manifest"), {"manifest", "blob"}),
      Check(i.backend = "containerd" /\ i.format = "native" => Has(i, "type"), {"artifact"})>>
ConfigErrors(i) ==
    <<Check(Has(i, "config"), IF i.format = "image" THEN {"manifest"} ELSE {"blob"}),
      Check(Validate(i.cfg), {}),
      Check(i.format = "native" => Has(i, "jar"), {"blob"})>>
EarlyError(i) == FirstOf(<<FirstOf(LoadErrors(i)), FirstOf(ConfigErrors(i))>>)

\* Then the files of a staged image and the layers; the JDK and the launcher.
FileErrors(i) ==
    <<Check(i.format = "image" => Has(i, "jar"), {}),
      Check(i.format = "image" /\ i.cfg.cds # "none" => i.archive, {}),
      Check(Has(i, "layers"), {"blob"})>>
LateError(i) ==
    FirstOf(<<FirstOf(FileErrors(i)),
              Check(selectJDK(Node, i.jdk) # {}, {"NoCompatibleJDK"}),
              Check(selectLauncher(Node, i.launcher), {"NoCompatibleLauncher"})>>)

Resolved(t, err) ==
    IF err = None
    THEN /\ Goto(t, "prepare") /\ Observe({Resolution(t, err), Phase("artifact_resolve", err)})
         /\ UNCHANGED <<role, reports>>
    ELSE CreateFails(t, err, "", FALSE, {Resolution(t, err), Phase("artifact_resolve", err)})

\* resolveArtifact, up to the staging of a runnable image, which truncates the
\* staged files and writes them again.
Resolve(t) ==
    /\ At(t, "resolve")
    /\ LET err == EarlyError(in[t]) IN
       IF in[t].ref = ""
       THEN CreateFails(t, {"no Brewlet artifact reference", "artifact"}, "", FALSE, {}) /\ UNCHANGED writer
       ELSE IF err = None /\ in[t].format = "image"
       THEN /\ Goto(t, "stage") /\ writer' = [writer EXCEPT ![Dir(t)] = t]
            /\ UNCHANGED <<role, reports, bad>>
       ELSE Resolved(t, IF err = None THEN LateError(in[t]) ELSE err) /\ UNCHANGED writer
    /\ UNCHANGED <<in, inner, pending, start, del, creates, faults, ran, overlap>>

\* extractGzTar ends: the file is whole again unless another shim truncated it
\* after this one did.
Staged(t) == IF writer[Dir(t)] = t THEN [writer EXCEPT ![Dir(t)] = Nobody] ELSE writer

StageDone(t) ==
    /\ At(t, "stage") /\ writer' = Staged(t) /\ Resolved(t, LateError(in[t]))
    /\ UNCHANGED <<in, inner, pending, start, del, creates, faults, ran, overlap>>

StageFails(t) ==
    /\ At(t, "stage") /\ Fault /\ \E w \in {{}, {"blob"}} : Resolved(t, w)
    /\ UNCHANGED <<in, inner, pending, start, del, writer, creates, ran, overlap>>

\* Copying the app JAR fails on the copy, or on a JAR read from its blob.
ReadError(t) == IF in[t].format = "native" THEN {{}, {"blob"}} ELSE {{}}

\* applyBrewletLaunch: the AppCDS election gives the launch a role, and with an
\* archive in play the app JAR is copied.
Prepare(t) ==
    /\ At(t, "prepare")
    /\ \E r \in IF Keyed(in[t]) THEN Role ELSE {"skip"} :
         LET cds == IF Keyed(in[t]) THEN {[kind |-> "cds", role |-> r]} ELSE {} IN
         \/ Goto(t, "overlay") /\ role' = [role EXCEPT ![t] = r] /\ Observe(cds) /\ UNCHANGED <<reports, faults>>
         \/ /\ in[t].regen \/ in[t].cfg.cds # "none"
            /\ Fault /\ \E w \in ReadError(t) : CreateFails(t, w, "", TRUE, {Phase("bundle_prepare", w)} \cup cds)
    /\ UNCHANGED <<in, inner, pending, start, del, writer, creates, ran, overlap>>

\* The overlay's scratch directories, then the layers and the new config.json.
Overlay(t) ==
    /\ At(t, "overlay")
    /\ \/ Goto(t, "layers") /\ Observe({Phase("overlay_setup", None)}) /\ UNCHANGED <<role, reports, faults>>
       \/ Fault /\ CreateFails(t, {"overlay"}, "", TRUE, {Phase("overlay_setup", {})})
    /\ UNCHANGED <<in, inner, pending, start, del, writer, creates, ran, overlap>>

WriteBundle(t) ==
    /\ At(t, "layers")
    /\ \/ Goto(t, "runc") /\ Observe({Phase("bundle_prepare", None)}) /\ UNCHANGED <<role, reports, faults>>
       \/ Fault /\ CreateFails(t, {}, "", TRUE, {Phase("bundle_prepare", {})})
    /\ UNCHANGED <<in, inner, pending, start, del, writer, creates, ran, overlap>>

RuncCreate(t) ==
    /\ At(t, "runc")
    /\ \/ /\ Goto(t, "record") /\ inner' = [inner EXCEPT ![t] = "created"]
          /\ Observe({Phase("runc_create", None)}) /\ UNCHANGED <<role, reports, faults>>
       \/ /\ Fault /\ CreateFails(t, {}, "RuntimeCreate", TRUE, {Phase("runc_create", {})})
          /\ UNCHANGED inner
    /\ UNCHANGED <<in, pending, start, del, writer, creates, ran, overlap>>

\* The launch is remembered for Start. When containerd has given up on this call
\* and deleted the task meanwhile, the answer reaches nobody.
Record(t) ==
    /\ At(t, "record") /\ pending' = pending \cup {t}
    /\ Goto(t, IF inner[t] = "absent" THEN "none" ELSE "created")
    /\ UNCHANGED <<in, role, inner, start, del, writer, creates, faults, history>>

----------------------------------------------------------------------------
(* Start and Delete. containerd starts a task once its Create has returned *)
(* and deletes it at any time after runc created it.                       *)

GotoStart(t, n, s) == start' = [start EXCEPT ![t][n] = s]

\* A Start of the task itself, or of an exec in it.
StartCall(t, n) ==
    /\ At(t, "created") /\ start[t][n] = "idle"
    /\ \/ GotoStart(t, n, "call") /\ overlap' = IF Busy(t) THEN overlap \cup {t} ELSE overlap
       \/ inner[t] = "running" /\ GotoStart(t, n, "exec") /\ UNCHANGED overlap
    /\ UNCHANGED <<in, pc, role, inner, pending, del, writer, creates, faults, reports, ran, bad>>

StartInner(t, n) ==
    /\ start[t][n] = "call"
    /\ \/ /\ inner[t] = "created" /\ inner' = [inner EXCEPT ![t] = "running"]
          /\ GotoStart(t, n, "ok") /\ ran' = ran \cup {t} /\ UNCHANGED faults
       \/ /\ inner[t] = "created" /\ Fault /\ inner' = [inner EXCEPT ![t] = "stopped"]
          /\ GotoStart(t, n, "error") /\ UNCHANGED ran
       \/ inner[t] # "created" /\ GotoStart(t, n, "error") /\ UNCHANGED <<inner, ran, faults>>
    /\ UNCHANGED <<in, pc, role, pending, del, writer, creates, reports, overlap, bad>>

\* The pending entry is taken under the lock; only who takes it reports.
StartReport_KeepsPending(t, n) ==
    /\ start[t][n] \in {"ok", "error"} /\ GotoStart(t, n, "idle") /\ UNCHANGED pending
    /\ LET err == IF start[t][n] = "ok" THEN None ELSE {} IN
       IF t \in pending
       THEN Report(t, Launch(t, err, IF err = None THEN "" ELSE "ProcessStart", TRUE), {Phase("process_start", err)})
       ELSE UNCHANGED <<reports, bad>>
    /\ UNCHANGED <<in, pc, role, inner, del, writer, creates, faults, ran, overlap>>
StartReport_DropsError(t, n) ==
    /\ start[t][n] \in {"ok", "error"} /\ GotoStart(t, n, "idle") /\ pending' = pending \ {t}
    /\ IF t \in pending
       THEN Report(t, Launch(t, None, "", TRUE), {Phase("process_start", None)})
       ELSE UNCHANGED <<reports, bad>>
    /\ UNCHANGED <<in, pc, role, inner, del, writer, creates, faults, ran, overlap>>
StartReport(t, n) ==
    /\ start[t][n] \in {"ok", "error"} /\ GotoStart(t, n, "idle") /\ pending' = pending \ {t}
    /\ LET err == IF start[t][n] = "ok" THEN None ELSE {} IN
       IF t \in pending
       THEN Report(t, Launch(t, err, IF err = None THEN "" ELSE "ProcessStart", TRUE), {Phase("process_start", err)})
       ELSE UNCHANGED <<reports, bad>>
    /\ UNCHANGED <<in, pc, role, inner, del, writer, creates, faults, ran, overlap>>

StartExec(t, n) ==
    /\ start[t][n] = "exec" /\ GotoStart(t, n, "idle")
    /\ UNCHANGED <<in, pc, role, inner, pending, del, writer, creates, faults, history>>

ProcessExit(t) ==
    /\ inner[t] = "running" /\ inner' = [inner EXCEPT ![t] = "stopped"]
    /\ UNCHANGED <<in, pc, role, pending, start, del, writer, creates, faults, history>>

DeleteCall(t) ==
    /\ del[t] = "idle" /\ inner[t] # "absent" /\ del' = [del EXCEPT ![t] = "call"]
    /\ overlap' = IF Busy(t) THEN overlap \cup {t} ELSE overlap
    /\ UNCHANGED <<in, pc, role, inner, pending, start, writer, creates, faults, reports, ran, bad>>

\* runc refuses to delete a running task.
DeleteInner(t) ==
    /\ del[t] = "call"
    /\ IF inner[t] = "running" THEN del' = [del EXCEPT ![t] = "idle"] /\ UNCHANGED <<pc, role, inner>>
       ELSE /\ del' = [del EXCEPT ![t] = "forget"] /\ inner' = [inner EXCEPT ![t] = "absent"]
            /\ IF At(t, "created") THEN Goto(t, "none") /\ role' = [role EXCEPT ![t] = "skip"]
                                   ELSE UNCHANGED <<pc, role>>
    /\ UNCHANGED <<in, pending, start, writer, creates, faults, history>>

DeleteForget(t) ==
    /\ del[t] = "forget" /\ del' = [del EXCEPT ![t] = "idle"] /\ pending' = pending \ {t}
    /\ UNCHANGED <<in, pc, role, inner, start, writer, creates, faults, history>>

\* The shim of t's pod is killed: its handlers and its memory are gone, and
\* containerd deletes what was left of the task. A staging stays cut short.
KillShim(t) ==
    /\ Fault /\ pc[t] \notin {"none", "failed"}
    /\ Goto(t, "none") /\ role' = [role EXCEPT ![t] = "skip"] /\ inner' = [inner EXCEPT ![t] = "absent"]
    /\ pending' = pending \ {t} /\ del' = [del EXCEPT ![t] = "idle"]
    /\ start' = [start EXCEPT ![t] = [n \in Call |-> "idle"]]
    /\ UNCHANGED <<in, writer, creates, history>>

Handlers(t) ==
    \/ CreateCall(t) \/ CreatePause(t) \/ Resolve(t) \/ StageDone(t) \/ StageFails(t)
    \/ Prepare(t) \/ Overlay(t) \/ WriteBundle(t) \/ RuncCreate(t) \/ Record(t)
    \/ DeleteCall(t) \/ DeleteInner(t) \/ DeleteForget(t) \/ ProcessExit(t) \/ KillShim(t)
    \/ \E n \in Call : StartCall(t, n) \/ StartInner(t, n) \/ StartReport(t, n) \/ StartExec(t, n)

ShimNext == \E t \in Task : Handlers(t)
ShimSpec == ShimInit /\ [][ShimNext]_shimVars

----------------------------------------------------------------------------
\* The steps of a Create that has not been reported yet.
Creating == {"resolve", "stage", "prepare", "overlay", "layers", "runc", "record"}

\* Every attempt to launch is reported at most once (module LaunchLedger),
\* although Create, two Starts and a Delete of the task interleave and a Create
\* that outlives the Delete of its task leaves a pending entry behind.
Ledger == INSTANCE LaunchLedger WITH
    open <- {t \in Task : reports[t] = <<>> /\ (pc[t] \in Creating \/ t \in pending)},
    count <- [t \in Task |-> Len(reports[t])]
ReportedOnce == Ledger!Spec

\* Once Start has returned the launch is reported, as a success if and only if
\* the process ran. Only a Start that meets another Start or a Delete of the same
\* task may find the pending entry taken, and lose or swap the report.
ReportIsTrue ==
    \A t \in Task \ overlap :
        /\ t \in ran /\ At(t, "created") /\ ~in[t].sandbox /\ ~Busy(t) => reports[t] # <<>>
        /\ reports[t] # <<>> => (reports[t][1].outcome = "success") = (t \in ran)

\* A failed launch is blamed on the node's JDK or launcher only when the node
\* lacks it, and on a missing reference only when there is none: Reason takes
\* the cause from words of the message, which other failures share.
BlameIsTrue ==
    \A t \in Task : At(t, "failed") =>
        LET r == reports[t][1].reason IN
        /\ r = "NoCompatibleJDK" => selectJDK(Node, in[t].jdk) = {}
        /\ r = "NoCompatibleLauncher" => in[t].launcher \notin Node.launchers
        /\ (r = "MissingArtifactReference") = (in[t].ref = "")
        /\ EarlyError(in[t]) # None => r \in {"MissingArtifactReference", "ArtifactResolution", "BundlePreparation"}

\* The exporter decodes every event the shim emits, also of failed and invalid
\* artifacts, except the resolution through a backend that does not exist.
EventsDecode ==
    \A e \in bad : e.kind = "artifact_resolution" /\ e.backend \notin {"layout", "containerd"}

\* What reaches runc can run: the entry point is there although the error of
\* BuildJVMArgs is dropped, an archive is named only when it is mounted, the JVM
\* may write the node cache only if it is to write it. The portable bundle of
\* the same input has the same arguments and mounts, and `brewlet run` the same
\* arguments and files under /app. Of the times of the layers' files it says
\* nothing: theorem LayerTimesDiffer says where the three disagree.
LaunchIsWhole ==
    \A t \in Task : pc[t] \in {"runc", "record", "created"} /\ ~in[t].sandbox =>
        LET i == in[t]
            l == ShimLaunch(i, role[t])
            p == PortableLaunch(i, role[t])
            h == LocalLaunch(i, role[t], <<>>)
            Layers(m) == {x \in m : x[1] \in i.layers}
        IN  /\ EndsIn(l.argv, Entry(i.cfg))
            /\ \A n \in DOMAIN l.argv : l.argv[n][1] = "-XX:SharedArchiveFile" =>
                 \/ \E m \in l.mounts : m[1] = l.argv[n][2]
                 \/ i.format = "native" /\ ~i.archive
            /\ (<<"-XX:+AutoCreateSharedArchive">> \in Range(l.argv)) = (<<"cache", "node", "rw">> \in l.mounts)
            /\ p.argv = l.argv /\ p.mounts \ Layers(p.mounts) = l.mounts \ Layers(l.mounts)
            /\ {m[1] : m \in p.mounts} = {m[1] : m \in l.mounts}
            /\ i.regen = Keyed(i) => h.argv = l.argv
            /\ {f[1] : f \in h.files} = {m[1] : m \in l.mounts} \ {"/opt/jdk", "cache", "launcher"}
=============================================================================

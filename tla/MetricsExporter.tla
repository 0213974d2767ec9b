--------------------------- MODULE MetricsExporter ---------------------------
(***************************************************************************)
(* The node's metrics exporters (core/cmd/brewlet-metrics-exporter) and    *)
(* the one socket path the shims send their events to. A rolling update    *)
(* may run the old and the new exporter beside each other.                 *)
(***************************************************************************)
EXTENDS Naturals

CONSTANTS
    Exporter,    \* incarnations of the exporter
    Free,        \* no exporter
    MaxStarts    \* bound: starts of an exporter, some of them spent at the outset

ASSUME ExporterAssumption == Free \notin Exporter /\ MaxStarts \in Nat

VARIABLES
    sock,      \* the exporter whose socket is at the path, or Free
    exp,       \* exp[e]: the state of exporter e
    starts,
    beside     \* history: exporters that have run beside another

exporterVars == <<sock, exp, starts, beside>>

ExporterInit ==
    /\ sock = Free /\ exp = [e \in Exporter |-> "down"] /\ starts \in 0 .. MaxStarts /\ beside = {}

Turn(e, from, to) == exp[e] = from /\ exp' = [exp EXCEPT ![e] = to]

\* serveDatagrams removes what a crashed exporter left at the path, then binds it.
Unlink_Keep(e) ==
    LET others == {o \in Exporter \ {e} : exp[o] \notin {"down", "refused"}} IN
    /\ starts < MaxStarts /\ starts' = starts + 1
    /\ exp[e] \in {"down", "refused"} /\ Turn(e, exp[e], "unlinked") /\ UNCHANGED sock
    /\ beside' = IF others = {} THEN beside \ {e} ELSE beside \cup {e} \cup others
Unlink(e) ==
    LET others == {o \in Exporter \ {e} : exp[o] \notin {"down", "refused"}} IN
    /\ starts < MaxStarts /\ starts' = starts + 1
    /\ exp[e] \in {"down", "refused"} /\ Turn(e, exp[e], "unlinked") /\ sock' = Free
    /\ beside' = IF others = {} THEN beside \ {e} ELSE beside \cup {e} \cup others

\* A path bound meanwhile is an error, and main ends the process.
Listen(e) ==
    /\ IF sock = Free THEN Turn(e, "unlinked", "bound") /\ sock' = e
                      ELSE Turn(e, "unlinked", "refused") /\ UNCHANGED sock
    /\ UNCHANGED <<starts, beside>>

\* os.Chmod of the path: fails when it is gone, and then leaves the path alone.
Chmod(e) ==
    /\ \/ sock # Free /\ Turn(e, "bound", "up")
       \/ Turn(e, "bound", "down")
    /\ UNCHANGED <<sock, starts, beside>>

\* SIGTERM closes the connection; the deferred removal takes the path whoever is
\* bound to it by then, unless main has returned before.
Close(e) ==
    Turn(e, "up", "closed") /\ UNCHANGED <<sock, starts, beside>>
Depart(e) ==
    /\ Turn(e, "closed", "down") /\ sock' \in {Free, sock}
    /\ UNCHANGED <<starts, beside>>

\* An error of the metrics server, or a kill: nothing is removed.
Die(e) ==
    /\ exp[e] \notin {"down", "refused"} /\ Turn(e, exp[e], "down") /\ UNCHANGED <<sock, starts, beside>>

ExporterNext ==
    \E e \in Exporter :
        \/ Unlink(e) \/ Listen(e) \/ Chmod(e) \/ Close(e) \/ Depart(e) \/ Die(e)

----------------------------------------------------------------------------
\* An exporter that has run beside no other gets the path and keeps it, however its
\* predecessors ended: it is never refused the path, and when it serves the metrics
\* the shims' events come to it. Exporters that overlap (the pods of two profiles, or
\* of a profile a node moves between) may refuse, or take the path from, each other.
RestartBinds ==
    \A e \in Exporter \ beside : exp[e] # "refused" /\ (exp[e] = "up" => sock = e)
=============================================================================

----------------------------- MODULE NodeRuntime -----------------------------
(***************************************************************************)
(* A node's runtime side: the shims of its pods (module ShimTask) and the  *)
(* metrics exporters (module MetricsExporter), which run on their own: a   *)
(* launch never waits for an exporter.                                     *)
(***************************************************************************)
EXTENDS ShimTask, MetricsExporter

CONSTANT Scenarios   \* bound: the tasks' inputs, and the Creates and exporter starts spent

Init == ShimInit /\ ExporterInit /\ <<in, creates, starts>> \in Scenarios

Shims == ShimNext /\ UNCHANGED exporterVars
Exporters == ExporterNext /\ UNCHANGED shimVars

Spec == Init /\ [][Shims \/ Exporters]_<<shimVars, exporterVars>>
=============================================================================

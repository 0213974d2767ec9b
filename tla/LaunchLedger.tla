---------------------------- MODULE LaunchLedger ----------------------------
(***************************************************************************)
(* What the launch metric promises: every attempt to launch a task is      *)
(* reported at most once, however the task API's handlers interleave.      *)
(***************************************************************************)
EXTENDS Naturals

CONSTANT Task

VARIABLES
    open,    \* tasks with an attempt that has not been reported
    count    \* count[t]: reports of t's latest attempt

Init == open = {} /\ count = [t \in Task |-> 0]

Open(t) == open' = open \cup {t} /\ count' = [count EXCEPT ![t] = 0]

Report(t) == t \in open /\ open' = open \ {t} /\ count' = [count EXCEPT ![t] = 1]

\* The attempt ends unreported: the task was deleted, or its shim killed.
Drop(t) == t \in open /\ open' = open \ {t} /\ UNCHANGED count

Next == \E t \in Task : Open(t) \/ Report(t) \/ Drop(t)

vars == <<open, count>>

Spec == Init /\ [][Next]_vars
=============================================================================

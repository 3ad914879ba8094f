---------------------------- MODULE MCExitMonitor -----------------------------
(***************************************************************************)
(* Small instances of ExitMonitor for TLC.                                 *)
(***************************************************************************)
EXTENDS ExitMonitor

CONSTANTS p1, p2, pump, other

FreshPids == [p \in Procs |-> IF p = p1 THEN 1 ELSE 2]

(* The exit pump subscribes to Pid; the other user to every topic.         *)
PumpAndOther == [u \in Users |-> IF u = pump THEN "Pid" ELSE "All"]

Ended(how, n) == [how |-> how, n |-> n]
TwoEnds == {Ended("exited", 0), Ended("signaled", 9)}
==============================================================================

---------------------------- MODULE MCTaskService ----------------------------
(***************************************************************************)
(* Small instances of TaskService for TLC.                                 *)
(***************************************************************************)
EXTENDS TaskServiceInvariant, TLC

CONSTANTS p1, p2, p3

(* Each process has a pid of its own.                                      *)
FreshPids == [p \in Procs |-> IF p = p1 THEN 1 ELSE IF p = p2 THEN 2 ELSE 3]

(* Processes and calls are interchangeable in the safety runs.             *)
ProcsAndCallers == Permutations(Procs) \cup Permutations(Callers)
==============================================================================

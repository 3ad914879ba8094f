------------------------ MODULE TaskServiceInvariant -------------------------
(***************************************************************************)
(* The inductive invariant behind the safety theorems of TaskService, in   *)
(* the parts the proofs take it apart into.  It holds for any client and   *)
(* any failure of the model, provided no pid is used twice: NoExitAfter-   *)
(* Delete and the right record for an exit rest on who holds the lock, on  *)
(* who owns a process, and on what a delete has already taken away.        *)
(*                                                                         *)
(* The second part is for clients that use ids as containerd does: that    *)
(* nothing lives off the record, and that a wait is woken, are inductive   *)
(* for them with the first part.                                           *)
(***************************************************************************)
EXTENDS TaskService

(* The kernel gives no pid twice.                                          *)
DistinctPids == \A p, q \in Procs : PidOf[p] = PidOf[q] => p = q

(* A call between the spawn of a process and the writing of its record.    *)
Spawning(c) == call[c].pc \in {"insert", "record"}

(* The TaskDelete of a process is sent, or decided and about to be sent.   *)
Deleted(p) ==
  \/ sent["delete"][p] > 0
  \/ \E c \in Callers : call[c].pc = "send" /\ call[c].kind = "delete" /\ call[c].inc = p

(* Such a call holds the lock and the process is its own to record.        *)
SpawningInv ==
  \A c \in Callers : Spawning(c) =>
    /\ lock = c
    /\ call[c].kind = "other"
    /\ call[c].inc \in Procs
    /\ owner[call[c].inc] = call[c].key
    /\ status[call[c].inc] \in Pending
    /\ call[c].pc = "insert" => call[c].key[2] = InitProc

(* A delete between its locks works on a container of its own process.     *)
RemovingInv ==
  \A c \in Callers : call[c].pc = "remove" =>
    /\ call[c].key[2] = InitProc
    /\ call[c].inc # NoProc => /\ owner[call[c].inc] = call[c].key
                               /\ status[call[c].inc] # "unborn"

(* A process on record is on record once, under the key it was born for.   *)
OwnedInv ==
  \A k \in Key : procs[k].inc # NoProc =>
    /\ owner[procs[k].inc] = k
    /\ status[procs[k].inc] # "unborn"
    /\ procs[k].state # "ABSENT"

(* What the pump has in its hand, before and after it takes the lock.      *)
HandInv ==
  /\ hand # NoProc /\ lock # "pump" => status[hand] = "handed"
  /\ lock = "pump" => /\ hand # NoProc
                      /\ status[hand] = "done"
                      /\ sent["exit"][hand] = 0
                      /\ ~ Deleted(hand)

(* A TaskExit is sent for an exit that has been recorded.                  *)
SentInv == \A p \in Procs : sent["exit"][p] > 0 => status[p] = "done"

(* A deleted process is off the record and no call will put it back.       *)
DeletedInv ==
  \A p \in Procs : Deleted(p) =>
    /\ status[p] # "unborn"
    /\ \A k \in Key : procs[k].inc # p
    /\ \A c \in Callers : Spawning(c) => call[c].inc # p

StoppedRight == \A k \in Key : procs[k].state = "STOPPED" => procs[k].code = procs[k].inc

(* Inductive for Next; with TypeOK it implies ExitNotLost and              *)
(* ExitRecordedRight and forbids every step NoExitAfterDelete forbids.     *)
IInv ==
  /\ SpawningInv /\ RemovingInv /\ OwnedInv /\ HandInv
  /\ SentInv /\ DeletedInv /\ ExitNotLost /\ StoppedRight
------------------------------------------------------------------------------
(* What more is true when the clients use ids as containerd does, and no   *)
(* call is dropped between the spawn of a process and its record.          *)
AsContainerd == Disciplined /\ Faults \cap {"late", "timeout"} = {}

(* What lives was born for a record.                                       *)
OwnerInv == \A p \in Procs : status[p] = "alive" => owner[p] \in Key

(* A call on a container id or on a process in it.                         *)
CallsOn(id) == {c \in Callers : call[c].key \in Keys(id)}

(* The runtime forgets a container only with everything that runs in it.   *)
RuntimeInv == \A id \in Ids : rt[id] = "none" => AliveIn(id) = {}

(* What a spawning call will write its record over: for an exec, the one   *)
(* that has no process yet, for an init nothing alive, and then no other   *)
(* call has the container in its hands.                                    *)
OverwriteInv ==
  \A c \in Callers :
    /\ call[c].pc = "record" => /\ procs[call[c].key].state = "CREATED"
                                /\ procs[call[c].key].inc = NoProc
    /\ call[c].pc = "insert" => /\ AliveIn(call[c].key[1]) \subseteq {call[c].inc}
                                /\ CallsOn(call[c].key[1]) = {c}

(* Between the locks of a delete the runtime has no such container.        *)
ForgottenInv == \A c \in Callers : call[c].pc = "remove" => rt[call[c].key[1]] = "none"

(* A record has its pid from the start (init) or from its start on (exec), *)
(* and an exit code when it is STOPPED; an exec is on record only with its *)
(* container, and is never paused.                                         *)
RecordInv ==
  \A k \in Key :
    /\ k[2] = InitProc /\ procs[k].state # "ABSENT" => procs[k].inc # NoProc
    /\ k[2] # InitProc => /\ procs[k].state \notin {"PAUSING", "PAUSED"}
                          /\ procs[k].state = "CREATED" => procs[k].inc = NoProc
                          /\ procs[k].state # "ABSENT" => Registered(k[1])
    /\ procs[k].code # NoProc <=> procs[k].state = "STOPPED"
    /\ procs[k].code # NoProc => status[procs[k].code] = "done"

(* Inductive for Next with TypeOK and IInv, for clients such as these.     *)
ClientInv ==
  OwnerInv /\ RuntimeInv /\ OverwriteInv /\ ForgottenInv /\ RecordInv /\ NoOrphan

(* A wait sleeps on a record that will wake it, and knows what it answers; *)
(* provided nothing is ever paused.                                        *)
WaitInv ==
  \A c \in Callers :
    /\ call[c].pc = "waiting" =>
         \/ c \in procs[call[c].key].waiters
         \/ procs[call[c].key].state \in {"ABSENT", "STOPPED"}
    /\ call[c].pc = "replied" =>
         /\ call[c].inc # NoProc
         /\ owner[call[c].inc] = call[c].key /\ status[call[c].inc] # "unborn"

NeverPaused == \A k \in Key : procs[k].state \notin {"PAUSING", "PAUSED"}
==============================================================================

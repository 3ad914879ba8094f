-------------------------- MODULE TaskServiceProofs --------------------------
(***************************************************************************)
(* Theorems about TaskService, for any number of containers, execs,        *)
(* processes and calls.                                                    *)
(*                                                                         *)
(* The types are kept whatever the constants.  The first safety theorems   *)
(* are for any client and any failure of the model and have one hypothesis,*)
(* DistinctPids: no pid is used twice.  Those of the second part are for   *)
(* clients that use ids as containerd does as well (AsContainerd).         *)
(*                                                                         *)
(* In both parts a few lemmas say what one step may do to one part of the  *)
(* state (a status, a spawning call, a call, a record, the history, the    *)
(* pump's hand); from them each conjunct of IInv, then of ClientInv and of *)
(* WaitInv, is shown to survive every step.                                *)
(***************************************************************************)
EXTENDS TaskServiceInvariant, TLAPS

(* A send changes the channel and the history, and keeps their types.      *)
LEMMA EmitType ==
  ASSUME TypeOK, NEW kind \in EventKinds, NEW p \in Procs \cup {NoProc}, Emit(kind, p)
  PROVE  /\ backlog' \in 0..ChanCap
         /\ sent' \in [{"exit", "delete"} -> [Procs -> 0..2]]
<1>1. backlog' \in 0..ChanCap
  BY ConstantsAssumption DEF Emit, TypeOK
<1>2. CASE kind = "other" \/ p = NoProc
  BY <1>1, <1>2 DEF Emit, TypeOK
<1>3. CASE kind # "other" /\ p # NoProc
  <2>1. kind \in {"exit", "delete"} /\ p \in Procs
    BY <1>3 DEF EventKinds
  <2>2. sent[kind] \in [Procs -> 0..2] /\ sent[kind][p] \in 0..2
    BY <2>1 DEF TypeOK
  <2>3. (IF sent[kind][p] = 2 THEN 2 ELSE sent[kind][p] + 1) \in 0..2
    BY <2>2
  <2>4. sent' = [sent EXCEPT ![kind][p] = IF @ = 2 THEN 2 ELSE @ + 1]
    BY <1>3 DEF Emit
  <2> QED
    BY <1>1, <2>1, <2>2, <2>3, <2>4 DEF TypeOK
<1> QED
  BY <1>2, <1>3

(* The kernel's helpers are functions of the type of status.               *)
LEMMA SlayType ==
  ASSUME TypeOK, NEW S
  PROVE  Slay(S) \in [Procs -> Statuses]
BY DEF Slay, TypeOK, Statuses

(* An id has a key for its init.                                           *)
LEMMA KeyFacts ==
  ASSUME NEW id \in Ids
  PROVE  InitKey(id) \in Key
BY DEF InitKey, Key

(* The records that are written.                                           *)
LEMMA RecordFacts ==
  /\ Absent \in Record
  /\ \A p \in Procs \cup {NoProc} : NewRecord(p) \in Record
BY DEF Absent, NewRecord, Record, States

(* The calls that are written.                                             *)
LEMMA CallFacts ==
  /\ Idle \in Call
  /\ \A pc \in CallPcs, k \in Key, p \in Procs \cup {NoProc}, kind \in {"delete", "other"} :
       At(pc, k, p, kind) \in Call
BY DEF Idle, At, Call, CallPcs

(* A call that is doing something has a key and a process of the types.    *)
LEMMA BusyCall ==
  ASSUME NEW r \in Call, r.pc # "idle"
  PROVE  /\ r.pc \in CallPcs /\ r.key \in Key /\ r.inc \in Procs \cup {NoProc}
         /\ r.kind \in {"delete", "other"}
         /\ \A pc \in CallPcs : [r EXCEPT !.pc = pc] \in Call
BY DEF Call, Idle, At, CallPcs

(* What a handler writes into a record leaves it a record.                 *)
LEMMA RecordUpdates ==
  ASSUME NEW r \in Record
  PROVE  /\ \A s \in States : [r EXCEPT !.state = s] \in Record
         /\ \A ws \in SUBSET Callers : [r EXCEPT !.waiters = ws] \in Record
         /\ \A p \in Procs \cup {NoProc} : [r EXCEPT !.inc = p, !.state = "RUNNING"] \in Record
         /\ \A p \in Procs :
              [r EXCEPT !.state = "STOPPED", !.code = p, !.waiters = {}] \in Record
BY DEF Record, States

(* The fields of a record.                                                 *)
LEMMA RecordFields ==
  ASSUME NEW r \in Record
  PROVE  /\ r.state \in States /\ r.waiters \in SUBSET Callers
         /\ r.inc \in Procs \cup {NoProc} /\ r.code \in Procs \cup {NoProc}
BY DEF Record

(* Every step keeps the types.                                             *)
LEMMA TypeStep == TypeOK /\ [Next]_vars => TypeOK'
<1> SUFFICES ASSUME TypeOK, [Next]_vars PROVE TypeOK'
  OBVIOUS
<1> DEFINE Calls == [Callers -> Call]
           Recs == [Key -> Record]
           Stats == [Procs -> Statuses]
           Rts == [Ids -> {"none", "created", "running"}]
           Locks == {"free", "pump"} \cup Callers
<1>1. ASSUME NEW p \in Procs, Exit(p) PROVE TypeOK'
  <2>1. status' \in Stats
    BY <1>1, SlayType DEF Exit
  <2> QED
    BY <1>1, <2>1 DEF Exit, TypeOK
<1>2. ASSUME NEW p \in Procs, Reap(p) PROVE TypeOK'
  BY <1>2 DEF Reap, TypeOK, Statuses
<1>3. ASSUME NEW c \in Callers, NEW id \in Ids, Create(c, id) PROVE TypeOK'
  <2>1. PICK p \in Procs : /\ Spawn(p, InitKey(id))
                           /\ call' = [call EXCEPT ![c] = At("insert", InitKey(id), p, "other")]
    BY <1>3 DEF Create
  <2>2. call' \in Calls
    BY <2>1, KeyFacts, CallFacts DEF TypeOK, CallPcs
  <2>3. status' \in Stats /\ owner' \in [Procs -> Key \cup {NoKey}]
    BY <2>1, KeyFacts DEF Spawn, TypeOK, Statuses
  <2>4. rt' \in Rts /\ lock' \in Locks
    BY <1>3 DEF Create, TypeOK
  <2> QED
    BY <1>3, <2>2, <2>3, <2>4 DEF Create, TypeOK
<1>4. ASSUME NEW c \in Callers, NEW id \in Ids, StartInit(c, id) PROVE TypeOK'
  <2>1. procs' \in Recs
    BY <1>4, KeyFacts, RecordUpdates DEF StartInit, TypeOK, States
  <2>2. call' \in Calls
    BY <1>4, KeyFacts, CallFacts, RecordFields DEF StartInit, TypeOK, CallPcs
  <2>3. rt' \in Rts
    BY <1>4 DEF StartInit, TypeOK
  <2> QED
    BY <1>4, <2>1, <2>2, <2>3 DEF StartInit, TypeOK
<1>5. ASSUME NEW c \in Callers, NEW id \in Ids, Pause(c, id) PROVE TypeOK'
  <2>1. procs' \in Recs
    BY <1>5, KeyFacts, RecordUpdates DEF Pause, TypeOK, States
  <2>2. call' \in Calls
    BY <1>5, KeyFacts, CallFacts DEF Pause, TypeOK, CallPcs
  <2>3. lock' \in Locks
    BY <1>5 DEF Pause, TypeOK
  <2> QED
    BY <1>5, <2>1, <2>2, <2>3 DEF Pause, TypeOK
<1>6. ASSUME NEW c \in Callers, NEW id \in Ids, Resume(c, id) PROVE TypeOK'
  <2>1. procs' \in Recs
    BY <1>6, KeyFacts, RecordUpdates DEF Resume, TypeOK, States
  <2>2. call' \in Calls
    BY <1>6, KeyFacts, CallFacts DEF Resume, TypeOK, CallPcs
  <2> QED
    BY <1>6, <2>1, <2>2 DEF Resume, TypeOK
<1>7. ASSUME NEW c \in Callers, NEW id \in Ids, DeleteInit(c, id) PROVE TypeOK'
  <2>1. call' \in Calls
    BY <1>7, KeyFacts, CallFacts, RecordFields DEF DeleteInit, TypeOK, CallPcs
  <2>2. status' \in Stats /\ rt' \in Rts
    BY <1>7, SlayType DEF DeleteInit, TypeOK
  <2> QED
    BY <1>7, <2>1, <2>2 DEF DeleteInit, TypeOK
<1>8. ASSUME NEW c \in Callers, NEW k \in Key, Exec(c, k) PROVE TypeOK'
  <2>1. procs' \in Recs
    BY <1>8, RecordFacts DEF Exec, TypeOK
  <2>2. call' \in Calls
    BY <1>8, CallFacts DEF Exec, TypeOK, CallPcs
  <2> QED
    BY <1>8, <2>1, <2>2 DEF Exec, TypeOK
<1>9. ASSUME NEW c \in Callers, NEW k \in Key, StartExec(c, k) PROVE TypeOK'
  <2>1. PICK p \in Procs : /\ Spawn(p, k)
                           /\ call' = [call EXCEPT ![c] = At("record", k, p, "other")]
    BY <1>9 DEF StartExec
  <2>2. call' \in Calls
    BY <2>1, CallFacts DEF TypeOK, CallPcs
  <2>3. status' \in Stats /\ owner' \in [Procs -> Key \cup {NoKey}]
    BY <2>1 DEF Spawn, TypeOK, Statuses
  <2> QED
    BY <1>9, <2>2, <2>3 DEF StartExec, TypeOK
<1>10. ASSUME NEW c \in Callers, NEW k \in Key, DeleteExec(c, k) PROVE TypeOK'
  <2>1. procs' \in Recs
    BY <1>10, RecordFacts DEF DeleteExec, TypeOK
  <2>2. call' \in Calls
    BY <1>10, CallFacts, RecordFields DEF DeleteExec, TypeOK, CallPcs
  <2> QED
    BY <1>10, <2>1, <2>2 DEF DeleteExec, TypeOK
<1>11. ASSUME NEW c \in Callers, NEW k \in Key, Wait(c, k) PROVE TypeOK'
  <2>1. procs' \in Recs
    <3>1. procs[k] \in Record /\ procs[k].waiters \cup {c} \in SUBSET Callers
      BY <1>11, RecordFields DEF TypeOK
    <3> DEFINE r == [procs[k] EXCEPT !.waiters = procs[k].waiters \cup {c}]
    <3>2. r \in Record
      BY <3>1, RecordUpdates
    <3>3. procs' = [procs EXCEPT ![k] = r] \/ procs' = procs
      <4>1. CASE Shown(k) \in {"CREATED", "RUNNING"}
        BY <1>11, <4>1 DEF Wait
      <4>2. CASE Shown(k) \notin {"CREATED", "RUNNING"}
        BY <1>11, <4>2 DEF Wait
      <4> QED
        BY <4>1, <4>2
    <3> HIDE DEF r
    <3> QED
      BY <3>2, <3>3 DEF TypeOK
  <2>2. call' \in Calls
    BY <1>11, CallFacts, RecordFields DEF Wait, TypeOK, CallPcs
  <2> QED
    BY <1>11, <2>1, <2>2 DEF Wait, TypeOK
<1>12. ASSUME NEW c \in Callers, CreateInsert(c) PROVE TypeOK'
  <2>1. procs' \in Recs
    BY <1>12, RecordFacts, BusyCall DEF CreateInsert, TypeOK
  <2>2. call' \in Calls
    BY <1>12, BusyCall DEF CreateInsert, TypeOK, CallPcs
  <2> QED
    BY <1>12, <2>1, <2>2 DEF CreateInsert, TypeOK
<1>13. ASSUME NEW c \in Callers, ExecRecord(c) PROVE TypeOK'
  <2>1. procs' \in Recs
    BY <1>13, RecordUpdates, BusyCall DEF ExecRecord, TypeOK
  <2>2. call' \in Calls
    BY <1>13, BusyCall DEF ExecRecord, TypeOK, CallPcs
  <2> QED
    BY <1>13, <2>1, <2>2 DEF ExecRecord, TypeOK
<1>14. ASSUME NEW c \in Callers, LateFailure(c) \/ Timeout(c) PROVE TypeOK'
  BY <1>14, CallFacts DEF LateFailure, Timeout, TypeOK
<1>25. ASSUME NEW c \in Callers, PauseDone(c) \/ PauseFails(c) PROVE TypeOK'
  <2>1. call[c].key \in Key
    BY <1>25, BusyCall DEF PauseDone, PauseFails, Pausing, TypeOK
  <2>2. procs' \in Recs
    <3> DEFINE j == call[c].key
    <3>1. PICK s \in States : procs' = [procs EXCEPT ![j] = [procs[j] EXCEPT !.state = s]]
      BY <1>25 DEF PauseDone, PauseFails, States
    <3>2. [procs[j] EXCEPT !.state = s] \in Record
      BY <2>1, RecordUpdates DEF TypeOK
    <3> HIDE DEF j
    <3> QED
      BY <3>1, <3>2 DEF TypeOK
  <2>3. call' \in Calls
    BY <1>25, <2>1, CallFacts DEF PauseDone, PauseFails, TypeOK, CallPcs
  <2> QED
    BY <1>25, <2>2, <2>3 DEF PauseDone, PauseFails, TypeOK
<1>26. ASSUME NEW c \in Callers, NEW k \in Key, Kill(c, k) PROVE TypeOK'
  BY <1>1, <1>26 DEF Kill
<1>15. ASSUME NEW c \in Callers, DeleteRemove(c) PROVE TypeOK'
  <2>1. procs' \in Recs
    BY <1>15, RecordFacts DEF DeleteRemove, TypeOK
  <2>2. call' \in Calls
    BY <1>15, BusyCall DEF DeleteRemove, TypeOK, CallPcs
  <2> QED
    BY <1>15, <2>1, <2>2 DEF DeleteRemove, TypeOK
<1>16. ASSUME NEW c \in Callers, SendEvent(c) PROVE TypeOK'
  <2>1. call[c].kind \in EventKinds /\ call[c].inc \in Procs \cup {NoProc}
    BY <1>16, BusyCall DEF SendEvent, TypeOK, EventKinds
  <2>2. backlog' \in 0..ChanCap /\ sent' \in [{"exit", "delete"} -> [Procs -> 0..2]]
    BY <1>16, <2>1, EmitType DEF SendEvent
  <2> QED
    BY <1>16, <2>2, CallFacts DEF SendEvent, TypeOK
<1>17. ASSUME NEW c \in Callers, Wake(c) PROVE TypeOK'
  <2>1. call[c].key \in Key
    BY <1>17, BusyCall DEF Wake, TypeOK
  <2>2. call' \in Calls
    BY <1>17, <2>1, CallFacts, RecordFields DEF Wake, TypeOK, CallPcs
  <2> QED
    BY <1>17, <2>2 DEF Wake, TypeOK
<1>18. ASSUME NEW c \in Callers, Return(c) PROVE TypeOK'
  BY <1>18, CallFacts DEF Return, TypeOK
<1>19. ASSUME NEW c \in Callers, Shutdown(c) PROVE TypeOK'
  BY <1>19 DEF Shutdown, TypeOK
<1>20. ASSUME NEW p \in Procs, PumpReceive(p) PROVE TypeOK'
  BY <1>20 DEF PumpReceive, TypeOK, Statuses
<1>21. ASSUME PumpHandle PROVE TypeOK'
  <2>1. hand \in Procs
    BY <1>21 DEF PumpHandle, TypeOK
  <2>2. ASSUME NEW k \in Matches(hand), PumpRecord(k, hand) PROVE TypeOK'
    <3>1. status' \in Stats
      BY <2>2, <2>1, SlayType DEF PumpRecord, PumpKills, PumpSpares, TypeOK, Statuses
    <3>2. procs' \in Recs
      BY <2>2, <2>1, RecordUpdates DEF PumpRecord, Matches, TypeOK
    <3> QED
      BY <1>21, <2>2, <3>1, <3>2 DEF PumpHandle, PumpRecord, TypeOK
  <2>3. CASE Matches(hand) = {}
    BY <1>21, <2>3, <2>1 DEF PumpHandle, TypeOK, Statuses
  <2> QED
    BY <1>21, <2>2, <2>3 DEF PumpHandle
<1>22. ASSUME PumpSend PROVE TypeOK'
  <2>1. backlog' \in 0..ChanCap /\ sent' \in [{"exit", "delete"} -> [Procs -> 0..2]]
    BY <1>22, EmitType DEF PumpSend, TypeOK, EventKinds
  <2> QED
    BY <1>22, <2>1 DEF PumpSend, TypeOK
<1>23. ASSUME Forward PROVE TypeOK'
  BY <1>23, ConstantsAssumption DEF Forward, TypeOK
<1>24. CASE UNCHANGED vars
  BY <1>24 DEF vars, TypeOK
<1> QED
  BY <1>1, <1>2, <1>3, <1>4, <1>5, <1>6, <1>7, <1>8, <1>9, <1>10, <1>11, <1>12, <1>13,
     <1>14, <1>15, <1>16, <1>17, <1>18, <1>19, <1>20, <1>21, <1>22, <1>23, <1>24, <1>25, <1>26
  DEF Next, Kernel, Pump, ContainerCall, ProcessCall, CallStep

(* The first state has the types.                                          *)
LEMMA TypeInit == Init => TypeOK
<1> SUFFICES ASSUME Init PROVE TypeOK
  OBVIOUS
<1>1. procs \in [Key -> Record] /\ call \in [Callers -> Call]
  BY RecordFacts, CallFacts DEF Init
<1>2. backlog \in 0..ChanCap /\ sent \in [{"exit", "delete"} -> [Procs -> 0..2]]
  BY ConstantsAssumption DEF Init
<1> QED
  BY <1>1, <1>2 DEF Init, TypeOK, Statuses

(* The type invariant, for any constants the assumption allows.            *)
THEOREM TypeCorrect == Spec => []TypeOK
BY TypeInit, TypeStep, PTL DEF Spec
------------------------------------------------------------------------------
(* A status only moves forward, a process once born keeps its owner, and   *)
(* an exit leaves Pending only in the hand of the pump.                    *)
LEMMA StatusStep ==
  ASSUME TypeOK, [Next]_vars
  PROVE  \A p \in Procs :
           /\ status[p] # "unborn" => status'[p] # "unborn" /\ owner'[p] = owner[p]
           /\ status[p] = "done" => status'[p] = "done"
           /\ status[p] = "handed" => status'[p] = "handed" \/ (PumpHandle /\ hand = p)
           /\ status[p] \in Pending => status'[p] \in Pending \/ (PumpHandle /\ hand = p)
<1> DEFINE Fwd == \A p \in Procs :
           /\ status[p] # "unborn" => status'[p] # "unborn" /\ owner'[p] = owner[p]
           /\ status[p] = "done" => status'[p] = "done"
           /\ status[p] = "handed" => status'[p] = "handed" \/ (PumpHandle /\ hand = p)
           /\ status[p] \in Pending => status'[p] \in Pending \/ (PumpHandle /\ hand = p)
<1>1. ASSUME NEW S \in SUBSET Procs, \A p \in S : status[p] = "alive", status' = Slay(S), UNCHANGED owner
      PROVE Fwd
  BY <1>1 DEF Slay, TypeOK, Pending
<1>2. ASSUME NEW p \in Procs, NEW k, Spawn(p, k) PROVE Fwd
  BY <1>2 DEF Spawn, TypeOK, Pending
<1>3. ASSUME NEW p \in Procs, Exit(p) PROVE Fwd
  <2>1. \E S \in SUBSET Procs : (\A q \in S : status[q] = "alive") /\ status' = Slay(S)
    BY <1>3 DEF Exit, AliveIn
  <2> QED
    BY <1>1, <1>3, <2>1 DEF Exit
<1>4. ASSUME NEW p \in Procs, Reap(p) PROVE Fwd
  BY <1>4 DEF Reap, TypeOK, Pending
<1>5. ASSUME NEW c \in Callers, NEW id \in Ids, DeleteInit(c, id) PROVE Fwd
  BY <1>5, <1>1 DEF DeleteInit, AliveIn
<1>6. ASSUME NEW p \in Procs, PumpReceive(p) PROVE Fwd
  BY <1>6 DEF PumpReceive, TypeOK, Pending
<1>7. ASSUME PumpHandle PROVE Fwd
  <2>1. hand \in Procs /\ UNCHANGED owner
    BY <1>7 DEF PumpHandle, TypeOK
  <2>2. \/ status' = [status EXCEPT ![hand] = "done"]
        \/ \E k \in Key : status' = [Slay(AliveIn(k[1])) EXCEPT ![hand] = "done"]
    BY <1>7 DEF PumpHandle, PumpRecord, PumpKills, PumpSpares, Matches
  <2>3. CASE status' = [status EXCEPT ![hand] = "done"]
    BY <1>7, <2>1, <2>3 DEF TypeOK, Pending
  <2>4. ASSUME NEW k \in Key, status' = [Slay(AliveIn(k[1])) EXCEPT ![hand] = "done"] PROVE Fwd
    BY <1>7, <2>1, <2>4 DEF Slay, AliveIn, TypeOK, Pending
  <2> QED
    BY <2>2, <2>3, <2>4
<1>8. ASSUME UNCHANGED <<status, owner>> PROVE Fwd
  BY <1>8
<1>9. ASSUME NEW c \in Callers, NEW id \in Ids, Create(c, id) PROVE Fwd
  BY <1>9, <1>2 DEF Create
<1>10. ASSUME NEW c \in Callers, NEW k \in Key, StartExec(c, k) PROVE Fwd
  BY <1>10, <1>2 DEF StartExec
<1>11. ASSUME NEW c \in Callers, CallStep(c) PROVE Fwd
  BY <1>8, <1>11 DEF CallStep, CreateInsert, ExecRecord, PauseDone, PauseFails, LateFailure,
     Timeout, DeleteRemove, SendEvent, Wake, Return, Shutdown
<1>12. ASSUME NEW c \in Callers, NEW id \in Ids, StartInit(c, id) \/ Pause(c, id) \/ Resume(c, id)
       PROVE Fwd
  BY <1>8, <1>12 DEF StartInit, Pause, Resume
<1>13. ASSUME NEW c \in Callers, NEW k \in Key,
              Exec(c, k) \/ DeleteExec(c, k) \/ Kill(c, k) \/ Wait(c, k)
       PROVE Fwd
  BY <1>3, <1>8, <1>13 DEF Exec, DeleteExec, Kill, Wait
<1>14. ASSUME PumpSend \/ Forward \/ UNCHANGED vars PROVE Fwd
  BY <1>8, <1>14 DEF PumpSend, Forward, vars
<1> HIDE DEF Fwd
<1>15. ASSUME NEW c \in Callers, NEW id \in Ids, ContainerCall(c, id) PROVE Fwd
  BY <1>5, <1>9, <1>12, <1>15 DEF ContainerCall
<1>16. ASSUME NEW c \in Callers, NEW k \in Key, ProcessCall(c, k) PROVE Fwd
  BY <1>10, <1>13, <1>16 DEF ProcessCall
<1>17. ASSUME Kernel \/ Pump PROVE Fwd
  BY <1>3, <1>4, <1>6, <1>7, <1>14, <1>17 DEF Kernel, Pump
<1>18. Fwd
  BY <1>11, <1>14, <1>15, <1>16, <1>17 DEF Next
<1> QED
  BY <1>18 DEF Fwd

(* A call that moves on keeps the rest of what it knows.                   *)
LEMMA NextPc ==
  ASSUME NEW r \in Call, NEW pc
  PROVE  /\ [r EXCEPT !.pc = pc].pc = pc
         /\ [r EXCEPT !.pc = pc].key = r.key
         /\ [r EXCEPT !.pc = pc].inc = r.inc
         /\ [r EXCEPT !.pc = pc].kind = r.kind
BY DEF Call, Idle, At

(* While no call holds the lock no call is between spawn and record.       *)
LEMMA NoSpawning ==
  ASSUME SpawningInv, lock \in {"free", "pump"}, NEW c \in Callers
  PROVE  ~ Spawning(c)
BY ConstantsAssumption DEF SpawningInv

(* A call that is spawning after a step either began to in that step, or   *)
(* was before, and then nobody else took or gave up the lock.              *)
LEMMA SpawningSteps ==
  ASSUME TypeOK, SpawningInv, [Next]_vars, NEW c \in Callers, Spawning(c)'
  PROVE  \/ \E id \in Ids : Create(c, id)
         \/ \E k \in Key : StartExec(c, k)
         \/ Spawning(c) /\ call'[c] = call[c] /\ lock' = lock /\ UNCHANGED procs /\ ~ PumpHandle
<1> DEFINE Kept == Spawning(c) /\ call'[c] = call[c] /\ lock' = lock /\ procs' = procs /\ ~ PumpHandle
<1>1. ASSUME lock \in {"free", "pump"} PROVE ~ Spawning(c)
  BY <1>1, NoSpawning
<1>2. ASSUME Spawning(c) PROVE ~ PumpHandle /\ lock = c
  BY <1>1, <1>2 DEF PumpHandle, SpawningInv
<1>3. ASSUME UNCHANGED <<call, lock, procs>> PROVE Kept
  BY <1>2, <1>3 DEF Spawning
<1>4. ASSUME NEW d \in Callers, NEW id \in Ids, Create(d, id) PROVE Create(c, id)
  BY <1>1, <1>4 DEF Create, Begin, Spawning, TypeOK
<1>5. ASSUME NEW d \in Callers, NEW k \in Key, StartExec(d, k) PROVE StartExec(c, k)
  BY <1>1, <1>5 DEF StartExec, Begin, Spawning, TypeOK
<1>6. ASSUME NEW d \in Callers, NEW id \in Ids,
             StartInit(d, id) \/ Pause(d, id) \/ Resume(d, id) \/ DeleteInit(d, id) PROVE FALSE
  BY <1>1, <1>6 DEF StartInit, Pause, Resume, DeleteInit, Begin, Spawning, At, TypeOK
<1>7. ASSUME NEW d \in Callers, NEW k \in Key, Exec(d, k) \/ DeleteExec(d, k) \/ Wait(d, k)
      PROVE FALSE
  BY <1>1, <1>7 DEF Exec, DeleteExec, Wait, Begin, Spawning, At, TypeOK
<1>8. ASSUME NEW d \in Callers, CreateInsert(d) \/ ExecRecord(d) \/ LateFailure(d) PROVE FALSE
  <2>1. lock = d
    BY <1>8 DEF CreateInsert, ExecRecord, LateFailure, SpawningInv, Spawning
  <2>2. c = d
    BY <1>2, <1>8, <2>1 DEF CreateInsert, ExecRecord, LateFailure, Spawning, TypeOK
  <2>3. call \in [Callers -> Call] /\ [call[d] EXCEPT !.pc = "send"].pc = "send"
    BY NextPc DEF TypeOK
  <2>4. call'[c].pc \in {"send", "idle"}
    <3>1. CASE CreateInsert(d) \/ ExecRecord(d)
      BY <2>2, <2>3, <3>1 DEF CreateInsert, ExecRecord
    <3>2. CASE LateFailure(d)
      BY <2>2, <2>3, <3>2 DEF LateFailure, Idle, At
    <3> QED
      BY <1>8, <3>1, <3>2
  <2> QED
    BY <2>4 DEF Spawning
<1>20. ASSUME NEW d \in Callers, PauseDone(d) \/ PauseFails(d) PROVE FALSE
  <2>1. call'[c] = call[c] \/ (c = d /\ call'[c].pc \in {"send", "idle"})
    BY <1>20 DEF PauseDone, PauseFails, Idle, At, TypeOK
  <2>2. call[d].pc = "pausing" /\ lock = d
    BY <1>20 DEF PauseDone, PauseFails, Pausing
  <2>3. Spawning(c)
    BY <2>1 DEF Spawning
  <2>4. c = d
    BY <1>2, <2>2, <2>3
  <2> QED
    BY <2>2, <2>3, <2>4 DEF Spawning
<1>21. ASSUME NEW d \in Callers, Timeout(d) PROVE Kept
  <2>1. c # d /\ call'[c] = call[c]
    BY <1>21 DEF Timeout, Spawning, Idle, At, TypeOK
  <2>2. Spawning(c)
    BY <2>1 DEF Spawning
  <2> QED
    BY <1>2, <1>21, <2>1, <2>2 DEF Timeout
<1>9. ASSUME NEW d \in Callers, DeleteRemove(d) \/ Wake(d) \/ Shutdown(d) PROVE FALSE
  <2>1. lock = "free"
    BY <1>9 DEF DeleteRemove, Wake, Shutdown, Begin
  <2>2. call \in [Callers -> Call] /\ [call[d] EXCEPT !.pc = "send"].pc = "send"
    BY NextPc DEF TypeOK
  <2>3. call'[c].pc \in {"send", "idle", "replied"} \/ call'[c] = call[c]
    <3>1. CASE DeleteRemove(d)
      BY <2>2, <3>1 DEF DeleteRemove
    <3>2. CASE Wake(d)
      BY <2>2, <3>2 DEF Wake, Idle, At
    <3>3. CASE Shutdown(d)
      BY <3>3 DEF Shutdown
    <3> QED
      BY <1>9, <3>1, <3>2, <3>3
  <2> QED
    BY <1>1, <2>1, <2>3 DEF Spawning
<1>10. ASSUME NEW d \in Callers, SendEvent(d) \/ Return(d) PROVE Kept
  <2>1. Spawning(c) /\ call'[c] = call[c]
    BY <1>10 DEF SendEvent, Return, Spawning, Idle, At, TypeOK
  <2> QED
    BY <1>2, <1>10, <2>1 DEF SendEvent, Return
<1>11. ASSUME NEW p \in Procs, Exit(p) \/ Reap(p) \/ PumpReceive(p) PROVE Kept
  BY <1>3, <1>11 DEF Exit, Reap, PumpReceive
<1>12. ASSUME PumpHandle \/ PumpSend PROVE FALSE
  BY <1>1, <1>12 DEF PumpHandle, PumpSend, Spawning
<1>13. ASSUME Forward \/ UNCHANGED vars PROVE Kept
  BY <1>3, <1>13 DEF Forward, vars
<1> HIDE DEF Kept
<1> DEFINE Goal == (\E id \in Ids : Create(c, id)) \/ (\E k \in Key : StartExec(c, k)) \/ Kept
<1>14. ASSUME NEW d \in Callers, NEW id \in Ids, ContainerCall(d, id) PROVE Goal
  BY <1>4, <1>6, <1>14 DEF ContainerCall
<1>15. ASSUME NEW d \in Callers, NEW k \in Key, ProcessCall(d, k) PROVE Goal
  BY <1>5, <1>7, <1>11, <1>15 DEF ProcessCall, Kill
<1>16. ASSUME NEW d \in Callers, CallStep(d) PROVE Goal
  BY <1>8, <1>9, <1>10, <1>16, <1>20, <1>21 DEF CallStep
<1>17. ASSUME Kernel \/ Pump PROVE Goal
  BY <1>11, <1>12, <1>13, <1>17 DEF Kernel, Pump
<1>19. ASSUME UNCHANGED vars PROVE Goal
  BY <1>13, <1>19
<1> HIDE DEF Goal
<1>18. Goal
  BY <1>14, <1>15, <1>16, <1>17, <1>19 DEF Next
<1> QED
  BY <1>18 DEF Goal, Kept

(* The processes in the hands of calls: SpawningInv survives a step.       *)
LEMMA SpawningStep ==
  ASSUME TypeOK, SpawningInv, [Next]_vars
  PROVE  SpawningInv'
<1> SUFFICES ASSUME NEW c \in Callers, Spawning(c)'
             PROVE  /\ lock' = c
                    /\ call'[c].kind = "other"
                    /\ call'[c].inc \in Procs
                    /\ owner'[call'[c].inc] = call'[c].key
                    /\ status'[call'[c].inc] \in Pending
                    /\ call'[c].pc = "insert" => call'[c].key[2] = InitProc
  BY DEF SpawningInv
<1> DEFINE Born(p, k, pc) == /\ lock' = c /\ Spawn(p, k) /\ call'[c] = At(pc, k, p, "other")
                             /\ pc = "insert" => k[2] = InitProc
<1>1. ASSUME NEW id \in Ids, Create(c, id)
      PROVE  \E p \in Procs, k \in Key : Born(p, k, "insert")
  <2>1. PICK p \in Procs : /\ Spawn(p, InitKey(id))
                           /\ call' = [call EXCEPT ![c] = At("insert", InitKey(id), p, "other")]
    BY <1>1 DEF Create
  <2>2. Born(p, InitKey(id), "insert")
    BY <1>1, <2>1 DEF Create, InitKey, TypeOK
  <2> QED
    BY <2>2, KeyFacts
<1>2. ASSUME NEW k \in Key, StartExec(c, k)
      PROVE  \E p \in Procs : Born(p, k, "record")
  BY <1>2 DEF StartExec, TypeOK
<1>3. ASSUME NEW p \in Procs, NEW k, Spawn(p, k) PROVE status'[p] \in Pending /\ owner'[p] = k
  BY <1>3 DEF Spawn, Pending, TypeOK
<1>4. CASE (\E id \in Ids : Create(c, id)) \/ (\E k \in Key : StartExec(c, k))
  <2>1. PICK p \in Procs, k \in Key, pc \in {"insert", "record"} : Born(p, k, pc)
    BY <1>1, <1>2, <1>4
  <2> QED
    BY <1>3, <2>1 DEF At
<1>5. CASE Spawning(c) /\ call'[c] = call[c] /\ lock' = lock /\ UNCHANGED procs /\ ~ PumpHandle
  <2>1. status[call[c].inc] \in Pending /\ call[c].inc \in Procs
    BY <1>5 DEF SpawningInv
  <2>2. status'[call[c].inc] \in Pending /\ owner'[call[c].inc] = owner[call[c].inc]
    BY <1>5, <2>1, StatusStep DEF Pending
  <2> QED
    BY <1>5, <2>1, <2>2 DEF SpawningInv
<1> QED
  BY <1>4, <1>5, SpawningSteps

(* What a step makes of a call: apart from the two that spawn and the      *)
(* three of a delete, it ends in a state nothing in IInv speaks of.        *)
LEMMA CallSteps ==
  ASSUME TypeOK, SpawningInv, [Next]_vars, NEW c \in Callers
  PROVE  \/ call'[c] = call[c]
         \/ Spawning(c)'
         \/ \E id \in Ids : DeleteInit(c, id) /\ call'[c].pc = "remove"
         \/ \E k \in Key : DeleteExec(c, k)
         \/ DeleteRemove(c)
         \/ call'[c].pc = "send" /\ call'[c].kind = "other"
         \/ call'[c].pc \in {"pausing", "waiting", "replied", "idle"}
<1> DEFINE Goal ==
         \/ call'[c] = call[c]
         \/ Spawning(c)'
         \/ \E id \in Ids : DeleteInit(c, id) /\ call'[c].pc = "remove"
         \/ \E k \in Key : DeleteExec(c, k)
         \/ DeleteRemove(c)
         \/ call'[c].pc = "send" /\ call'[c].kind = "other"
         \/ call'[c].pc \in {"pausing", "waiting", "replied", "idle"}
<1>1. ASSUME NEW d \in Callers, NEW r, call' = [call EXCEPT ![d] = r]
      PROVE  call'[c] = call[c] \/ (c = d /\ call'[c] = r)
  BY <1>1 DEF TypeOK
<1>2. ASSUME UNCHANGED call PROVE Goal
  BY <1>2
<1>3. ASSUME NEW d \in Callers, NEW id \in Ids, Create(d, id) PROVE Goal
  BY <1>1, <1>3 DEF Create, Spawning, At
<1>4. ASSUME NEW d \in Callers, NEW id \in Ids, StartInit(d, id) \/ Pause(d, id) \/ Resume(d, id)
      PROVE Goal
  BY <1>1, <1>4 DEF StartInit, Pause, Resume, At
<1>5. ASSUME NEW d \in Callers, NEW id \in Ids, DeleteInit(d, id) PROVE Goal
  <2>1. call' = [call EXCEPT ![d] = At("remove", InitKey(id), procs[InitKey(id)].inc, "delete")]
        \/ UNCHANGED call
    BY <1>5 DEF DeleteInit
  <2> QED
    BY <1>1, <1>5, <2>1 DEF At
<1>6. ASSUME NEW d \in Callers, NEW k \in Key, StartExec(d, k) PROVE Goal
  BY <1>1, <1>6 DEF StartExec, Spawning, At
<1>7. ASSUME NEW d \in Callers, NEW k \in Key, DeleteExec(d, k) PROVE Goal
  <2>1. call' = [call EXCEPT ![d] = At("send", k, procs[k].inc, "delete")]
    BY <1>7 DEF DeleteExec
  <2> QED
    BY <1>1, <1>7, <2>1
<1>8. ASSUME NEW d \in Callers, NEW k \in Key, Exec(d, k) \/ Wait(d, k) PROVE Goal
  <2>1. \E pc \in {"send", "waiting", "replied"} : \E p :
           call' = [call EXCEPT ![d] = At(pc, k, p, "other")]
    BY <1>8 DEF Exec, Wait
  <2> QED
    BY <1>1, <2>1 DEF At
<1>9. ASSUME NEW d \in Callers, CreateInsert(d) \/ ExecRecord(d) PROVE Goal
  <2>1. call' = [call EXCEPT ![d] = [call[d] EXCEPT !.pc = "send"]] /\ Spawning(d)
    BY <1>9 DEF CreateInsert, ExecRecord, Spawning
  <2>2. call[d] \in Call /\ call[d].kind = "other"
    BY <2>1 DEF SpawningInv, TypeOK
  <2> QED
    BY <1>1, <2>1, <2>2, NextPc
<1>10. ASSUME NEW d \in Callers,
              PauseDone(d) \/ PauseFails(d) \/ LateFailure(d) \/ Timeout(d) \/ SendEvent(d)
                \/ Wake(d) \/ Return(d)
       PROVE Goal
  <2>1. \E k, p : \/ call' = [call EXCEPT ![d] = Idle]
                  \/ \E pc \in {"send", "replied"} : call' = [call EXCEPT ![d] = At(pc, k, p, "other")]
    BY <1>10 DEF PauseDone, PauseFails, LateFailure, Timeout, SendEvent, Wake, Return
  <2> QED
    BY <1>1, <2>1 DEF At, Idle
<1>11. ASSUME NEW d \in Callers, DeleteRemove(d) PROVE Goal
  BY <1>1, <1>11 DEF DeleteRemove
<1>12. ASSUME NEW d \in Callers, Shutdown(d) PROVE Goal
  BY <1>2, <1>12 DEF Shutdown
<1>13. ASSUME (\E p \in Procs : Exit(p) \/ Reap(p) \/ PumpReceive(p)) \/ PumpHandle \/ PumpSend \/ Forward
       PROVE Goal
  BY <1>2, <1>13 DEF Exit, Reap, PumpReceive, PumpHandle, PumpSend, Forward
<1>14. ASSUME UNCHANGED vars PROVE Goal
  BY <1>2, <1>14 DEF vars
<1> HIDE DEF Goal
<1>15. ASSUME NEW d \in Callers, NEW id \in Ids, ContainerCall(d, id) PROVE Goal
  BY <1>3, <1>4, <1>5, <1>15 DEF ContainerCall
<1>16. ASSUME NEW d \in Callers, NEW k \in Key, ProcessCall(d, k) PROVE Goal
  BY <1>6, <1>7, <1>8, <1>13, <1>16 DEF ProcessCall, Kill
<1>17. ASSUME NEW d \in Callers, CallStep(d) PROVE Goal
  BY <1>9, <1>10, <1>11, <1>12, <1>17 DEF CallStep
<1>18. Goal
  BY <1>13, <1>14, <1>15, <1>16, <1>17 DEF Next, Kernel, Pump
<1> QED
  BY <1>18 DEF Goal

(* The fields a handler does not write keep their values.                  *)
LEMMA RecordReads ==
  ASSUME NEW r \in Record
  PROVE  /\ \A x : [r EXCEPT !.state = x].state = x /\ [r EXCEPT !.state = x].inc = r.inc
         /\ \A x : /\ [r EXCEPT !.waiters = x].state = r.state
                   /\ [r EXCEPT !.waiters = x].inc = r.inc
         /\ \A x : /\ [r EXCEPT !.inc = x, !.state = "RUNNING"].inc = x
                   /\ [r EXCEPT !.inc = x, !.state = "RUNNING"].state = "RUNNING"
         /\ \A x : /\ [r EXCEPT !.state = "STOPPED", !.code = x, !.waiters = {}].inc = r.inc
                   /\ [r EXCEPT !.state = "STOPPED", !.code = x, !.waiters = {}].state = "STOPPED"
                   /\ [r EXCEPT !.state = "STOPPED", !.code = x, !.waiters = {}].code = x
BY DEF Record

(* What may be made of a record: taken off, put on anew, given the process *)
(* a call spawned, stopped by the pump, waited for, or moved between the   *)
(* states of an init process that has not stopped.                         *)
Going == {"CREATED", "RUNNING", "PAUSING", "PAUSED"}

TakenOff(k) ==
  /\ procs'[k] = Absent
  /\ \/ \E c \in Callers : DeleteExec(c, k)
     \/ \E c \in Callers : DeleteRemove(c) /\ k \in Keys(call[c].key[1])
     \/ \E c \in Callers : CreateInsert(c) /\ k \in Keys(call[c].key[1]) /\ k # call[c].key

PutOn(k) ==
  \/ \E c \in Callers : Exec(c, k) /\ procs'[k] = NewRecord(NoProc)
  \/ \E c \in Callers : CreateInsert(c) /\ k = call[c].key /\ procs'[k] = NewRecord(call[c].inc)

GivenProcess(k) ==
  \E c \in Callers :
    /\ ExecRecord(c) /\ k = call[c].key
    /\ procs'[k] = [procs[k] EXCEPT !.inc = call[c].inc, !.state = "RUNNING"]

StoppedByPump(k) ==
  /\ PumpHandle /\ HasPid(k, hand) /\ PumpRecord(k, hand)
  /\ procs'[k] = [procs[k] EXCEPT !.state = "STOPPED", !.code = hand, !.waiters = {}]

WaitedFor(k) ==
  /\ procs[k].state \in {"CREATED", "RUNNING"}
  /\ \E c \in Callers : procs'[k] = [procs[k] EXCEPT !.waiters = procs[k].waiters \cup {c}]

Moved(k) ==
  /\ k[2] = InitProc \/ procs[k].state = "PAUSING"
  /\ procs[k].state \in Going
  /\ \E s \in Going :
       /\ procs'[k] = [procs[k] EXCEPT !.state = s]
       /\ s \in {"PAUSING", "PAUSED"} => "pause" \in Ops \/ procs[k].state = "PAUSING"

(* A step does one of these to a record or leaves it alone.                *)
LEMMA RecordSteps ==
  ASSUME TypeOK, [Next]_vars, NEW k \in Key
  PROVE  \/ procs'[k] = procs[k]
         \/ TakenOff(k) \/ PutOn(k) \/ GivenProcess(k)
         \/ StoppedByPump(k) \/ WaitedFor(k) \/ Moved(k)
<1> DEFINE Goal == \/ procs'[k] = procs[k]
                   \/ TakenOff(k) \/ PutOn(k) \/ GivenProcess(k)
                   \/ StoppedByPump(k) \/ WaitedFor(k) \/ Moved(k)
<1>1. ASSUME NEW j \in Key, NEW r, procs' = [procs EXCEPT ![j] = r]
      PROVE  procs'[k] = procs[k] \/ (k = j /\ procs'[k] = r)
  BY <1>1 DEF TypeOK
<1>2. ASSUME UNCHANGED procs PROVE Goal
  BY <1>2
<1>3. ASSUME NEW c \in Callers, NEW id \in Ids, StartInit(c, id) \/ Pause(c, id) \/ Resume(c, id)
      PROVE Goal
  <2> DEFINE j == InitKey(id)
  <2>1. \E s \in Going : /\ procs' = [procs EXCEPT ![j] = [procs[j] EXCEPT !.state = s]]
                         /\ s \in {"PAUSING", "PAUSED"} => "pause" \in Ops
    BY <1>3 DEF StartInit, Pause, Resume, Begin, Going
  <2>2. j \in Key /\ j[2] = InitProc
    BY KeyFacts DEF InitKey
  <2>3. procs[j].state \in Going
    <3>1. procs[j].state \in States /\ procs[j].state \notin {"ABSENT", "STOPPED"}
      BY <1>3, <2>2, RecordFields DEF StartInit, Pause, Resume, TypeOK
    <3> QED
      BY <3>1 DEF States, Going
  <2> HIDE DEF j
  <2> QED
    BY <1>1, <2>1, <2>2, <2>3 DEF Moved
<1>4. ASSUME NEW c \in Callers, PauseDone(c) \/ PauseFails(c) PROVE Goal
  <2> DEFINE j == call[c].key
  <2>1. \E s \in Going : procs' = [procs EXCEPT ![j] = [procs[j] EXCEPT !.state = s]]
    BY <1>4 DEF PauseDone, PauseFails, Going
  <2>2. procs[j].state = "PAUSING"
    BY <1>4 DEF PauseDone, PauseFails, Pausing
  <2>3. j \in Key
    BY <1>4, BusyCall DEF PauseDone, PauseFails, Pausing, TypeOK
  <2> HIDE DEF j
  <2> QED
    BY <1>1, <2>1, <2>2, <2>3 DEF Moved, Going
<1>5. ASSUME NEW c \in Callers, NEW j \in Key, Exec(c, j) \/ DeleteExec(c, j) PROVE Goal
  <2>1. CASE Exec(c, j)
    BY <1>1, <2>1 DEF Exec, PutOn
  <2>2. CASE DeleteExec(c, j)
    BY <1>1, <2>2 DEF DeleteExec, TakenOff
  <2> QED
    BY <1>5, <2>1, <2>2
<1>6. ASSUME NEW c \in Callers, NEW j \in Key, Wait(c, j) PROVE Goal
  <2>1. CASE Shown(j) \in {"CREATED", "RUNNING"}
    <3>1. procs' = [procs EXCEPT ![j] = [procs[j] EXCEPT !.waiters = procs[j].waiters \cup {c}]]
      BY <1>6, <2>1 DEF Wait
    <3> QED
      BY <1>1, <2>1, <3>1 DEF Shown, WaitedFor
  <2>2. CASE Shown(j) \notin {"CREATED", "RUNNING"}
    BY <1>2, <1>6, <2>2 DEF Wait
  <2> QED
    BY <2>1, <2>2
<1>7. ASSUME NEW c \in Callers, CreateInsert(c) PROVE Goal
  BY <1>7 DEF CreateInsert, TakenOff, PutOn
<1>8. ASSUME NEW c \in Callers, ExecRecord(c) PROVE Goal
  <2>1. procs' = [procs EXCEPT ![call[c].key] = [procs[call[c].key] EXCEPT !.inc = call[c].inc, !.state = "RUNNING"]]
    BY <1>8 DEF ExecRecord
  <2>2. call[c].key \in Key
    BY <1>8, BusyCall DEF ExecRecord, TypeOK
  <2> QED
    BY <1>1, <1>8, <2>1, <2>2 DEF GivenProcess
<1>9. ASSUME NEW c \in Callers, DeleteRemove(c) PROVE Goal
  BY <1>9 DEF DeleteRemove, TakenOff
<1>10. ASSUME PumpHandle PROVE Goal
  <2>1. ASSUME NEW j \in Matches(hand), PumpRecord(j, hand) PROVE Goal
    <3>1. j \in Key /\ HasPid(j, hand)
      BY <2>1 DEF Matches
    <3>2. procs' = [procs EXCEPT ![j] = [procs[j] EXCEPT !.state = "STOPPED", !.code = hand, !.waiters = {}]]
      BY <2>1 DEF PumpRecord
    <3> QED
      BY <1>1, <1>10, <2>1, <3>1, <3>2 DEF StoppedByPump
  <2> QED
    BY <1>2, <1>10, <2>1 DEF PumpHandle
<1>11. ASSUME NEW c \in Callers,
              LateFailure(c) \/ Timeout(c) \/ SendEvent(c) \/ Wake(c) \/ Return(c) \/ Shutdown(c)
       PROVE Goal
  BY <1>2, <1>11 DEF LateFailure, Timeout, SendEvent, Wake, Return, Shutdown
<1>12. ASSUME NEW c \in Callers, NEW id \in Ids, Create(c, id) \/ DeleteInit(c, id) PROVE Goal
  BY <1>2, <1>12 DEF Create, DeleteInit
<1>13. ASSUME NEW c \in Callers, NEW j \in Key, StartExec(c, j) PROVE Goal
  BY <1>2, <1>13 DEF StartExec
<1>14. ASSUME (\E p \in Procs : Exit(p) \/ Reap(p) \/ PumpReceive(p)) \/ PumpSend \/ Forward
       PROVE Goal
  BY <1>2, <1>14 DEF Exit, Reap, PumpReceive, PumpSend, Forward
<1>15. ASSUME UNCHANGED vars PROVE Goal
  BY <1>2, <1>15 DEF vars
<1> HIDE DEF Goal
<1>16. ASSUME NEW c \in Callers, NEW id \in Ids, ContainerCall(c, id) PROVE Goal
  BY <1>3, <1>12, <1>16 DEF ContainerCall
<1>17. ASSUME NEW c \in Callers, NEW j \in Key, ProcessCall(c, j) PROVE Goal
  BY <1>5, <1>6, <1>13, <1>14, <1>17 DEF ProcessCall, Kill
<1>18. ASSUME NEW c \in Callers, CallStep(c) PROVE Goal
  BY <1>4, <1>7, <1>8, <1>9, <1>11, <1>18 DEF CallStep
<1>19. Goal
  BY <1>10, <1>14, <1>15, <1>16, <1>17, <1>18 DEF Next, Kernel, Pump
<1> QED
  BY <1>19 DEF Goal

(* The same, for the process and the state of a record alone.              *)
LEMMA ProcsSteps ==
  ASSUME TypeOK, SpawningInv, [Next]_vars, NEW k \in Key
  PROVE  \/ procs'[k] = procs[k]
         \/ procs'[k].inc = NoProc /\ procs'[k].state # "STOPPED"
         \/ \E c \in Callers : Spawning(c) /\ call[c].key = k /\ procs'[k].inc = call[c].inc
                               /\ procs'[k].state \notin {"ABSENT", "STOPPED"} /\ ~ PumpHandle
         \/ /\ procs'[k].inc = procs[k].inc
            /\ procs'[k].state = "STOPPED" /\ procs[k].inc # NoProc
            /\ PumpHandle /\ HasPid(k, hand) /\ procs'[k].code = hand
         \/ /\ procs'[k].inc = procs[k].inc
            /\ procs[k].state \notin {"ABSENT", "STOPPED"}
            /\ procs'[k].state \notin {"ABSENT", "STOPPED"}
<1>1. procs[k] \in Record
  BY DEF TypeOK
<1>2. ASSUME NEW c \in Callers, Spawning(c) PROVE ~ PumpHandle
  BY <1>2, ConstantsAssumption DEF SpawningInv, PumpHandle
<1>3. CASE TakenOff(k)
  BY <1>3 DEF TakenOff, Absent
<1>4. CASE PutOn(k)
  <2>1. CASE procs'[k] = NewRecord(NoProc)
    BY <2>1 DEF NewRecord
  <2>2. ASSUME NEW c \in Callers, CreateInsert(c), k = call[c].key, procs'[k] = NewRecord(call[c].inc)
        PROVE  Spawning(c) /\ procs'[k].inc = call[c].inc /\ procs'[k].state = "CREATED"
    BY <2>2 DEF NewRecord, CreateInsert, Spawning
  <2> QED
    BY <1>2, <1>4, <2>1, <2>2 DEF PutOn
<1>5. CASE GivenProcess(k)
  <2>1. PICK c \in Callers : /\ ExecRecord(c) /\ k = call[c].key
                             /\ procs'[k] = [procs[k] EXCEPT !.inc = call[c].inc, !.state = "RUNNING"]
    BY <1>5 DEF GivenProcess
  <2>2. Spawning(c)
    BY <2>1 DEF ExecRecord, Spawning
  <2> QED
    BY <1>1, <1>2, <2>1, <2>2, RecordReads
<1>6. CASE StoppedByPump(k)
  BY <1>1, <1>6, RecordReads DEF StoppedByPump, HasPid
<1>7. CASE WaitedFor(k)
  BY <1>1, <1>7, RecordReads DEF WaitedFor
<1>8. CASE Moved(k)
  BY <1>1, <1>8, RecordReads DEF Moved, Going
<1> QED
  BY <1>3, <1>4, <1>5, <1>6, <1>7, <1>8, RecordSteps

(* The history grows by the event that is sent in the step.                *)
LEMMA SentSteps ==
  ASSUME TypeOK, [Next]_vars, NEW p \in Procs
  PROVE  /\ sent'["exit"][p] = sent["exit"][p] \/ (PumpSend /\ hand = p)
         /\ sent'["delete"][p] = sent["delete"][p]
            \/ \E c \in Callers : SendEvent(c) /\ call[c].kind = "delete" /\ call[c].inc = p
<1> DEFINE Goal == /\ sent'["exit"][p] = sent["exit"][p] \/ (PumpSend /\ hand = p)
                   /\ sent'["delete"][p] = sent["delete"][p]
                      \/ \E c \in Callers : SendEvent(c) /\ call[c].kind = "delete" /\ call[c].inc = p
<1>1. ASSUME UNCHANGED sent PROVE Goal
  BY <1>1
<1>2. ASSUME PumpSend PROVE Goal
  <2>1. Emit("exit", hand)
    BY <1>2 DEF PumpSend
  <2> QED
    BY <1>2, <2>1 DEF Emit, TypeOK
<1>3. ASSUME NEW c \in Callers, SendEvent(c) PROVE Goal
  <2>1. Emit(call[c].kind, call[c].inc) /\ call[c].kind \in {"delete", "other"}
    BY <1>3, BusyCall DEF SendEvent, TypeOK
  <2>2. CASE call[c].kind = "delete" /\ call[c].inc = p
    BY <1>3, <2>1, <2>2 DEF Emit, TypeOK
  <2>3. CASE ~ (call[c].kind = "delete" /\ call[c].inc = p)
    BY <2>1, <2>3 DEF Emit, TypeOK
  <2> QED
    BY <2>2, <2>3
<1>4. ASSUME NEW c \in Callers,
             CreateInsert(c) \/ ExecRecord(c) \/ PauseDone(c) \/ PauseFails(c) \/ LateFailure(c)
               \/ Timeout(c) \/ DeleteRemove(c) \/ Wake(c) \/ Return(c) \/ Shutdown(c)
      PROVE Goal
  BY <1>1, <1>4 DEF CreateInsert, ExecRecord, PauseDone, PauseFails, LateFailure, Timeout,
     DeleteRemove, Wake, Return, Shutdown
<1>5. ASSUME NEW c \in Callers, NEW id \in Ids, ContainerCall(c, id) PROVE Goal
  BY <1>1, <1>5 DEF ContainerCall, Create, StartInit, Pause, Resume, DeleteInit
<1>6. ASSUME NEW c \in Callers, NEW k \in Key, ProcessCall(c, k) PROVE Goal
  BY <1>1, <1>6 DEF ProcessCall, Exec, StartExec, DeleteExec, Kill, Exit, Wait
<1>7. ASSUME (\E q \in Procs : Exit(q) \/ Reap(q) \/ PumpReceive(q)) \/ PumpHandle \/ Forward
             \/ UNCHANGED vars
      PROVE Goal
  BY <1>1, <1>7 DEF Exit, Reap, PumpReceive, PumpHandle, Forward, vars
<1> HIDE DEF Goal
<1>8. ASSUME NEW c \in Callers, CallStep(c) PROVE Goal
  BY <1>3, <1>4, <1>8 DEF CallStep
<1>9. Goal
  BY <1>2, <1>5, <1>6, <1>7, <1>8 DEF Next, Kernel, Pump
<1> QED
  BY <1>9 DEF Goal

(* Who else decides on a TaskDelete: the delete of an exec when it takes   *)
(* the record, and that of a container when it takes it from the map.      *)
LEMMA DeletedSteps ==
  ASSUME TypeOK, SpawningInv, SpawningInv', [Next]_vars, NEW p \in Procs, Deleted(p)'
  PROVE  \/ Deleted(p)
         \/ \E c \in Callers, k \in Key : DeleteExec(c, k) /\ procs[k].inc = p
         \/ \E c \in Callers : DeleteRemove(c) /\ call[c].inc = p
<1>1. CASE sent'["delete"][p] > 0
  <2>1. CASE sent'["delete"][p] = sent["delete"][p]
    BY <1>1, <2>1 DEF Deleted
  <2>2. CASE \E c \in Callers : SendEvent(c) /\ call[c].kind = "delete" /\ call[c].inc = p
    BY <2>2 DEF SendEvent, Deleted
  <2> QED
    BY <2>1, <2>2, SentSteps
<1>2. CASE ~ (sent'["delete"][p] > 0)
  <2>1. PICK c \in Callers : call'[c].pc = "send" /\ call'[c].kind = "delete" /\ call'[c].inc = p
    BY <1>2 DEF Deleted
  <2>2. CASE call'[c] = call[c]
    BY <2>1, <2>2 DEF Deleted
  <2>3. ASSUME NEW k \in Key, DeleteExec(c, k) PROVE procs[k].inc = p
    BY <2>1, <2>3 DEF DeleteExec, At, TypeOK
  <2>4. ASSUME DeleteRemove(c) PROVE call[c].inc = p
    <3>1. call'[c] = [call[c] EXCEPT !.pc = "send"] /\ call[c] \in Call
      BY <2>4 DEF DeleteRemove, TypeOK
    <3> QED
      BY <2>1, <3>1, NextPc
  <2>5. ~ Spawning(c)'
    BY <2>1 DEF Spawning
  <2> QED
    BY <2>1, <2>2, <2>3, <2>4, <2>5, CallSteps
<1> QED
  BY <1>1, <1>2

(* A delete between its locks knows whose container it is.                 *)
LEMMA RemovingStep ==
  ASSUME TypeOK, IInv, [Next]_vars
  PROVE  RemovingInv'
<1> SUFFICES ASSUME NEW c \in Callers, call'[c].pc = "remove"
             PROVE  /\ call'[c].key[2] = InitProc
                    /\ call'[c].inc # NoProc => /\ owner'[call'[c].inc] = call'[c].key
                                                /\ status'[call'[c].inc] # "unborn"
  BY DEF RemovingInv
<1> DEFINE p == call'[c].inc
<1>1. p # NoProc /\ p \in Procs /\ status[p] # "unborn" /\ owner[p] = call'[c].key
        => owner'[p] = call'[c].key /\ status'[p] # "unborn"
  BY StatusStep
<1>2. CASE call'[c] = call[c]
  <2>1. p # NoProc => p \in Procs /\ status[p] # "unborn" /\ owner[p] = call'[c].key
    BY <1>2, BusyCall DEF IInv, RemovingInv, TypeOK
  <2> QED
    BY <1>1, <1>2, <2>1 DEF IInv, RemovingInv
<1>3. ASSUME NEW id \in Ids, DeleteInit(c, id), call'[c].pc = "remove", call'[c] # call[c]
      PROVE  call'[c] = At("remove", InitKey(id), procs[InitKey(id)].inc, "delete")
  BY <1>3 DEF DeleteInit, TypeOK
<1>4. CASE call'[c] # call[c]
  <2>1. ~ Spawning(c)' /\ (\A k \in Key : ~ DeleteExec(c, k)) /\ ~ DeleteRemove(c)
    <3>1. ~ Spawning(c)'
      BY DEF Spawning
    <3>2. ASSUME NEW k \in Key, DeleteExec(c, k) PROVE FALSE
      BY <3>2 DEF DeleteExec, At, TypeOK
    <3>3. ASSUME DeleteRemove(c) PROVE FALSE
      BY <3>3, NextPc DEF DeleteRemove, TypeOK
    <3> QED
      BY <3>1, <3>2, <3>3
  <2>2. PICK id \in Ids : DeleteInit(c, id)
    BY <1>4, <2>1, CallSteps DEF IInv
  <2>3. call'[c] = At("remove", InitKey(id), procs[InitKey(id)].inc, "delete")
    BY <1>3, <1>4, <2>2
  <2>4. p = procs[InitKey(id)].inc /\ call'[c].key = InitKey(id) /\ InitKey(id)[2] = InitProc
    BY <2>3 DEF At, InitKey
  <2>5. p # NoProc => p \in Procs /\ status[p] # "unborn" /\ owner[p] = call'[c].key
    BY <2>4, KeyFacts, RecordFields DEF IInv, OwnedInv, TypeOK
  <2> QED
    BY <1>1, <2>4, <2>5
<1> QED
  BY <1>2, <1>4

(* A process stays on record under the key it was born for.                *)
LEMMA OwnedStep ==
  ASSUME TypeOK, IInv, [Next]_vars
  PROVE  OwnedInv'
<1> SUFFICES ASSUME NEW k \in Key, procs'[k].inc # NoProc
             PROVE  /\ owner'[procs'[k].inc] = k
                    /\ status'[procs'[k].inc] # "unborn"
                    /\ procs'[k].state # "ABSENT"
  BY DEF OwnedInv
<1>1. ASSUME NEW p \in Procs, status[p] # "unborn" PROVE status'[p] # "unborn" /\ owner'[p] = owner[p]
  BY <1>1, StatusStep
<1>2. ASSUME procs'[k].inc = procs[k].inc, procs'[k].state = "ABSENT" => procs[k].state = "ABSENT"
      PROVE  /\ owner'[procs'[k].inc] = k
             /\ status'[procs'[k].inc] # "unborn"
             /\ procs'[k].state # "ABSENT"
  <2>1. procs[k].inc \in Procs
    BY <1>2, RecordFields DEF TypeOK
  <2> QED
    BY <1>1, <1>2, <2>1 DEF IInv, OwnedInv
<1>3. ASSUME NEW c \in Callers, Spawning(c), call[c].key = k, procs'[k].inc = call[c].inc
      PROVE  owner'[procs'[k].inc] = k /\ status'[procs'[k].inc] # "unborn"
  BY <1>1, <1>3 DEF IInv, SpawningInv, Pending
<1> QED
  BY <1>2, <1>3, ProcsSteps DEF IInv

(* The heart of the matter: an exit that leaves the pump's hand has been   *)
(* found on record, where no other record has its pid, and is STOPPED there. *)
LEMMA ExitStep ==
  ASSUME TypeOK, IInv, DistinctPids, [Next]_vars
  PROVE  ExitNotLost'
<1> SUFFICES ASSUME NEW k \in Key, procs'[k].state \notin {"ABSENT", "STOPPED"}, procs'[k].inc # NoProc
             PROVE  status'[procs'[k].inc] \in Pending
  BY DEF ExitNotLost
<1>1. CASE \E c \in Callers : Spawning(c) /\ procs'[k].inc = call[c].inc /\ ~ PumpHandle
  BY <1>1, StatusStep DEF IInv, SpawningInv
<1>2. CASE procs'[k].inc = procs[k].inc /\ procs[k].state \notin {"ABSENT", "STOPPED"}
  <2> DEFINE p == procs[k].inc
  <2>1. p \in Procs /\ status[p] \in Pending /\ owner[p] = k
    BY <1>2, RecordFields DEF TypeOK, IInv, ExitNotLost, OwnedInv
  <2>2. CASE status'[p] \notin Pending
    <3>1. PumpHandle /\ hand = p
      BY <2>1, <2>2, StatusStep
    <3>2. \A j \in Key : HasPid(j, p) => j = k
      <4>1. SUFFICES ASSUME NEW j \in Key, HasPid(j, p) PROVE j = k
        OBVIOUS
      <4>2. procs[j].inc # NoProc /\ procs[j].inc \in Procs /\ PidOf[procs[j].inc] = PidOf[p]
        BY <4>1, RecordFields DEF HasPid, TypeOK
      <4>3. procs[j].inc = p
        BY <2>1, <4>2 DEF DistinctPids
      <4> QED
        BY <2>1, <4>2, <4>3 DEF IInv, OwnedInv
    <3>3. HasPid(k, p)
      BY <1>2, <2>1 DEF HasPid
    <3>4. Matches(p) = {k}
      <4>1. k \in Matches(p)
        <5>1. InitKey(k[1]) = k \/ ~ HasPid(InitKey(k[1]), p)
          BY <3>2, KeyFacts DEF Key
        <5> QED
          BY <3>3, <5>1 DEF Matches, InitKey
      <4> QED
        BY <3>2, <4>1 DEF Matches
    <3>5. PumpRecord(k, p)
      BY <3>1, <3>4 DEF PumpHandle
    <3>6. procs'[k] = [procs[k] EXCEPT !.state = "STOPPED", !.code = p, !.waiters = {}]
      BY <3>5 DEF PumpRecord, TypeOK
    <3> QED
      BY <3>6, RecordReads DEF TypeOK
  <2> QED
    BY <1>2, <2>2
<1> QED
  BY <1>1, <1>2, ProcsSteps DEF IInv

(* What the pump records is the exit of the process on record.             *)
LEMMA StoppedStep ==
  ASSUME TypeOK, IInv, DistinctPids, [Next]_vars
  PROVE  StoppedRight'
<1> SUFFICES ASSUME NEW k \in Key, procs'[k].state = "STOPPED" PROVE procs'[k].code = procs'[k].inc
  BY DEF StoppedRight
<1>1. CASE procs'[k] = procs[k]
  BY <1>1 DEF IInv, StoppedRight
<1>2. CASE PumpHandle /\ HasPid(k, hand) /\ procs'[k].code = hand /\ procs'[k].inc = procs[k].inc
  <2>1. hand \in Procs /\ procs[k].inc \in Procs /\ PidOf[procs[k].inc] = PidOf[hand]
    BY <1>2, RecordFields DEF PumpHandle, HasPid, TypeOK
  <2> QED
    BY <1>2, <2>1 DEF DistinctPids
<1> QED
  BY <1>1, <1>2, ProcsSteps DEF IInv

(* The pump sends the exit it has recorded.                                *)
LEMMA SentStep ==
  ASSUME TypeOK, IInv, [Next]_vars
  PROVE  SentInv'
<1> SUFFICES ASSUME NEW p \in Procs, sent'["exit"][p] > 0 PROVE status'[p] = "done"
  BY DEF SentInv
<1>1. status[p] = "done"
  BY SentSteps DEF IInv, SentInv, HandInv, PumpSend
<1> QED
  BY <1>1, StatusStep

(* What becomes of the pump's hand, which only the pump moves.             *)
LEMMA HandSteps ==
  ASSUME TypeOK, IInv, [Next]_vars
  PROVE  \/ hand' = NoProc /\ lock' # "pump"
         \/ \E p \in Procs : PumpReceive(p)
         \/ PumpHandle /\ hand' = hand /\ \E k \in Matches(hand) : PumpRecord(k, hand)
         \/ hand' = hand /\ (lock' = "pump" <=> lock = "pump") /\ ~ PumpHandle
<1> DEFINE Recorded == PumpHandle /\ hand' = hand /\ \E k \in Matches(hand) : PumpRecord(k, hand)
           Kept == hand' = hand /\ (lock' = "pump" <=> lock = "pump")
           Goal == \/ hand' = NoProc /\ lock' # "pump"
                   \/ \E p \in Procs : PumpReceive(p)
                   \/ Recorded
                   \/ Kept /\ ~ PumpHandle
<1>1. ASSUME PumpHandle PROVE Goal
  BY <1>1 DEF PumpHandle, PumpRecord
<1>2. ASSUME PumpSend PROVE Goal
  BY <1>2 DEF PumpSend
<1>3. ASSUME NEW p \in Procs, PumpReceive(p) PROVE Goal
  BY <1>3
<1>4. \A c \in Callers : c # "pump" /\ c # "free"
  BY ConstantsAssumption
<1>5. ASSUME UNCHANGED <<hand, lock>> PROVE Kept
  BY <1>5
<1>6. ASSUME NEW c \in Callers, CreateInsert(c) \/ ExecRecord(c) \/ LateFailure(c) PROVE Kept
  <2>1. lock = c
    BY <1>6 DEF CreateInsert, ExecRecord, LateFailure, Spawning, IInv, SpawningInv
  <2> QED
    BY <1>4, <1>6, <2>1 DEF CreateInsert, ExecRecord, LateFailure
<1>13. ASSUME NEW c \in Callers, PauseDone(c) \/ PauseFails(c) \/ Timeout(c) PROVE Kept
  BY <1>4, <1>13 DEF PauseDone, PauseFails, Pausing, Timeout
<1>7. ASSUME NEW c \in Callers, DeleteRemove(c) \/ SendEvent(c) \/ Wake(c) \/ Return(c) \/ Shutdown(c)
      PROVE Kept
  BY <1>5, <1>7 DEF DeleteRemove, SendEvent, Wake, Return, Shutdown
<1>8. ASSUME NEW c \in Callers, NEW id \in Ids, ContainerCall(c, id) PROVE Kept
  <2>1. CASE Create(c, id)
    BY <1>4, <2>1 DEF Create, Begin
  <2>2. CASE StartInit(c, id) \/ Resume(c, id) \/ DeleteInit(c, id)
    BY <1>5, <2>2 DEF StartInit, Resume, DeleteInit
  <2>3. CASE Pause(c, id)
    BY <1>4, <2>3 DEF Pause, Begin
  <2> QED
    BY <1>8, <2>1, <2>2, <2>3 DEF ContainerCall
<1>9. ASSUME NEW c \in Callers, NEW k \in Key, ProcessCall(c, k) PROVE Kept
  <2>1. CASE StartExec(c, k)
    BY <1>4, <2>1 DEF StartExec, Begin
  <2>2. CASE Exec(c, k) \/ DeleteExec(c, k) \/ Kill(c, k) \/ Wait(c, k)
    BY <1>5, <2>2 DEF Exec, DeleteExec, Kill, Exit, Wait
  <2> QED
    BY <1>9, <2>1, <2>2 DEF ProcessCall
<1>10. ASSUME (\E p \in Procs : Exit(p) \/ Reap(p)) \/ Forward \/ UNCHANGED vars PROVE Kept
  BY <1>5, <1>10 DEF Exit, Reap, Forward, vars
<1> HIDE DEF Kept
<1>11. ASSUME NEW c \in Callers, CallStep(c) PROVE Kept
  BY <1>6, <1>7, <1>11, <1>13 DEF CallStep
<1>12. Goal \/ Kept
  BY <1>1, <1>2, <1>3, <1>8, <1>9, <1>10, <1>11 DEF Next, Kernel, Pump
<1> QED
  BY <1>1, <1>12 DEF Kept

(* Between its lock and its send the pump's exit is reported nowhere and   *)
(* no delete gets past it.                                                 *)
LEMMA HandStep ==
  ASSUME TypeOK, IInv, DistinctPids, [Next]_vars
  PROVE  HandInv'
<1> USE DEF IInv
<1>1. CASE hand' = NoProc /\ lock' # "pump"
  BY <1>1 DEF HandInv
<1>2. ASSUME NEW p \in Procs, PumpReceive(p) PROVE HandInv'
  <2>1. lock # "pump"
    BY <1>2 DEF PumpReceive, HandInv
  <2> QED
    BY <1>2, <2>1 DEF PumpReceive, HandInv, TypeOK
<1>3. ASSUME PumpHandle, hand' = hand, NEW k \in Matches(hand), PumpRecord(k, hand) PROVE HandInv'
  <2>1. hand \in Procs /\ hand # NoProc /\ lock' = "pump" /\ sent' = sent /\ call' = call
    BY <1>3 DEF PumpHandle, PumpRecord, TypeOK
  <2>2. status[hand] = "handed"
    BY <1>3, ConstantsAssumption DEF PumpHandle, HandInv
  <2>3. status'[hand] = "done"
    BY <1>3, <2>1 DEF PumpRecord, PumpKills, PumpSpares, Slay, TypeOK
  <2>4. sent["exit"][hand] = 0
    BY <2>1, <2>2 DEF SentInv, TypeOK
  <2>5. ~ Deleted(hand)
    <3>1. procs[k].inc # NoProc /\ procs[k].inc \in Procs /\ PidOf[procs[k].inc] = PidOf[hand]
      BY <1>3, RecordFields DEF Matches, HasPid, TypeOK
    <3>2. procs[k].inc = hand /\ k \in Key
      BY <1>3, <2>1, <3>1 DEF DistinctPids, Matches
    <3> QED
      BY <2>1, <3>2 DEF DeletedInv
  <2> QED
    BY <1>3, <2>1, <2>3, <2>4, <2>5 DEF HandInv, Deleted
<1>4. CASE hand' = hand /\ (lock' = "pump" <=> lock = "pump") /\ ~ PumpHandle
  <2>1. CASE lock' # "pump" \/ hand = NoProc
    BY <1>4, <2>1, StatusStep DEF HandInv, TypeOK
  <2>2. CASE lock' = "pump" /\ hand # NoProc
    <3>1. hand \in Procs /\ lock = "pump"
      BY <1>4, <2>2 DEF TypeOK
    <3>2. status'[hand] = "done"
      BY <3>1, StatusStep DEF HandInv
    <3>3. ~ PumpSend
      BY <2>2 DEF PumpSend
    <3>4. sent'["exit"][hand] = 0
      BY <3>1, <3>3, SentSteps DEF HandInv
    <3>5. \A c \in Callers : ~ DeleteRemove(c) /\ \A k \in Key : ~ DeleteExec(c, k)
      BY <3>1 DEF DeleteRemove, DeleteExec, Begin
    <3>6. ASSUME NEW p \in Procs, p = hand, Deleted(p)' PROVE FALSE
      BY <3>1, <3>5, <3>6, DeletedSteps, SpawningStep DEF HandInv
    <3> QED
      BY <1>4, <2>2, <3>1, <3>2, <3>4, <3>6 DEF HandInv, Deleted
  <2> QED
    BY <2>1, <2>2
<1> QED
  BY <1>1, <1>2, <1>3, <1>4, HandSteps

(* A deleted process stays off the record.                                 *)
LEMMA DeletedStep ==
  ASSUME TypeOK, IInv, [Next]_vars
  PROVE  DeletedInv'
<1> SUFFICES ASSUME NEW p \in Procs, Deleted(p)'
             PROVE  /\ status'[p] # "unborn"
                    /\ \A k \in Key : procs'[k].inc # p
                    /\ \A c \in Callers : Spawning(c)' => call'[c].inc # p
  BY DEF DeletedInv
<1>1. p # NoProc
  BY ConstantsAssumption
<1>2. CASE Deleted(p)
  <2>1. status[p] # "unborn" /\ (\A k \in Key : procs[k].inc # p)
        /\ \A c \in Callers : Spawning(c) => call[c].inc # p
    BY <1>2 DEF IInv, DeletedInv
  <2>2. ASSUME NEW c \in Callers, Spawning(c)' PROVE call'[c].inc # p
    <3>1. ASSUME NEW id \in Ids, Create(c, id) PROVE call'[c].inc # p
      BY <2>1, <3>1 DEF Create, Spawn, At, TypeOK
    <3>2. ASSUME NEW k \in Key, StartExec(c, k) PROVE call'[c].inc # p
      BY <2>1, <3>2 DEF StartExec, Spawn, At, TypeOK
    <3> QED
      BY <2>1, <2>2, <3>1, <3>2, SpawningSteps DEF IInv
  <2>3. ASSUME NEW k \in Key PROVE procs'[k].inc # p
    BY <1>1, <2>1, <2>3, ProcsSteps DEF IInv
  <2> QED
    BY <2>1, <2>2, <2>3, StatusStep
<1>3. ASSUME lock = "free", lock' = "free", NEW c \in Callers, Spawning(c)' PROVE FALSE
  <2>1. SpawningInv'
    BY SpawningStep DEF IInv
  <2> QED
    BY <1>3, <2>1, ConstantsAssumption DEF SpawningInv
<1>4. ASSUME NEW c \in Callers, NEW k \in Key, DeleteExec(c, k), procs[k].inc = p
      PROVE  status'[p] # "unborn" /\ \A j \in Key : procs'[j].inc # p
  <2>1. owner[p] = k /\ status'[p] # "unborn"
    BY <1>1, <1>4, StatusStep DEF IInv, OwnedInv
  <2>2. procs' = [procs EXCEPT ![k] = Absent]
    BY <1>4 DEF DeleteExec
  <2> QED
    BY <1>1, <2>1, <2>2 DEF IInv, OwnedInv, Absent, TypeOK
<1>5. ASSUME NEW c \in Callers, DeleteRemove(c), call[c].inc = p
      PROVE  status'[p] # "unborn" /\ \A j \in Key : procs'[j].inc # p
  <2>1. call[c].key \in Key /\ owner[p] = call[c].key /\ status'[p] # "unborn"
    BY <1>1, <1>5, BusyCall, StatusStep DEF DeleteRemove, IInv, RemovingInv, TypeOK
  <2>2. call[c].key \in Keys(call[c].key[1])
    BY <2>1 DEF Key, Keys
  <2>3. ASSUME NEW j \in Key, procs'[j].inc = p PROVE FALSE
    <3>1. procs[j].inc = p /\ j \notin Keys(call[c].key[1])
      BY <1>1, <1>5, <2>3 DEF DeleteRemove, Absent
    <3> QED
      BY <1>1, <2>1, <2>2, <3>1 DEF IInv, OwnedInv
  <2> QED
    BY <2>1, <2>3
<1>6. ASSUME NEW c \in Callers, DeleteRemove(c) \/ \E k \in Key : DeleteExec(c, k)
      PROVE  lock = "free" /\ lock' = "free"
  BY <1>6 DEF DeleteRemove, DeleteExec, Begin
<1> QED
  BY <1>2, <1>3, <1>4, <1>5, <1>6, DeletedSteps, SpawningStep DEF IInv

(* IInv holds when the service starts.                                     *)
LEMMA IInvInit == Init => IInv
BY DEF Init, IInv, SpawningInv, RemovingInv, OwnedInv, HandInv, SentInv, DeletedInv, ExitNotLost,
   StoppedRight, Spawning, Deleted, Absent, Idle, At

(* IInv is inductive, given the types.                                     *)
LEMMA IInvStep == TypeOK /\ IInv /\ DistinctPids /\ [Next]_vars => IInv'
<1> SUFFICES ASSUME TypeOK, IInv, DistinctPids, [Next]_vars PROVE IInv'
  OBVIOUS
<1>1. SpawningInv' /\ RemovingInv' /\ OwnedInv'
  BY SpawningStep, RemovingStep, OwnedStep DEF IInv
<1>2. HandInv' /\ SentInv' /\ DeletedInv'
  BY HandStep, SentStep, DeletedStep
<1>3. ExitNotLost' /\ StoppedRight'
  BY ExitStep, StoppedStep
<1> QED
  BY <1>1, <1>2, <1>3 DEF IInv

(* The invariant holds for as long as no pid is used twice.                *)
THEOREM Invariant == DistinctPids => (Spec => [](TypeOK /\ IInv))
<1> SUFFICES ASSUME DistinctPids PROVE Spec => [](TypeOK /\ IInv)
  OBVIOUS
<1>1. Init => TypeOK /\ IInv
  BY TypeInit, IInvInit
<1>2. TypeOK /\ IInv /\ [Next]_vars => (TypeOK /\ IInv)'
  BY TypeStep, IInvStep
<1> QED
  BY <1>1, <1>2, PTL DEF Spec

(* No exit is lost: a record that is not STOPPED still has its exit to come *)
(* (process_exits against create, start and delete).                       *)
THEOREM NoExitIsLost == DistinctPids => (Spec => []ExitNotLost)
<1> SUFFICES ASSUME DistinctPids PROVE Spec => []ExitNotLost
  OBVIOUS
<1>1. TypeOK /\ IInv => ExitNotLost
  BY DEF IInv
<1> QED
  BY <1>1, Invariant, PTL

(* A STOPPED record holds its own exit, and a reported exit is on record   *)
(* (set_exited before the TaskExit of process_exits).                      *)
THEOREM ExitsAreRecordedRight == DistinctPids => (Spec => []ExitRecordedRight)
<1> SUFFICES ASSUME DistinctPids PROVE Spec => []ExitRecordedRight
  OBVIOUS
<1>1. TypeOK /\ IInv => ExitRecordedRight
  <2> SUFFICES ASSUME TypeOK, IInv, NEW k \in Key
               PROVE  /\ procs[k].state = "STOPPED" => procs[k].code = procs[k].inc
                      /\ procs[k].inc # NoProc /\ sent["exit"][procs[k].inc] > 0
                           => procs[k].state = "STOPPED"
    BY DEF ExitRecordedRight
  <2>1. ASSUME procs[k].inc # NoProc, sent["exit"][procs[k].inc] > 0 PROVE procs[k].state = "STOPPED"
    <3>1. procs[k].inc \in Procs /\ procs[k].state # "ABSENT"
      BY <2>1, RecordFields DEF TypeOK, IInv, OwnedInv
    <3>2. status[procs[k].inc] \notin Pending
      BY <2>1, <3>1 DEF IInv, SentInv, Pending
    <3> QED
      BY <2>1, <3>1, <3>2 DEF IInv, ExitNotLost
  <2> QED
    BY <2>1 DEF IInv, StoppedRight
<1> QED
  BY <1>1, Invariant, PTL

(* A TaskExit is sent once, and before the TaskDelete of its process (the  *)
(* pump sends while it holds the lock that a delete needs).                *)
THEOREM ExitsPrecedeDeletes == DistinctPids => (Spec => NoExitAfterDelete)
<1> SUFFICES ASSUME DistinctPids PROVE Spec => NoExitAfterDelete
  OBVIOUS
<1> DEFINE A == \A p \in Procs : sent'["exit"][p] > sent["exit"][p]
                                   => sent["exit"][p] = 0 /\ sent["delete"][p] = 0
<1>1. TypeOK /\ IInv /\ [Next]_vars => [A]_vars
  <2> SUFFICES ASSUME TypeOK, IInv, [Next]_vars, NEW p \in Procs,
                      sent'["exit"][p] > sent["exit"][p]
               PROVE  sent["exit"][p] = 0 /\ sent["delete"][p] = 0
    OBVIOUS
  <2>1. PumpSend /\ hand = p
    BY SentSteps DEF TypeOK
  <2>2. sent["exit"][p] = 0 /\ ~ Deleted(p)
    BY <2>1 DEF PumpSend, IInv, HandInv
  <2> QED
    BY <2>2 DEF Deleted, TypeOK
<1>2. Spec => [][A]_vars
  BY <1>1, Invariant, PTL DEF Spec
<1> QED
  BY <1>2 DEF NoExitAfterDelete
------------------------------------------------------------------------------
(* Clients that use ids as containerd does.                                *)

(* A call begins, takes a step of its own, or stays as it is.              *)
LEMMA CallMoves ==
  ASSUME TypeOK, [Next]_vars, NEW c \in Callers
  PROVE  \/ call'[c] = call[c]
         \/ call[c] = Idle /\ lock = "free"
         \/ CallStep(c) /\ (call'[c].key = call[c].key \/ call'[c] = Idle)
<1> DEFINE Goal == \/ call'[c] = call[c]
                   \/ call[c] = Idle /\ lock = "free"
                   \/ CallStep(c) /\ (call'[c].key = call[c].key \/ call'[c] = Idle)
<1>1. ASSUME NEW d \in Callers, NEW r, call' = [call EXCEPT ![d] = r]
      PROVE  call'[c] = call[c] \/ (c = d /\ call'[c] = r)
  BY <1>1 DEF TypeOK
<1>2. ASSUME UNCHANGED call PROVE Goal
  BY <1>2
<1>3. ASSUME NEW d \in Callers, NEW id \in Ids, ContainerCall(d, id) PROVE Goal
  <2>1. Begin(d, "create") \/ Begin(d, "start") \/ Begin(d, "pause") \/ Begin(d, "delete")
    BY <1>3 DEF ContainerCall, Create, StartInit, Pause, Resume, DeleteInit
  <2>2. call[d] = Idle /\ lock = "free"
    BY <2>1 DEF Begin
  <2>3. call' = call \/ \E r : call' = [call EXCEPT ![d] = r]
    BY <1>3 DEF ContainerCall, Create, StartInit, Pause, Resume, DeleteInit
  <2> QED
    BY <1>1, <1>2, <2>2, <2>3
<1>4. ASSUME NEW d \in Callers, NEW k \in Key, ProcessCall(d, k) PROVE Goal
  <2>1. \/ Begin(d, "exec") \/ Begin(d, "start") \/ Begin(d, "delete") \/ Begin(d, "kill")
        \/ Begin(d, "wait")
    BY <1>4 DEF ProcessCall, Exec, StartExec, DeleteExec, Kill, Wait
  <2>2. call[d] = Idle /\ lock = "free"
    BY <2>1 DEF Begin
  <2>3. call' = call \/ \E r : call' = [call EXCEPT ![d] = r]
    BY <1>4 DEF ProcessCall, Exec, StartExec, DeleteExec, Kill, Exit, Wait
  <2> QED
    BY <1>1, <1>2, <2>2, <2>3
<1>5. ASSUME NEW d \in Callers, CallStep(d) PROVE Goal
  <2>1. CASE CreateInsert(d) \/ ExecRecord(d) \/ DeleteRemove(d)
    <3>1. call' = [call EXCEPT ![d] = [call[d] EXCEPT !.pc = "send"]] /\ call[d] \in Call
      BY <2>1 DEF CreateInsert, ExecRecord, DeleteRemove, TypeOK
    <3>2. [call[d] EXCEPT !.pc = "send"].key = call[d].key
      BY <3>1, NextPc
    <3> QED
      BY <1>1, <1>5, <3>1, <3>2
  <2>2. CASE PauseDone(d) \/ Wake(d)
    <3>1. \/ call' = [call EXCEPT ![d] = Idle]
          \/ \E pc, p : call' = [call EXCEPT ![d] = At(pc, call[d].key, p, "other")]
      BY <2>2 DEF PauseDone, Wake
    <3> QED
      BY <1>1, <1>5, <3>1 DEF At
  <2>3. CASE PauseFails(d) \/ LateFailure(d) \/ Timeout(d) \/ SendEvent(d) \/ Return(d)
    <3>1. call' = [call EXCEPT ![d] = Idle]
      BY <2>3 DEF PauseFails, LateFailure, Timeout, SendEvent, Return
    <3> QED
      BY <1>1, <1>5, <3>1
  <2>4. CASE Shutdown(d)
    BY <1>2, <2>4 DEF Shutdown
  <2> QED
    BY <1>5, <2>1, <2>2, <2>3, <2>4 DEF CallStep
<1>6. ASSUME Kernel \/ Pump \/ UNCHANGED vars PROVE Goal
  BY <1>2, <1>6 DEF Kernel, Exit, Reap, Pump, PumpReceive, PumpHandle, PumpSend, Forward, vars
<1> HIDE DEF Goal
<1>7. Goal
  BY <1>3, <1>4, <1>5, <1>6 DEF Next
<1> QED
  BY <1>7 DEF Goal

(* A process that lives after a step lived before, or is the one a create  *)
(* or the start of an exec has spawned.                                    *)
LEMMA AliveSteps ==
  ASSUME TypeOK, [Next]_vars, NEW p \in Procs, status'[p] = "alive"
  PROVE  \/ status[p] = "alive" /\ owner'[p] = owner[p]
         \/ /\ lock = "free"
            /\ \/ \E c \in Callers, id \in Ids :
                    /\ Create(c, id) /\ owner'[p] = InitKey(id)
                    /\ call'[c] = At("insert", InitKey(id), p, "other")
               \/ \E c \in Callers, k \in Key :
                    /\ StartExec(c, k) /\ owner'[p] = k
                    /\ call'[c] = At("record", k, p, "other")
<1> DEFINE Lived == status[p] = "alive" /\ owner'[p] = owner[p]
           Born == /\ lock = "free"
                   /\ \/ \E c \in Callers, id \in Ids :
                           /\ Create(c, id) /\ owner'[p] = InitKey(id)
                           /\ call'[c] = At("insert", InitKey(id), p, "other")
                      \/ \E c \in Callers, k \in Key :
                           /\ StartExec(c, k) /\ owner'[p] = k
                           /\ call'[c] = At("record", k, p, "other")
<1>1. ASSUME NEW S, status' = Slay(S), UNCHANGED owner PROVE Lived
  BY <1>1 DEF Slay, TypeOK
<1>2. ASSUME NEW q \in Procs, NEW s, s # "alive", status' = [status EXCEPT ![q] = s], UNCHANGED owner
      PROVE  Lived
  BY <1>2 DEF TypeOK
<1>3. ASSUME UNCHANGED <<status, owner>> PROVE Lived
  BY <1>3
<1>4. ASSUME NEW q \in Procs, NEW k, Spawn(q, k) PROVE Lived \/ (p = q /\ owner'[p] = k)
  BY <1>4 DEF Spawn, TypeOK
<1>5. ASSUME NEW q \in Procs, Exit(q) \/ Reap(q) \/ PumpReceive(q) PROVE Lived
  BY <1>1, <1>2, <1>5 DEF Exit, Reap, PumpReceive
<1>6. ASSUME PumpHandle PROVE Lived
  <2>1. hand \in Procs /\ UNCHANGED owner
    BY <1>6 DEF PumpHandle, TypeOK
  <2>2. \/ status' = [status EXCEPT ![hand] = "done"]
        \/ \E S : status' = [Slay(S) EXCEPT ![hand] = "done"]
    BY <1>6 DEF PumpHandle, PumpRecord, PumpKills, PumpSpares
  <2>3. ASSUME NEW S, status' = [Slay(S) EXCEPT ![hand] = "done"] PROVE Lived
    BY <2>1, <2>3 DEF Slay, TypeOK
  <2> QED
    BY <1>2, <2>1, <2>2, <2>3
<1>7. ASSUME NEW c \in Callers, NEW id \in Ids, Create(c, id) PROVE Lived \/ Born
  <2>1. PICK q \in Procs : /\ Spawn(q, InitKey(id))
                           /\ call' = [call EXCEPT ![c] = At("insert", InitKey(id), q, "other")]
    BY <1>7 DEF Create
  <2>2. Lived \/ (p = q /\ owner'[p] = InitKey(id))
    BY <1>4, <2>1
  <2>3. call'[c] = At("insert", InitKey(id), q, "other") /\ lock = "free"
    BY <1>7, <2>1 DEF Create, Begin, TypeOK
  <2> QED
    BY <1>7, <2>2, <2>3
<1>8. ASSUME NEW c \in Callers, NEW k \in Key, StartExec(c, k) PROVE Lived \/ Born
  <2>1. PICK q \in Procs : /\ Spawn(q, k)
                           /\ call' = [call EXCEPT ![c] = At("record", k, q, "other")]
    BY <1>8 DEF StartExec
  <2>2. Lived \/ (p = q /\ owner'[p] = k)
    BY <1>4, <2>1
  <2>3. call'[c] = At("record", k, q, "other") /\ lock = "free"
    BY <1>8, <2>1 DEF StartExec, Begin, TypeOK
  <2> QED
    BY <1>8, <2>2, <2>3
<1>9. ASSUME NEW c \in Callers, NEW id \in Ids,
             StartInit(c, id) \/ Pause(c, id) \/ Resume(c, id) \/ DeleteInit(c, id)
      PROVE Lived
  BY <1>1, <1>3, <1>9 DEF StartInit, Pause, Resume, DeleteInit
<1>10. ASSUME NEW c \in Callers, NEW k \in Key, Exec(c, k) \/ DeleteExec(c, k) \/ Wait(c, k)
       PROVE Lived
  BY <1>3, <1>10 DEF Exec, DeleteExec, Wait
<1>11. ASSUME NEW c \in Callers, CallStep(c) PROVE Lived
  BY <1>3, <1>11 DEF CallStep, CreateInsert, ExecRecord, PauseDone, PauseFails, LateFailure,
     Timeout, DeleteRemove, SendEvent, Wake, Return, Shutdown
<1>12. ASSUME PumpSend \/ Forward \/ UNCHANGED vars PROVE Lived
  BY <1>3, <1>12 DEF PumpSend, Forward, vars
<1> HIDE DEF Lived, Born
<1>13. ASSUME NEW c \in Callers, NEW id \in Ids, ContainerCall(c, id) PROVE Lived \/ Born
  BY <1>7, <1>9, <1>13 DEF ContainerCall
<1>14. ASSUME NEW c \in Callers, NEW k \in Key, ProcessCall(c, k) PROVE Lived \/ Born
  BY <1>5, <1>8, <1>10, <1>14 DEF ProcessCall, Kill
<1>15. Lived \/ Born
  BY <1>5, <1>6, <1>11, <1>12, <1>13, <1>14 DEF Next, Kernel, Pump
<1> QED
  BY <1>15 DEF Lived, Born

(* The runtime forgets a container when a delete tells it to, and knows of *)
(* a new one when a create does.                                           *)
LEMMA RuntimeSteps ==
  ASSUME TypeOK, [Next]_vars, NEW id \in Ids
  PROVE  /\ rt'[id] = "none" => rt[id] = "none" \/ \E c \in Callers : DeleteInit(c, id)
         /\ rt[id] = "none" => rt'[id] = "none" \/ \E c \in Callers : Create(c, id)
<1> DEFINE Goal ==
         /\ rt'[id] = "none" => rt[id] = "none" \/ \E c \in Callers : DeleteInit(c, id)
         /\ rt[id] = "none" => rt'[id] = "none" \/ \E c \in Callers : Create(c, id)
<1>1. ASSUME UNCHANGED rt PROVE Goal
  BY <1>1
<1>2. ASSUME NEW c \in Callers, NEW i \in Ids, Create(c, i) \/ StartInit(c, i) \/ DeleteInit(c, i)
      PROVE Goal
  BY <1>2 DEF Create, StartInit, DeleteInit, TypeOK
<1>3. ASSUME NEW c \in Callers, NEW i \in Ids, Pause(c, i) \/ Resume(c, i) PROVE Goal
  BY <1>1, <1>3 DEF Pause, Resume
<1>4. ASSUME NEW c \in Callers, NEW k \in Key, ProcessCall(c, k) PROVE Goal
  BY <1>1, <1>4 DEF ProcessCall, Exec, StartExec, DeleteExec, Kill, Exit, Wait
<1>5. ASSUME NEW c \in Callers, CallStep(c) PROVE Goal
  BY <1>1, <1>5 DEF CallStep, CreateInsert, ExecRecord, PauseDone, PauseFails, LateFailure,
     Timeout, DeleteRemove, SendEvent, Wake, Return, Shutdown
<1>6. ASSUME Kernel \/ Pump \/ UNCHANGED vars PROVE Goal
  BY <1>1, <1>6 DEF Kernel, Exit, Reap, Pump, PumpReceive, PumpHandle, PumpSend, Forward, vars
<1> HIDE DEF Goal
<1>7. Goal
  BY <1>2, <1>3, <1>4, <1>5, <1>6 DEF Next, ContainerCall
<1> QED
  BY <1>7 DEF Goal

(* Which keys are those of a container.                                    *)
LEMMA KeysOf ==
  ASSUME NEW k \in Key
  PROVE  /\ k[1] \in Ids /\ k \in Keys(k[1])
         /\ \A id : k \in Keys(id) <=> k[1] = id
         /\ k[2] = InitProc <=> k = InitKey(k[1])
BY DEF Key, Keys, InitKey

(* The key of an init process is one of its container.                     *)
LEMMA InitKeyOf ==
  ASSUME NEW id \in Ids
  PROVE  /\ InitKey(id) \in Key /\ InitKey(id)[1] = id /\ InitKey(id)[2] = InitProc
         /\ \A i : InitKey(id) \in Keys(i) <=> id = i
BY DEF Key, Keys, InitKey

(* An idle call is on no container.                                        *)
LEMMA NoKeyOf ==
  ASSUME NEW id
  PROVE  NoKey \notin Keys(id)
BY DEF Keys, NoKey

(* A spawning call goes on with its process or puts it on record: there is *)
(* nobody to drop it.                                                      *)
LEMMA SpawningEnds ==
  ASSUME TypeOK, SpawningInv, AsContainerd, [Next]_vars, NEW c \in Callers, Spawning(c)
  PROVE  call'[c] = call[c] \/ CreateInsert(c) \/ ExecRecord(c)
<1>1. lock # "free" /\ call[c].pc \in {"insert", "record"} /\ call[c] # Idle
  BY ConstantsAssumption DEF SpawningInv, Spawning, Idle, At
<1>2. ~ LateFailure(c) /\ ~ Timeout(c)
  BY DEF AsContainerd, LateFailure, Timeout
<1>3. CallStep(c) => CreateInsert(c) \/ ExecRecord(c)
  BY <1>1, <1>2 DEF CallStep, PauseDone, PauseFails, Pausing, DeleteRemove, SendEvent, Wake,
     Return, Shutdown, Begin
<1> QED
  BY <1>1, <1>3, CallMoves

(* Who takes a container off the map.                                      *)
LEMMA Unregisters ==
  ASSUME TypeOK, SpawningInv, [Next]_vars, NEW id \in Ids, Registered(id), ~ Registered(id)'
  PROVE  \E c \in Callers : DeleteRemove(c) /\ call[c].key[1] = id
<1>1. PICK k \in Key : k = InitKey(id) /\ k[1] = id /\ k[2] = InitProc
  BY InitKeyOf
<1>2. procs[k].state # "ABSENT" /\ procs'[k].state = "ABSENT" /\ procs[k] \in Record
  BY <1>1 DEF Registered, TypeOK
<1>3. ~ PutOn(k)
  <2>1. ASSUME NEW p, procs'[k] = NewRecord(p) PROVE FALSE
    BY <1>2, <2>1 DEF NewRecord
  <2> QED
    BY <2>1 DEF PutOn
<1>4. ~ GivenProcess(k) /\ ~ StoppedByPump(k) /\ ~ WaitedFor(k) /\ ~ Moved(k)
  <2>1. ASSUME GivenProcess(k) PROVE FALSE
    <3>1. PICK x : procs'[k] = [procs[k] EXCEPT !.inc = x, !.state = "RUNNING"]
      BY <2>1 DEF GivenProcess
    <3> QED
      BY <1>2, <3>1, RecordReads
  <2>2. ASSUME StoppedByPump(k) PROVE FALSE
    BY <1>2, <2>2, RecordReads DEF StoppedByPump
  <2>3. ASSUME WaitedFor(k) PROVE FALSE
    BY <1>2, <2>3, RecordReads DEF WaitedFor
  <2>4. ASSUME Moved(k) PROVE FALSE
    BY <1>2, <2>4, RecordReads DEF Moved, Going
  <2> QED
    BY <2>1, <2>2, <2>3, <2>4
<1>5. TakenOff(k)
  BY <1>1, <1>2, <1>3, <1>4, RecordSteps
<1>6. \A c \in Callers : ~ DeleteExec(c, k)
  BY <1>1 DEF DeleteExec
<1>7. ASSUME NEW c \in Callers, CreateInsert(c), k \in Keys(call[c].key[1]), k # call[c].key
      PROVE FALSE
  <2>1. call[c].key \in Key /\ call[c].key[2] = InitProc
    BY <1>7, BusyCall DEF CreateInsert, SpawningInv, Spawning, TypeOK
  <2> QED
    BY <1>1, <1>7, <2>1, KeysOf
<1>8. ASSUME NEW c \in Callers, DeleteRemove(c), k \in Keys(call[c].key[1]) PROVE call[c].key[1] = id
  BY <1>1, <1>8, BusyCall, KeysOf DEF DeleteRemove, TypeOK
<1> QED
  BY <1>5, <1>6, <1>7, <1>8 DEF TakenOff

------------------------------------------------------------------------------
(* A process keeps the key it was born for.                                *)
LEMMA OwnerStep ==
  ASSUME TypeOK, OwnerInv, [Next]_vars
  PROVE  OwnerInv'
BY AliveSteps, InitKeyOf DEF OwnerInv

(* What the runtime has forgotten does not come back to life.              *)
LEMMA RuntimeStep ==
  ASSUME TypeOK, IInv, ClientInv, [Next]_vars
  PROVE  RuntimeInv'
<1> SUFFICES ASSUME NEW id \in Ids, rt'[id] = "none", NEW p \in Procs,
                    status'[p] = "alive", owner'[p] \in Keys(id)
             PROVE  FALSE
  BY DEF RuntimeInv, AliveIn
<1>1. ASSUME rt[id] = "none" PROVE ~ (status[p] = "alive" /\ owner[p] \in Keys(id))
  BY <1>1 DEF ClientInv, RuntimeInv, AliveIn
<1>2. ASSUME NEW c \in Callers, DeleteInit(c, id) PROVE FALSE
  BY <1>2 DEF DeleteInit, Slay, AliveIn, TypeOK
<1>3. rt[id] = "none" /\ ~ (status[p] = "alive" /\ owner'[p] = owner[p])
  BY <1>1, <1>2, RuntimeSteps
<1>4. ASSUME NEW c \in Callers, NEW i \in Ids, Create(c, i), owner'[p] = InitKey(i) PROVE FALSE
  <2>1. i = id
    BY <1>4, InitKeyOf
  <2> QED
    BY <1>4, <2>1 DEF Create, TypeOK
<1>5. ASSUME NEW c \in Callers, NEW k \in Key, StartExec(c, k), owner'[p] = k PROVE FALSE
  <2> DEFINE q == procs[InitKey(id)].inc
  <2>1. k[1] = id
    BY <1>5, KeysOf
  <2>2. Alive(q)
    BY <1>5, <2>1 DEF StartExec
  <2>3. q \in Procs /\ status[q] = "alive" /\ owner[q] = InitKey(id)
    BY <2>2, InitKeyOf, RecordFields DEF Alive, IInv, OwnedInv, TypeOK
  <2>4. owner[q] \in Keys(id)
    BY <2>3, InitKeyOf
  <2> QED
    BY <1>3, <2>3, <2>4 DEF ClientInv, RuntimeInv, AliveIn
<1> QED
  BY <1>3, <1>4, <1>5, AliveSteps

(* Nothing comes between a spawn and the record it is for.                 *)
LEMMA OverwriteStep ==
  ASSUME TypeOK, IInv, ClientInv, AsContainerd, [Next]_vars
  PROVE  OverwriteInv'
<1> DEFINE Fresh(c, id) == AliveIn(id)' \subseteq {call'[c].inc} /\ CallsOn(id)' = {c}
<1> SUFFICES ASSUME NEW c \in Callers, Spawning(c)'
             PROVE  \/ /\ call'[c].pc = "record"
                       /\ procs'[call'[c].key].state = "CREATED" /\ procs'[call'[c].key].inc = NoProc
                    \/ /\ call'[c].pc = "insert"
                       /\ \E id \in Ids : call'[c].key[1] = id /\ Fresh(c, id)
  BY DEF OverwriteInv, Spawning, AliveIn, CallsOn
<1>1. ASSUME NEW id \in Ids, Create(c, id)
      PROVE  call'[c].pc = "insert" /\ call'[c].key[1] = id /\ Fresh(c, id)
  <2>1. PICK p \in Procs : /\ Spawn(p, InitKey(id))
                           /\ call' = [call EXCEPT ![c] = At("insert", InitKey(id), p, "other")]
    BY <1>1 DEF Create
  <2>2. call'[c].pc = "insert" /\ call'[c].key = InitKey(id) /\ call'[c].inc = p
    BY <2>1 DEF At, TypeOK
  <2>3. \A q \in Procs : status[q] = "alive" => owner[q] \notin Keys(id)
    BY <1>1 DEF Create, ClientInv, RuntimeInv, AliveIn
  <2>4. \A q \in Procs \ {p} : status'[q] = status[q] /\ owner'[q] = owner[q]
    BY <2>1 DEF Spawn, TypeOK
  <2>5. \A d \in Callers : call[d].key \notin Keys(id)
    BY <1>1 DEF Create, AsContainerd, Untouched
  <2>6. \A d \in Callers \ {c} : call'[d] = call[d]
    BY <2>1 DEF TypeOK
  <2>7. AliveIn(id)' \subseteq {p}
    BY <2>3, <2>4 DEF AliveIn
  <2>8. CallsOn(id)' = {c}
    BY <2>2, <2>5, <2>6, InitKeyOf DEF CallsOn
  <2> QED
    BY <2>2, <2>7, <2>8, InitKeyOf
<1>2. ASSUME NEW k \in Key, StartExec(c, k)
      PROVE  /\ call'[c].pc = "record" /\ procs'[call'[c].key].state = "CREATED"
             /\ procs'[call'[c].key].inc = NoProc
  <2>1. call'[c].pc = "record" /\ call'[c].key = k /\ procs' = procs
    BY <1>2 DEF StartExec, At, TypeOK
  <2>2. k[2] # InitProc /\ procs[k].state = "CREATED"
    BY <1>2 DEF StartExec, AsContainerd
  <2> QED
    BY <2>1, <2>2 DEF ClientInv, RecordInv
<1>3. ASSUME Spawning(c), call'[c] = call[c], NEW id \in Ids, call[c].key[1] = id, call[c].pc = "insert"
      PROVE  Fresh(c, id)
  <2>1. lock # "free"
    BY <1>3, ConstantsAssumption DEF IInv, SpawningInv
  <2>2. AliveIn(id) \subseteq {call[c].inc} /\ CallsOn(id) = {c}
    BY <1>3 DEF ClientInv, OverwriteInv
  <2>3. AliveIn(id)' \subseteq AliveIn(id)
    BY <2>1, AliveSteps DEF AliveIn
  <2>4. ASSUME NEW d \in Callers, call'[d].key \in Keys(id) PROVE call[d].key \in Keys(id)
    BY <2>1, <2>4, CallMoves, NoKeyOf DEF Idle, At
  <2>5. call'[c].key \in Keys(id)
    BY <1>3, <2>2 DEF CallsOn
  <2>6. CallsOn(id)' = {c}
    BY <2>2, <2>4, <2>5 DEF CallsOn
  <2> QED
    BY <1>3, <2>2, <2>3, <2>6
<1>4. CASE Spawning(c) /\ call'[c] = call[c] /\ lock' = lock /\ UNCHANGED procs /\ ~ PumpHandle
  <2>1. call[c].key[1] \in Ids
    BY <1>4, BusyCall, KeysOf DEF Spawning, TypeOK
  <2>2. CASE call[c].pc = "record"
    BY <1>4, <2>2 DEF ClientInv, OverwriteInv
  <2>3. CASE call[c].pc = "insert"
    BY <1>3, <1>4, <2>1, <2>3
  <2> QED
    BY <1>4, <2>2, <2>3 DEF Spawning
<1> HIDE DEF Fresh
<1> QED
  BY <1>1, <1>2, <1>4, SpawningSteps DEF IInv

(* Between the locks of a delete nobody creates the container again.       *)
LEMMA ForgottenStep ==
  ASSUME TypeOK, IInv, ClientInv, AsContainerd, [Next]_vars
  PROVE  ForgottenInv'
<1> SUFFICES ASSUME NEW c \in Callers, call'[c].pc = "remove" PROVE rt'[call'[c].key[1]] = "none"
  BY DEF ForgottenInv
<1>1. CASE call'[c] = call[c]
  <2>1. call[c].key \in Key /\ rt[call[c].key[1]] = "none" /\ call[c].key[1] \in Ids
    BY <1>1, BusyCall, KeysOf DEF ClientInv, ForgottenInv, TypeOK
  <2>2. ASSUME NEW d \in Callers, Create(d, call[c].key[1]) PROVE FALSE
    BY <2>1, <2>2, KeysOf DEF Create, AsContainerd, Untouched
  <2> QED
    BY <1>1, <2>1, <2>2, RuntimeSteps
<1>2. ASSUME NEW id \in Ids, DeleteInit(c, id), call'[c].pc = "remove", call'[c] # call[c]
      PROVE  rt'[call'[c].key[1]] = "none"
  <2>1. call'[c].key = InitKey(id)
    BY <1>2 DEF DeleteInit, At, TypeOK
  <2> QED
    BY <1>2, <2>1, InitKeyOf DEF DeleteInit, TypeOK
<1>3. CASE call'[c] # call[c]
  <2>1. ASSUME NEW k \in Key, DeleteExec(c, k) PROVE FALSE
    BY <2>1 DEF DeleteExec, At, TypeOK
  <2>2. ASSUME DeleteRemove(c) PROVE FALSE
    BY <2>2, NextPc DEF DeleteRemove, TypeOK
  <2> QED
    BY <1>2, <1>3, <2>1, <2>2, CallSteps DEF IInv, Spawning
<1> QED
  BY <1>1, <1>3

(* What a record says of its process stays true.                           *)
LEMMA RecordStep ==
  ASSUME TypeOK, IInv, ClientInv, AsContainerd, DistinctPids, [Next]_vars
  PROVE  RecordInv'
<1> DEFINE Right(k) ==
      /\ k[2] = InitProc /\ procs'[k].state # "ABSENT" => procs'[k].inc # NoProc
      /\ k[2] # InitProc => /\ procs'[k].state \notin {"PAUSING", "PAUSED"}
                            /\ procs'[k].state = "CREATED" => procs'[k].inc = NoProc
      /\ procs'[k].code # NoProc <=> procs'[k].state = "STOPPED"
      /\ procs'[k].code # NoProc => status'[procs'[k].code] = "done"
<1>1. ASSUME NEW k \in Key PROVE Right(k)
  <2> DEFINE r == procs[k]
  <2>1. /\ r \in Record /\ r.inc \in Procs \cup {NoProc} /\ r.code \in Procs \cup {NoProc}
        /\ k[2] = InitProc /\ r.state # "ABSENT" => r.inc # NoProc
        /\ k[2] # InitProc => /\ r.state \notin {"PAUSING", "PAUSED"}
                              /\ r.state = "CREATED" => r.inc = NoProc
        /\ r.code # NoProc <=> r.state = "STOPPED"
        /\ r.code # NoProc => status[r.code] = "done"
    BY RecordFields DEF TypeOK, ClientInv, RecordInv
  <2>2. r.code # NoProc => status'[r.code] = "done"
    BY <2>1, StatusStep
  <2>3. CASE procs'[k] = r
    BY <2>1, <2>2, <2>3
  <2>4. CASE TakenOff(k)
    BY <2>4 DEF TakenOff, Absent
  <2>5. CASE PutOn(k)
    <3>1. ASSUME NEW c \in Callers, Exec(c, k), procs'[k] = NewRecord(NoProc) PROVE Right(k)
      BY <3>1 DEF Exec, NewRecord
    <3>2. ASSUME NEW c \in Callers, CreateInsert(c), k = call[c].key, procs'[k] = NewRecord(call[c].inc)
          PROVE  Right(k)
      <4>1. call[c].inc # NoProc /\ k[2] = InitProc
        BY <3>2, ConstantsAssumption DEF CreateInsert, Spawning, IInv, SpawningInv
      <4> QED
        BY <3>2, <4>1 DEF NewRecord
    <3> QED
      BY <2>5, <3>1, <3>2 DEF PutOn
  <2>6. CASE GivenProcess(k)
    <3>1. PICK c \in Callers : /\ ExecRecord(c) /\ k = call[c].key
                               /\ procs'[k] = [r EXCEPT !.inc = call[c].inc, !.state = "RUNNING"]
      BY <2>6 DEF GivenProcess
    <3>2. call[c].inc # NoProc /\ r.state = "CREATED"
      BY <3>1, ConstantsAssumption
      DEF ExecRecord, Spawning, IInv, SpawningInv, ClientInv, OverwriteInv
    <3>3. procs'[k].inc = call[c].inc /\ procs'[k].state = "RUNNING" /\ procs'[k].code = r.code
      BY <2>1, <3>1 DEF Record
    <3> QED
      BY <2>1, <3>2, <3>3
  <2>7. CASE StoppedByPump(k)
    <3>1. PumpHandle /\ HasPid(k, hand) /\ PumpRecord(k, hand)
          /\ procs'[k] = [r EXCEPT !.state = "STOPPED", !.code = hand, !.waiters = {}]
      BY <2>7 DEF StoppedByPump
    <3>2. hand \in Procs /\ hand # NoProc /\ r.inc # NoProc
      BY <3>1, ConstantsAssumption DEF PumpHandle, HasPid, TypeOK
    <3>3. status'[hand] = "done"
      BY <3>1, <3>2 DEF PumpRecord, PumpKills, PumpSpares, Slay, TypeOK
    <3>4. procs'[k].inc = r.inc /\ procs'[k].state = "STOPPED" /\ procs'[k].code = hand
      BY <2>1, <3>1, RecordReads
    <3> QED
      BY <3>2, <3>3, <3>4
  <2>8. CASE WaitedFor(k)
    <3>1. procs'[k].inc = r.inc /\ procs'[k].state = r.state /\ procs'[k].code = r.code
      BY <2>1, <2>8 DEF WaitedFor, Record
    <3> QED
      BY <2>1, <2>2, <3>1
  <2>9. CASE Moved(k)
    <3>1. PICK s \in Going : procs'[k] = [r EXCEPT !.state = s]
      BY <2>9 DEF Moved
    <3>2. procs'[k].inc = r.inc /\ procs'[k].state = s /\ procs'[k].code = r.code
      BY <2>1, <3>1 DEF Record
    <3>3. k[2] = InitProc /\ r.state \in Going
      BY <2>1, <2>9 DEF Moved
    <3> QED
      BY <2>1, <3>2, <3>3 DEF Going
  <2> HIDE DEF r, Right
  <2> QED
    BY <2>3, <2>4, <2>5, <2>6, <2>7, <2>8, <2>9, RecordSteps DEF r
<1>2. ASSUME NEW k \in Key, k[2] # InitProc, procs'[k].state # "ABSENT" PROVE Registered(k[1])'
  <2>1. k[1] \in Ids /\ k \in Keys(k[1])
    BY KeysOf
  <2>2. ASSUME Registered(k[1]), ~ Registered(k[1])' PROVE FALSE
    <3>1. PICK c \in Callers : DeleteRemove(c) /\ call[c].key[1] = k[1]
      BY <2>1, <2>2, Unregisters DEF IInv
    <3> QED
      BY <1>2, <2>1, <3>1 DEF DeleteRemove, Absent
  <2>3. CASE procs[k].state # "ABSENT"
    BY <1>2, <2>2, <2>3 DEF ClientInv, RecordInv
  <2>4. CASE procs[k].state = "ABSENT"
    <3>1. ~ TakenOff(k)
      BY <1>2 DEF TakenOff, Absent
    <3>2. ~ WaitedFor(k) /\ ~ Moved(k)
      BY <2>4 DEF WaitedFor, Moved, Going
    <3>3. ~ StoppedByPump(k)
      BY <2>4 DEF StoppedByPump, HasPid, IInv, OwnedInv
    <3>4. ~ GivenProcess(k)
      BY <2>4 DEF GivenProcess, ExecRecord, ClientInv, OverwriteInv
    <3>5. PICK c \in Callers : Exec(c, k)
      <4>1. ASSUME NEW c \in Callers, CreateInsert(c), k = call[c].key PROVE FALSE
        BY <1>2, <4>1 DEF CreateInsert, Spawning, IInv, SpawningInv
      <4>2. procs'[k] # procs[k]
        BY <1>2, <2>4
      <4> QED
        BY <3>1, <3>2, <3>3, <3>4, <4>1, <4>2, RecordSteps DEF PutOn
    <3>6. Registered(k[1])
      BY <3>5 DEF Exec
    <3> QED
      BY <2>2, <3>6
  <2> QED
    BY <2>3, <2>4
<1> QED
  BY <1>1, <1>2 DEF RecordInv

(* A living process stays on record, or in the hands of the call that has  *)
(* spawned it.                                                             *)
LEMMA OrphanStep ==
  ASSUME TypeOK, IInv, ClientInv, AsContainerd, DistinctPids, [Next]_vars
  PROVE  NoOrphan'
<1> SUFFICES ASSUME NEW p \in Procs, status'[p] = "alive"
             PROVE  \/ procs'[owner'[p]].inc = p
                    \/ \E c \in Callers : call'[c].pc \in {"insert", "record"} /\ call'[c].inc = p
  BY DEF NoOrphan
<1>1. CASE \E c \in Callers : call'[c].pc \in {"insert", "record"} /\ call'[c].inc = p
  BY <1>1
<1>2. CASE status[p] = "alive" /\ owner'[p] = owner[p]
  <2>1. PICK k \in Key : k = owner[p]
    BY <1>2 DEF ClientInv, OwnerInv
  <2>2. p # NoProc
    BY ConstantsAssumption
  <2>3. CASE procs[k].inc = p
    <3>1. CASE procs'[k] = procs[k]
      BY <1>2, <2>1, <2>3, <3>1
    <3>2. ASSUME NEW c \in Callers, DeleteExec(c, k) PROVE FALSE
      <4>1. k[2] # InitProc /\ procs[k].state \notin {"ABSENT", "RUNNING"}
        BY <3>2 DEF DeleteExec, AsContainerd
      <4>2. procs[k].state = "STOPPED"
        <5>1. procs[k].state \in States
          BY RecordFields DEF TypeOK
        <5> QED
          BY <2>2, <2>3, <4>1, <5>1 DEF ClientInv, RecordInv, States
      <4>3. procs[k].code = p
        BY <2>3, <4>2 DEF IInv, StoppedRight
      <4> QED
        BY <1>2, <2>2, <4>3 DEF ClientInv, RecordInv
    <3>3. ASSUME NEW c \in Callers, DeleteRemove(c), k \in Keys(call[c].key[1]) PROVE FALSE
      <4>1. rt[call[c].key[1]] = "none" /\ call[c].key[1] \in Ids
        BY <3>3, BusyCall, KeysOf DEF DeleteRemove, ClientInv, ForgottenInv, TypeOK
      <4> QED
        BY <1>2, <2>1, <3>3, <4>1 DEF ClientInv, RuntimeInv, AliveIn
    <3>4. ASSUME NEW c \in Callers, CreateInsert(c), k \in Keys(call[c].key[1])
          PROVE  k = call[c].key /\ p = call[c].inc
      <4>1. AliveIn(call[c].key[1]) \subseteq {call[c].inc} /\ owner[call[c].inc] = call[c].key
        BY <3>4 DEF CreateInsert, Spawning, ClientInv, OverwriteInv, IInv, SpawningInv
      <4>2. p \in AliveIn(call[c].key[1])
        BY <1>2, <2>1, <3>4 DEF AliveIn
      <4> QED
        BY <2>1, <4>1, <4>2
    <3>5. ~ TakenOff(k)
      BY <3>2, <3>3, <3>4 DEF TakenOff
    <3>6. CASE PutOn(k)
      <4>1. ASSUME NEW c \in Callers, Exec(c, k) PROVE FALSE
        BY <2>2, <2>3, <4>1 DEF Exec, AsContainerd, IInv, OwnedInv
      <4>2. PICK c \in Callers : CreateInsert(c) /\ k = call[c].key /\ procs'[k] = NewRecord(call[c].inc)
        BY <3>6, <4>1 DEF PutOn
      <4>3. k \in Keys(call[c].key[1])
        BY <4>2, KeysOf
      <4>4. procs'[k].inc = p
        BY <3>4, <4>2, <4>3 DEF NewRecord
      <4> QED
        BY <1>2, <2>1, <4>4
    <3>7. ~ GivenProcess(k)
      BY <2>2, <2>3 DEF GivenProcess, ExecRecord, ClientInv, OverwriteInv
    <3>8. ASSUME StoppedByPump(k) \/ WaitedFor(k) \/ Moved(k) PROVE procs'[k].inc = p
      <4>1. procs[k] \in Record
        BY DEF TypeOK
      <4>2. CASE StoppedByPump(k)
        BY <2>3, <4>1, <4>2, RecordReads DEF StoppedByPump
      <4>3. CASE WaitedFor(k)
        BY <2>3, <4>1, <4>3, RecordReads DEF WaitedFor
      <4>4. CASE Moved(k)
        BY <2>3, <4>1, <4>4, RecordReads DEF Moved
      <4> QED
        BY <3>8, <4>2, <4>3, <4>4
    <3> QED
      BY <1>2, <2>1, <3>1, <3>5, <3>6, <3>7, <3>8, RecordSteps
  <2>4. ASSUME NEW c \in Callers, Spawning(c), call[c].inc = p
        PROVE  procs'[k].inc = p \/ (call'[c].pc \in {"insert", "record"} /\ call'[c].inc = p)
    <3>1. k = call[c].key
      BY <2>1, <2>4 DEF IInv, SpawningInv
    <3>2. CASE call'[c] = call[c]
      BY <2>4, <3>2 DEF Spawning
    <3>3. CASE CreateInsert(c)
      BY <2>4, <3>1, <3>3 DEF CreateInsert, NewRecord
    <3>4. CASE ExecRecord(c)
      <4>1. procs'[k] = [procs[k] EXCEPT !.inc = p, !.state = "RUNNING"] /\ procs[k] \in Record
        BY <2>4, <3>1, <3>4 DEF ExecRecord, TypeOK
      <4> QED
        BY <4>1, RecordReads
    <3> QED
      BY <2>4, <3>2, <3>3, <3>4, SpawningEnds DEF IInv
  <2>5. procs[k].inc = p \/ \E c \in Callers : Spawning(c) /\ call[c].inc = p
    BY <1>2, <2>1 DEF ClientInv, NoOrphan, Spawning
  <2> QED
    BY <1>2, <2>1, <2>3, <2>4, <2>5
<1> QED
  <2>1. \A pc, k : /\ At(pc, k, p, "other").pc = pc
                   /\ At(pc, k, p, "other").inc = p
    BY DEF At
  <2> QED
    BY <1>1, <1>2, <2>1, AliveSteps

(* The first state satisfies the invariant.                                *)
LEMMA ClientInvInit == Init => ClientInv
BY ConstantsAssumption
DEF Init, ClientInv, OwnerInv, RuntimeInv, OverwriteInv, ForgottenInv, RecordInv, NoOrphan, AliveIn,
    Absent, Idle, At

(* ClientInv is inductive, given the types and IInv.                       *)
LEMMA ClientInvStep ==
  ASSUME TypeOK, IInv, ClientInv, AsContainerd, DistinctPids, [Next]_vars
  PROVE  ClientInv'
<1>1. OwnerInv' /\ RuntimeInv'
  BY OwnerStep, RuntimeStep DEF ClientInv
<1>2. OverwriteInv' /\ ForgottenInv'
  BY OverwriteStep, ForgottenStep
<1>3. RecordInv' /\ NoOrphan'
  BY RecordStep, OrphanStep
<1> QED
  BY <1>1, <1>2, <1>3 DEF ClientInv

(* Under such clients the invariant holds.                                 *)
THEOREM ClientInvariant ==
  AsContainerd /\ DistinctPids => (Spec => [](TypeOK /\ IInv /\ ClientInv))
<1> SUFFICES ASSUME AsContainerd, DistinctPids PROVE Spec => [](TypeOK /\ IInv /\ ClientInv)
  OBVIOUS
<1>1. Init => ClientInv
  BY ClientInvInit
<1>2. TypeOK /\ IInv /\ ClientInv /\ [Next]_vars => ClientInv'
  BY ClientInvStep
<1>3. Spec => [](TypeOK /\ IInv)
  BY Invariant
<1> QED
  BY <1>1, <1>2, <1>3, PTL DEF Spec

(* Nothing runs that the shim does not know of (Task.create, start and     *)
(* exec against delete and each other).                                    *)
THEOREM NothingIsOrphaned == AsContainerd /\ DistinctPids => (Spec => []NoOrphan)
<1> SUFFICES ASSUME AsContainerd, DistinctPids PROVE Spec => []NoOrphan
  OBVIOUS
<1>1. TypeOK /\ IInv /\ ClientInv => NoOrphan
  BY DEF ClientInv
<1> QED
  BY <1>1, ClientInvariant, PTL

(* A container leaves the map when its init process is dead (the two locks *)
(* of Task.delete).                                                        *)
THEOREM TheRemovedAreDead == AsContainerd /\ DistinctPids => (Spec => RemovedIsDead)
<1> SUFFICES ASSUME AsContainerd, DistinctPids PROVE Spec => RemovedIsDead
  OBVIOUS
<1> DEFINE A == \A id \in Ids : Registered(id) /\ ~ Registered(id)' => ~ Alive(procs[InitKey(id)].inc)
<1>1. TypeOK /\ IInv /\ ClientInv /\ [Next]_vars => [A]_vars
  <2> SUFFICES ASSUME TypeOK, IInv, ClientInv, [Next]_vars, NEW id \in Ids,
                      Registered(id), ~ Registered(id)', Alive(procs[InitKey(id)].inc)
               PROVE  FALSE
    OBVIOUS
  <2>1. PICK c \in Callers : DeleteRemove(c) /\ call[c].key[1] = id
    BY Unregisters DEF IInv
  <2>2. rt[id] = "none"
    BY <2>1 DEF DeleteRemove, ClientInv, ForgottenInv
  <2>3. AliveIn(id) = {}
    BY <2>2 DEF ClientInv, RuntimeInv
  <2>4. PICK p \in Procs : p = procs[InitKey(id)].inc
    BY InitKeyOf, RecordFields DEF Alive, TypeOK
  <2>5. status[p] = "alive" /\ owner[p] = InitKey(id)
    BY <2>4, InitKeyOf DEF Alive, IInv, OwnedInv
  <2>6. owner[p] \in Keys(id)
    BY <2>5, InitKeyOf
  <2> QED
    BY <2>3, <2>5, <2>6 DEF AliveIn
<1>2. Spec => [][A]_vars
  BY <1>1, ClientInvariant, PTL DEF Spec
<1> QED
  BY <1>2 DEF RemovedIsDead

(* Who signals the exit of the shim.                                       *)
LEMMA ExitSteps ==
  ASSUME [Next]_vars, exit' # exit
  PROVE  \E c \in Callers : Shutdown(c)
<1>1. ASSUME NEW c \in Callers, NEW id \in Ids, ContainerCall(c, id) PROVE FALSE
  BY <1>1 DEF ContainerCall, Create, StartInit, Pause, Resume, DeleteInit
<1>2. ASSUME NEW c \in Callers, NEW k \in Key, ProcessCall(c, k) PROVE FALSE
  BY <1>2 DEF ProcessCall, Exec, StartExec, DeleteExec, Kill, Exit, Wait
<1>3. ASSUME NEW c \in Callers, CallStep(c) PROVE Shutdown(c)
  BY <1>3 DEF CallStep, CreateInsert, ExecRecord, PauseDone, PauseFails, LateFailure,
     Timeout, DeleteRemove, SendEvent, Wake, Return
<1>4. ASSUME Kernel \/ Pump \/ UNCHANGED vars PROVE FALSE
  BY <1>4 DEF Kernel, Exit, Reap, Pump, PumpReceive, PumpHandle, PumpSend, Forward, vars
<1> QED
  BY <1>1, <1>2, <1>3, <1>4 DEF Next

(* The shim signals its exit only when nothing it started lives            *)
(* (Task.shutdown reads the map under its lock).                           *)
THEOREM ShutdownsAreIdle == AsContainerd /\ DistinctPids => (Spec => ShutdownIdle)
<1> SUFFICES ASSUME AsContainerd, DistinctPids PROVE Spec => ShutdownIdle
  OBVIOUS
<1> DEFINE A == ~ exit /\ exit' => \A p \in Procs : status[p] # "alive"
<1>1. TypeOK /\ IInv /\ ClientInv /\ [Next]_vars => [A]_vars
  <2> SUFFICES ASSUME TypeOK, IInv, ClientInv, [Next]_vars, ~ exit, exit',
                      NEW p \in Procs, status[p] = "alive"
               PROVE  FALSE
    OBVIOUS
  <2>1. lock = "free" /\ \A id \in Ids : ~ Registered(id)
    BY ExitSteps DEF Shutdown, Begin
  <2>2. PICK k \in Key : k = owner[p]
    BY DEF ClientInv, OwnerInv
  <2>3. procs[k].inc = p
    BY <2>1, <2>2, NoSpawning DEF ClientInv, NoOrphan, Spawning, IInv
  <2>4. procs[k].state # "ABSENT"
    BY <2>3, ConstantsAssumption DEF IInv, OwnedInv
  <2>5. Registered(k[1])
    <3>1. CASE k[2] = InitProc
      BY <2>4, <3>1, KeysOf DEF Registered
    <3>2. CASE k[2] # InitProc
      BY <2>4, <3>2 DEF ClientInv, RecordInv
    <3> QED
      BY <3>1, <3>2
  <2> QED
    BY <2>1, <2>5, KeysOf
<1>2. Spec => [][A]_vars
  BY <1>1, ClientInvariant, PTL DEF Spec
<1> QED
  BY <1>2 DEF ShutdownIdle

------------------------------------------------------------------------------
(* How a call comes to wait or to know its answer.                         *)
LEMMA WaitSteps ==
  ASSUME TypeOK, [Next]_vars, NEW c \in Callers, call'[c].pc \in {"waiting", "replied"}
  PROVE  call'[c] = call[c] \/ Wake(c) \/ \E k \in Key : Wait(c, k)
<1> DEFINE Goal == call'[c] = call[c] \/ Wake(c) \/ \E k \in Key : Wait(c, k)
<1>1. ASSUME NEW d \in Callers, NEW r, call' = [call EXCEPT ![d] = r], r.pc \notin {"waiting", "replied"}
      PROVE  Goal
  BY <1>1 DEF TypeOK
<1>2. ASSUME NEW d \in Callers, NEW k, NEW p, NEW kind, NEW pc \in {"insert", "record", "pausing", "remove", "send"},
             call' = [call EXCEPT ![d] = At(pc, k, p, kind)]
      PROVE  Goal
  <2>1. At(pc, k, p, kind).pc \notin {"waiting", "replied"}
    BY DEF At
  <2> QED
    BY <1>1, <1>2, <2>1
<1>3. ASSUME UNCHANGED call PROVE Goal
  BY <1>3
<1>4. ASSUME NEW d \in Callers, NEW id \in Ids, ContainerCall(d, id) PROVE Goal
  <2>1. \/ UNCHANGED call
        \/ \E pc \in {"insert", "record", "pausing", "remove", "send"} : \E k, p, kind :
             call' = [call EXCEPT ![d] = At(pc, k, p, kind)]
    BY <1>4 DEF ContainerCall, Create, StartInit, Pause, Resume, DeleteInit
  <2> QED
    BY <1>2, <1>3, <2>1
<1>5. ASSUME NEW d \in Callers, NEW k \in Key, ProcessCall(d, k) PROVE Goal
  <2>1. CASE Wait(d, k)
    <3>1. \E r : call' = [call EXCEPT ![d] = r]
      BY <2>1 DEF Wait
    <3> QED
      BY <2>1, <3>1 DEF TypeOK
  <2>2. CASE Kill(d, k)
    BY <1>3, <2>2 DEF Kill, Exit
  <2>3. CASE Exec(d, k) \/ StartExec(d, k) \/ DeleteExec(d, k)
    <3>1. PICK pc \in {"insert", "record", "pausing", "remove", "send"}, p \in Procs \cup {NoProc},
               kind \in {"delete", "other"} :
             call' = [call EXCEPT ![d] = At(pc, k, p, kind)]
      BY <2>3, RecordFields DEF Exec, StartExec, DeleteExec, TypeOK
    <3> QED
      BY <1>2, <3>1
  <2> QED
    BY <1>5, <2>1, <2>2, <2>3 DEF ProcessCall
<1>6. ASSUME NEW d \in Callers, CallStep(d) PROVE Goal
  <2>1. CASE CreateInsert(d) \/ ExecRecord(d) \/ DeleteRemove(d)
    <3>1. call' = [call EXCEPT ![d] = [call[d] EXCEPT !.pc = "send"]] /\ call[d] \in Call
      BY <2>1 DEF CreateInsert, ExecRecord, DeleteRemove, TypeOK
    <3>2. [call[d] EXCEPT !.pc = "send"].pc = "send"
      BY <3>1, NextPc
    <3> QED
      BY <1>1, <3>1, <3>2
  <2>2. CASE PauseDone(d)
    BY <1>2, <2>2 DEF PauseDone
  <2>3. CASE PauseFails(d) \/ LateFailure(d) \/ Timeout(d) \/ SendEvent(d) \/ Return(d)
    <3>1. call' = [call EXCEPT ![d] = Idle]
      BY <2>3 DEF PauseFails, LateFailure, Timeout, SendEvent, Return
    <3>2. Idle.pc = "idle"
      BY DEF Idle, At
    <3> QED
      BY <1>1, <3>1, <3>2
  <2>4. CASE Wake(d)
    BY <2>4 DEF Wake, TypeOK
  <2>5. CASE Shutdown(d)
    BY <1>3, <2>5 DEF Shutdown
  <2> QED
    BY <1>6, <2>1, <2>2, <2>3, <2>4, <2>5 DEF CallStep
<1>7. ASSUME Kernel \/ Pump \/ UNCHANGED vars PROVE Goal
  BY <1>3, <1>7 DEF Kernel, Exit, Reap, Pump, PumpReceive, PumpHandle, PumpSend, Forward, vars
<1> HIDE DEF Goal
<1>8. Goal
  BY <1>4, <1>5, <1>6, <1>7 DEF Next
<1> QED
  BY <1>8 DEF Goal

(* Without a pause nothing is paused.                                      *)
LEMMA PausedStep ==
  ASSUME TypeOK, IInv, NeverPaused, "pause" \notin Ops, [Next]_vars
  PROVE  NeverPaused'
<1> SUFFICES ASSUME NEW k \in Key PROVE procs'[k].state \notin {"PAUSING", "PAUSED"}
  BY DEF NeverPaused
<1>1. procs[k] \in Record /\ procs[k].state \notin {"PAUSING", "PAUSED"}
  BY DEF NeverPaused, TypeOK
<1>2. CASE procs'[k] = procs[k]
  BY <1>1, <1>2
<1>3. CASE TakenOff(k)
  BY <1>3 DEF TakenOff, Absent
<1>4. CASE PutOn(k)
  <2>1. ASSUME NEW p, procs'[k] = NewRecord(p) PROVE procs'[k].state = "CREATED"
    BY <2>1 DEF NewRecord
  <2> QED
    BY <1>4, <2>1 DEF PutOn
<1>5. CASE GivenProcess(k)
  <2>1. PICK x : procs'[k] = [procs[k] EXCEPT !.inc = x, !.state = "RUNNING"]
    BY <1>5 DEF GivenProcess
  <2> QED
    BY <1>1, <2>1, RecordReads
<1>6. CASE StoppedByPump(k)
  BY <1>1, <1>6, RecordReads DEF StoppedByPump
<1>7. CASE WaitedFor(k)
  BY <1>1, <1>7, RecordReads DEF WaitedFor
<1>8. CASE Moved(k)
  BY <1>1, <1>8, RecordReads DEF Moved
<1> QED
  BY <1>2, <1>3, <1>4, <1>5, <1>6, <1>7, <1>8, RecordSteps

(* A waiter is not forgotten: its record changes hands only with its       *)
(* sender dropped and its exit recorded, or with nothing left to wait for. *)
LEMMA WaiterStep ==
  ASSUME TypeOK, IInv, ClientInv, WaitInv, AsContainerd, DistinctPids, [Next]_vars,
         NEW c \in Callers, call'[c].pc = "waiting"
  PROVE  \/ c \in procs'[call'[c].key].waiters
         \/ procs'[call'[c].key].state \in {"ABSENT", "STOPPED"}
<1>1. ASSUME NEW k \in Key, Wait(c, k)
      PROVE  call'[c].key = k /\ c \in procs'[k].waiters
  <2>1. CASE Shown(k) \in {"CREATED", "RUNNING"}
    <3>1. procs[k] \in Record /\ procs'[k] = [procs[k] EXCEPT !.waiters = procs[k].waiters \cup {c}]
      BY <1>1, <2>1 DEF Wait, TypeOK
    <3>2. call'[c].key = k
      BY <1>1, <2>1 DEF Wait, At, TypeOK
    <3> QED
      BY <3>1, <3>2 DEF Record
  <2>2. CASE Shown(k) \notin {"CREATED", "RUNNING"}
    BY <1>1, <2>2 DEF Wait, At, TypeOK
  <2> QED
    BY <2>1, <2>2
<1>2. ~ Wake(c)
  BY DEF Wake, Idle, At, TypeOK
<1>3. CASE call'[c] = call[c]
  <2>1. PICK k \in Key : k = call[c].key
    BY <1>3, BusyCall DEF TypeOK
  <2>2. c \in procs[k].waiters \/ procs[k].state \in {"ABSENT", "STOPPED"}
    BY <1>3, <2>1 DEF WaitInv
  <2>3. procs[k] \in Record /\ (procs[k].state = "STOPPED" => procs[k].inc # NoProc)
    BY DEF TypeOK, IInv, StoppedRight, ClientInv, RecordInv
  <2>4. CASE procs'[k] = procs[k]
    BY <1>3, <2>1, <2>2, <2>4
  <2>5. CASE TakenOff(k)
    BY <1>3, <2>1, <2>5 DEF TakenOff, Absent
  <2>6. ~ PutOn(k)
    <3>1. ASSUME NEW d \in Callers, Exec(d, k) PROVE FALSE
      BY <2>1, <3>1 DEF Exec, AsContainerd, Untouched
    <3>2. ASSUME NEW d \in Callers, CreateInsert(d), k = call[d].key PROVE FALSE
      <4>1. CallsOn(k[1]) = {d}
        BY <3>2 DEF CreateInsert, ClientInv, OverwriteInv
      <4>2. c = d
        BY <2>1, <4>1, KeysOf DEF CallsOn
      <4> QED
        BY <1>3, <3>2, <4>2 DEF CreateInsert
    <3> QED
      BY <3>1, <3>2 DEF PutOn
  <2>7. CASE GivenProcess(k)
    <3>1. PICK d \in Callers : /\ ExecRecord(d) /\ k = call[d].key
                               /\ procs'[k] = [procs[k] EXCEPT !.inc = call[d].inc, !.state = "RUNNING"]
      BY <2>7 DEF GivenProcess
    <3>2. procs[k].state = "CREATED"
      BY <3>1 DEF ExecRecord, ClientInv, OverwriteInv
    <3>3. procs'[k].waiters = procs[k].waiters
      BY <2>3, <3>1 DEF Record
    <3> QED
      BY <1>3, <2>1, <2>2, <3>2, <3>3
  <2>8. CASE StoppedByPump(k)
    BY <1>3, <2>1, <2>3, <2>8, RecordReads DEF StoppedByPump
  <2>9. CASE WaitedFor(k)
    <3>1. PICK d \in Callers : procs'[k] = [procs[k] EXCEPT !.waiters = procs[k].waiters \cup {d}]
      BY <2>9 DEF WaitedFor
    <3>2. procs'[k].waiters = procs[k].waiters \cup {d} /\ procs[k].state \in {"CREATED", "RUNNING"}
      BY <2>3, <2>9, <3>1 DEF WaitedFor, Record
    <3> QED
      BY <1>3, <2>1, <2>2, <3>2
  <2>10. CASE Moved(k)
    <3>1. PICK x : procs'[k] = [procs[k] EXCEPT !.state = x]
      BY <2>10 DEF Moved
    <3>2. procs'[k].waiters = procs[k].waiters /\ procs[k].state \in Going
      BY <2>3, <2>10, <3>1 DEF Moved, Record
    <3> QED
      BY <1>3, <2>1, <2>2, <3>2 DEF Going
  <2> QED
    BY <2>4, <2>5, <2>6, <2>7, <2>8, <2>9, <2>10, RecordSteps
<1> QED
  BY <1>1, <1>2, <1>3, WaitSteps

(* What a STOPPED record answers a wait.                                   *)
LEMMA StoppedAnswers ==
  ASSUME TypeOK, IInv, ClientInv, NEW k \in Key, procs[k].state = "STOPPED"
  PROVE  /\ procs[k].code \in Procs /\ procs[k].code # NoProc
         /\ owner[procs[k].code] = k /\ status[procs[k].code] # "unborn"
<1>1. procs[k].code # NoProc /\ procs[k].code = procs[k].inc
  BY DEF ClientInv, RecordInv, IInv, StoppedRight
<1> QED
  BY <1>1, RecordFields DEF TypeOK, IInv, OwnedInv

(* An answer is the exit of a process of the key that was waited for.      *)
LEMMA AnswerStep ==
  ASSUME TypeOK, IInv, ClientInv, WaitInv, NeverPaused, [Next]_vars,
         NEW c \in Callers, call'[c].pc = "replied"
  PROVE  /\ call'[c].inc # NoProc
         /\ owner'[call'[c].inc] = call'[c].key /\ status'[call'[c].inc] # "unborn"
<1>1. ASSUME NEW k \in Key, procs[k].state = "STOPPED", call'[c] = At("replied", k, procs[k].code, "other")
      PROVE  /\ call'[c].inc # NoProc
             /\ owner'[call'[c].inc] = call'[c].key /\ status'[call'[c].inc] # "unborn"
  <2>1. call'[c].inc = procs[k].code /\ call'[c].key = k
    BY <1>1 DEF At
  <2> QED
    BY <1>1, <2>1, StoppedAnswers, StatusStep
<1>2. CASE call'[c] = call[c]
  <2>1. call[c].inc \in Procs /\ owner[call[c].inc] = call[c].key /\ status[call[c].inc] # "unborn"
    BY <1>2, BusyCall DEF WaitInv, TypeOK
  <2> QED
    BY <1>2, <2>1, ConstantsAssumption, StatusStep
<1>3. ASSUME NEW k \in Key, Wait(c, k)
      PROVE  procs[k].state = "STOPPED" /\ call'[c] = At("replied", k, procs[k].code, "other")
  <2>1. Shown(k) \notin {"CREATED", "RUNNING"}
    BY <1>3 DEF Wait, At, TypeOK
  <2>2. call'[c] = At("replied", k, procs[k].code, "other") /\ procs[k].state # "ABSENT"
    BY <1>3, <2>1 DEF Wait, TypeOK
  <2>3. Shown(k) = procs[k].state /\ procs[k].state \in States
    BY KeysOf, InitKeyOf, RecordFields DEF Shown, NeverPaused, TypeOK
  <2> QED
    BY <2>1, <2>2, <2>3 DEF NeverPaused, States
<1>4. ASSUME Wake(c)
      PROVE  \E k \in Key : procs[k].state = "STOPPED" /\ call'[c] = At("replied", k, procs[k].code, "other")
  <2>1. PICK k \in Key : k = call[c].key
    BY <1>4, BusyCall DEF Wake, TypeOK
  <2>2. call'[c] = IF procs[k].state = "ABSENT" THEN Idle ELSE At("replied", k, procs[k].code, "other")
    BY <1>4, <2>1 DEF Wake, TypeOK
  <2>3. procs[k].state # "ABSENT"
    BY <2>2 DEF Idle, At
  <2>4. procs[k].state = "STOPPED"
    BY <1>4, <2>1, <2>3 DEF Wake, WaitInv
  <2> QED
    BY <2>2, <2>3, <2>4
<1> QED
  BY <1>1, <1>2, <1>3, <1>4, WaitSteps

(* What is true of the waits as long as nothing is paused.                 *)
LEMMA WaitInvariant ==
  AsContainerd /\ DistinctPids /\ "pause" \notin Ops
    => (Spec => [](TypeOK /\ IInv /\ ClientInv /\ WaitInv /\ NeverPaused))
<1> SUFFICES ASSUME AsContainerd, DistinctPids, "pause" \notin Ops
             PROVE  Spec => [](TypeOK /\ IInv /\ ClientInv /\ WaitInv /\ NeverPaused)
  OBVIOUS
<1>1. Init => WaitInv /\ NeverPaused
  BY DEF Init, WaitInv, NeverPaused, Idle, At, Absent
<1>2. TypeOK /\ IInv /\ ClientInv /\ WaitInv /\ NeverPaused /\ [Next]_vars => (WaitInv /\ NeverPaused)'
  <2> SUFFICES ASSUME TypeOK, IInv, ClientInv, WaitInv, NeverPaused, [Next]_vars
               PROVE  WaitInv' /\ NeverPaused'
    OBVIOUS
  <2>1. WaitInv'
    BY WaiterStep, AnswerStep DEF WaitInv
  <2> QED
    BY <2>1, PausedStep
<1>3. Spec => [](TypeOK /\ IInv /\ ClientInv)
  BY ClientInvariant
<1> QED
  BY <1>1, <1>2, <1>3, PTL DEF Spec

(* Under the lock each living process is on record where it belongs, and   *)
(* nowhere else.                                                           *)
LEMMA OnRecord ==
  ASSUME TypeOK, IInv, ClientInv, DistinctPids, lock = "free",
         NEW p \in Procs, status[p] = "alive", NEW k \in Key
  PROVE  HasPid(k, p) <=> k = owner[p]
<1>1. p # NoProc /\ procs[owner[p]].inc = p
  BY ConstantsAssumption, NoSpawning DEF ClientInv, NoOrphan, IInv, Spawning
<1>2. ASSUME HasPid(k, p) PROVE k = owner[p]
  <2>1. procs[k].inc \in Procs /\ procs[k].inc # NoProc /\ PidOf[procs[k].inc] = PidOf[p]
    BY <1>2, RecordFields DEF HasPid, TypeOK
  <2>2. procs[k].inc = p
    BY <2>1 DEF DistinctPids
  <2> QED
    BY <2>1, <2>2 DEF IInv, OwnedInv
<1> QED
  BY <1>1, <1>2 DEF HasPid

(* Whatever state, pids, connect and wait answer is true (the read lock,   *)
(* and the dropped sender of Task.wait).                                   *)
THEOREM AnswersAreTruthful ==
  AsContainerd /\ DistinctPids /\ "pause" \notin Ops => (Spec => []AnswersTruthful)
<1> SUFFICES ASSUME AsContainerd, DistinctPids, "pause" \notin Ops PROVE Spec => []AnswersTruthful
  OBVIOUS
<1>1. TypeOK /\ IInv /\ ClientInv /\ WaitInv /\ NeverPaused => AnswersTruthful
  <2> SUFFICES ASSUME TypeOK, IInv, ClientInv, WaitInv, NeverPaused PROVE AnswersTruthful
    OBVIOUS
  <2>1. ASSUME NEW c \in Callers, call[c].pc = "replied"
        PROVE  call[c].inc # NoProc /\ owner[call[c].inc] = call[c].key
    BY <2>1 DEF WaitInv
  <2>2. ASSUME NEW id \in Ids, Registered(id) PROVE owner[connect(id)] = InitKey(id)
    BY <2>2, InitKeyOf DEF Registered, connect, ClientInv, RecordInv, IInv, OwnedInv
  <2>3. ASSUME lock = "free", NEW id \in Ids, NEW p \in ps(id)
        PROVE  all_processes(id)[p] = {owner[p][2]} \ {InitProc}
    <3>1. p \in Procs /\ status[p] = "alive" /\ owner[p] \in Keys(id)
      BY <2>3 DEF ps, AliveIn
    <3>2. all_processes(id)[p] = {e \in ExecIds : HasPid(<<id, e>>, p)}
      BY <2>3 DEF all_processes
    <3>3. \A e \in ExecIds : <<id, e>> \in Key
      BY <2>3 DEF Key
    <3>4. \A e \in ExecIds : HasPid(<<id, e>>, p) <=> <<id, e>> = owner[p]
      BY <2>3, <3>1, <3>3, OnRecord
    <3>5. PICK x \in ExecIds \cup {InitProc} : owner[p] = <<id, x>>
      BY <3>1 DEF Keys
    <3>6. \A e \in ExecIds : HasPid(<<id, e>>, p) <=> e = x
      BY <3>4, <3>5
    <3> QED
      BY <3>2, <3>5, <3>6, ConstantsAssumption
  <2>4. ASSUME NEW id \in Ids, NEW k \in Keys(id)
        PROVE  /\ state(k).exit \in {NoProc, state(k).pid}
               /\ state(k).status = "STOPPED" => state(k).exit # NoProc
               /\ state(k).exit # NoProc => ~ Alive(state(k).pid)
    <3>1. k \in Key /\ InitKey(k[1]) \in Key
      BY <2>4 DEF Key, Keys, InitKey
    <3>2. state(k).status = procs[k].state /\ state(k).exit = procs[k].code
            /\ state(k).pid = procs[k].inc
      BY <3>1 DEF state, Shown, NeverPaused
    <3>3. procs[k].code # NoProc => procs[k].code = procs[k].inc /\ status[procs[k].code] = "done"
      BY <3>1 DEF ClientInv, RecordInv, IInv, StoppedRight
    <3>4. procs[k].state = "STOPPED" => procs[k].code # NoProc
      BY <3>1 DEF ClientInv, RecordInv
    <3> QED
      BY <3>2, <3>3, <3>4 DEF Alive
  <2> QED
    BY <2>1, <2>2, <2>3, <2>4 DEF AnswersTruthful
<1> QED
  BY <1>1, WaitInvariant, PTL
==============================================================================

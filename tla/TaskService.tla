----------------------------- MODULE TaskService -----------------------------
(***************************************************************************)
(* The task service of the runc shim (crates/runc-shim): the table of      *)
(* containers and exec processes behind one tokio RwLock, the ttrpc        *)
(* handlers that change it, and the exit pump, which takes the exits the   *)
(* reaper reports and turns them into STOPPED records, woken waiters and   *)
(* TaskExit events.                                                        *)
(*                                                                         *)
(* A process is an element of Procs, born once.  Its exit code is modelled *)
(* by its own identity, so a code that lands on the wrong record shows.    *)
(* Its pid is PidOf[p]; two processes with one pid model pid reuse.        *)
(*                                                                         *)
(* A handler that waits while it holds the write lock is split into the    *)
(* steps between which the kernel runs; a handler that does not is one     *)
(* step.  A call that fails and changes nothing is a stuttering step.      *)
(***************************************************************************)
EXTENDS Naturals, FiniteSets

CONSTANTS
  Ids,           \* container ids
  ExecIds,       \* exec ids, the same in each container
  InitProc,      \* names the init process: the empty exec_id of a request
  Procs,         \* the processes that may ever be born
  NoProc,        \* no process: pid 0, or no exit code recorded
  PidOf,         \* the pid the kernel gives each process
  Callers,       \* ttrpc calls in flight at once
  ChanCap,       \* capacity of the event channel (128 in the code)
  PrivatePidNs,  \* the containers with a PID namespace of their own
  Ops,           \* the operations clients issue in this instance
  Faults,        \* the failures this instance exhibits
  Disciplined    \* TRUE: the clients use an id as containerd does, see below

ASSUME ConstantsAssumption ==
  /\ InitProc \notin ExecIds
  /\ NoProc \notin Procs
  /\ PidOf \in [Procs -> Nat \ {0}]
  /\ Callers \cap {"free", "pump"} = {}
  /\ ChanCap \in Nat \ {0}
  /\ PrivatePidNs \subseteq Ids
  /\ Disciplined \in BOOLEAN

Key == Ids \X (ExecIds \cup {InitProc})
NoKey == <<>>
Keys(id) == {id} \X (ExecIds \cup {InitProc})
InitKey(id) == <<id, InitProc>>

States == {"ABSENT", "CREATED", "RUNNING", "PAUSING", "PAUSED", "STOPPED"}
CallPcs == {"insert", "record", "pausing", "remove", "send", "waiting", "replied"}
EventKinds == {"exit", "delete", "other"}

(* A process record: the status, the process whose pid was recorded, the   *)
(* process whose exit code was recorded (exit_code and exited_at are set   *)
(* together) and the calls whose oneshot sender is in wait_chan_tx.        *)
Record == [state: States, inc: Procs \cup {NoProc}, code: Procs \cup {NoProc},
           waiters: SUBSET Callers]
NewRecord(p) == [state |-> "CREATED", inc |-> p, code |-> NoProc, waiters |-> {}]
Absent == [state |-> "ABSENT", inc |-> NoProc, code |-> NoProc, waiters |-> {}]

At(pc, k, p, kind) == [pc |-> pc, key |-> k, inc |-> p, kind |-> kind]
Idle == At("idle", NoKey, NoProc, "other")
Call == {Idle} \cup [pc: CallPcs, key: Key, inc: Procs \cup {NoProc}, kind: {"delete", "other"}]

VARIABLES
  lock,     \* "free", "pump", or the call that waits under the write lock
  procs,    \* Key -> Record: the containers map with its init and execs
  status,   \* the kernel's view of each process, then its exit's way home
  owner,    \* the key each process was spawned for
  rt,       \* the OCI runtime's own state of each container id
  hand,     \* the exit event the pump has received and not finished
  call,     \* what each call in flight is doing
  backlog,  \* events in the channel to the publisher
  sent,     \* history: TaskExit and TaskDelete events sent, 2 meaning several
  exit      \* the ExitSignal of the shim

vars == <<lock, procs, status, owner, rt, hand, call, backlog, sent, exit>>

Statuses == {"unborn", "alive", "zombie", "queued", "handed", "done"}

Init ==
  /\ lock = "free"
  /\ procs = [k \in Key |-> Absent]
  /\ status = [p \in Procs |-> "unborn"]
  /\ owner = [p \in Procs |-> NoKey]
  /\ rt = [id \in Ids |-> "none"]
  /\ hand = NoProc
  /\ call = [c \in Callers |-> Idle]
  /\ backlog = 0
  /\ sent = [kind \in {"exit", "delete"} |-> [p \in Procs |-> 0]]
  /\ exit = FALSE

------------------------------------------------------------------------------
Registered(id) == procs[InitKey(id)].state # "ABSENT"
Alive(p) == p # NoProc /\ status[p] = "alive"
AliveIn(id) == {p \in Procs : status[p] = "alive" /\ owner[p] \in Keys(id)}
Slay(S) == [p \in Procs |-> IF p \in S THEN "zombie" ELSE status[p]]

(* The channel send: it waits for room; a count of 2 stands for any more.  *)
Emit(kind, p) ==
  /\ backlog < ChanCap
  /\ backlog' = backlog + 1
  /\ sent' = IF kind = "other" \/ p = NoProc THEN sent
             ELSE [sent EXCEPT ![kind][p] = IF @ = 2 THEN 2 ELSE @ + 1]

(* A call of operation op that c may begin, with the write lock in reach.  *)
Begin(c, op) == op \in Ops /\ call[c] = Idle /\ lock = "free"

(* A disciplined client gives an id to a new process only when no call on  *)
(* it is in flight, starts an exec once, deletes one that is not running   *)
(* and does not delete a container twice at a time.                        *)
Untouched(K) == \A c \in Callers : call[c].key \notin K

(* The kernel: a new process never gets the pid of one not yet reaped.     *)
Spawn(p, k) ==
  /\ status[p] = "unborn"
  /\ \A q \in Procs : status[q] \in {"alive", "zombie"} => PidOf[q] # PidOf[p]
  /\ status' = [status EXCEPT ![p] = "alive"]
  /\ owner' = [owner EXCEPT ![p] = k]

(* A process exits by itself or by a signal; the kernel takes a private    *)
(* PID namespace down with its init.                                       *)
Exit(p) ==
  /\ status[p] = "alive"
  /\ status' = IF owner[p][2] = InitProc /\ owner[p][1] \in PrivatePidNs
               THEN Slay(AliveIn(owner[p][1]))
               ELSE Slay({p})
  /\ UNCHANGED <<lock, procs, owner, rt, hand, call, backlog, sent, exit>>

(* Mutant: SIGCHLDs coalesce and one wakeup reaps one child only.          *)
Mut_ReapFirst(p) ==
  /\ status[p] = "zombie"
  /\ \A q \in Procs \ {p} : status[q] \in {"unborn", "alive"}
  /\ status' = [status EXCEPT ![p] = "queued"]
  /\ UNCHANGED <<lock, procs, owner, rt, hand, call, backlog, sent, exit>>

(* The SIGCHLD loop reaps and the monitor queues the exit for the pump.    *)
Reap(p) ==
  /\ status[p] = "zombie"
  /\ status' = [status EXCEPT ![p] = "queued"]
  /\ UNCHANGED <<lock, procs, owner, rt, hand, call, backlog, sent, exit>>

------------------------------------------------------------------------------
(* Mutant: the lock is taken for the insertion only.                       *)
Mut_CreateUnlocked(c, id) ==
  /\ Begin(c, "create")
  /\ rt[id] = "none"
  /\ \E p \in Procs :
       /\ Spawn(p, InitKey(id))
       /\ call' = [call EXCEPT ![c] = At("insert", InitKey(id), p, "other")]
  /\ rt' = [rt EXCEPT ![id] = "created"]
  /\ UNCHANGED <<lock, procs, hand, backlog, sent, exit>>

(* Task.create: the write lock is held from before runc create until the   *)
(* container is in the map.                                                *)
Create(c, id) ==
  /\ Begin(c, "create")
  /\ rt[id] = "none"
  /\ Disciplined => Untouched(Keys(id))
  /\ \E p \in Procs :
       /\ Spawn(p, InitKey(id))
       /\ call' = [call EXCEPT ![c] = At("insert", InitKey(id), p, "other")]
  /\ rt' = [rt EXCEPT ![id] = "created"]
  /\ lock' = c
  /\ UNCHANGED <<procs, hand, backlog, sent, exit>>

CreateInsert(c) ==
  /\ call[c].pc = "insert"
  /\ procs' = [k \in Key |-> IF k = call[c].key THEN NewRecord(call[c].inc)
                             ELSE IF k \in Keys(call[c].key[1]) THEN Absent ELSE procs[k]]
  /\ call' = [call EXCEPT ![c].pc = "send"]
  /\ lock' = "free"
  /\ UNCHANGED <<status, owner, rt, hand, backlog, sent, exit>>

(* The console or the pid file fails after the runtime started the process.*)
LateFailure(c) ==
  /\ "late" \in Faults
  /\ call[c].pc \in {"insert", "record"}
  /\ call' = [call EXCEPT ![c] = Idle]
  /\ lock' = "free"
  /\ UNCHANGED <<procs, status, owner, rt, hand, backlog, sent, exit>>

(* The request times out and the ttrpc server drops the handler where it   *)
(* waits, its lock with it.  A dropped wait leaves a sender to nobody.     *)
Timeout(c) ==
  /\ "timeout" \in Faults
  /\ call[c].pc \in {"insert", "record", "pausing", "remove", "send"}
  /\ call' = [call EXCEPT ![c] = Idle]
  /\ lock' = IF lock = c THEN "free" ELSE lock
  /\ UNCHANGED <<procs, status, owner, rt, hand, backlog, sent, exit>>

(* Task.start of the init process.                                         *)
StartInit(c, id) ==
  LET k == InitKey(id) IN
  /\ Begin(c, "start")
  /\ procs[k].state \notin {"ABSENT", "STOPPED"}
  /\ rt[id] = "created" /\ Alive(procs[k].inc)
  /\ procs' = [procs EXCEPT ![k].state = "RUNNING"]
  /\ rt' = [rt EXCEPT ![id] = "running"]
  /\ call' = [call EXCEPT ![c] = At("send", k, procs[k].inc, "other")]
  /\ UNCHANGED <<lock, status, owner, hand, backlog, sent, exit>>

(* Mutant: the lock is taken only to record the pid.                       *)
Mut_StartExecUnlocked(c, k) ==
  /\ Begin(c, "start")
  /\ k[2] # InitProc
  /\ procs[k].state = "CREATED" /\ Alive(procs[InitKey(k[1])].inc)
  /\ \E p \in Procs :
       /\ Spawn(p, k)
       /\ call' = [call EXCEPT ![c] = At("record", k, p, "other")]
  /\ UNCHANGED <<lock, procs, rt, hand, backlog, sent, exit>>

(* Task.start of an exec: the lock is held while runc exec runs.  Nothing  *)
(* in the code refuses to start an exec that was started before.           *)
StartExec(c, k) ==
  LET i == InitKey(k[1]) IN
  /\ Begin(c, "start")
  /\ k[2] # InitProc
  /\ procs[k].state # "ABSENT"
  /\ Disciplined => procs[k].state = "CREATED"
  /\ procs[i].state \notin {"ABSENT", "STOPPED", "PAUSED"} /\ Alive(procs[i].inc)
  /\ \E p \in Procs :
       /\ Spawn(p, k)
       /\ call' = [call EXCEPT ![c] = At("record", k, p, "other")]
  /\ lock' = c
  /\ UNCHANGED <<procs, rt, hand, backlog, sent, exit>>

ExecRecord(c) ==
  /\ call[c].pc = "record"
  /\ procs' = [procs EXCEPT ![call[c].key] = [@ EXCEPT !.inc = call[c].inc, !.state = "RUNNING"]]
  /\ call' = [call EXCEPT ![c].pc = "send"]
  /\ lock' = "free"
  /\ UNCHANGED <<status, owner, rt, hand, backlog, sent, exit>>

(* Task.exec registers an exec; an exec of that id is silently replaced,   *)
(* and its waiters dropped with it.                                        *)
Exec(c, k) ==
  /\ Begin(c, "exec")
  /\ k[2] # InitProc
  /\ Registered(k[1])
  /\ Disciplined => procs[k].state = "ABSENT" /\ Untouched({k})
  /\ procs' = [procs EXCEPT ![k] = NewRecord(NoProc)]
  /\ call' = [call EXCEPT ![c] = At("send", k, NoProc, "other")]
  /\ UNCHANGED <<lock, status, owner, rt, hand, backlog, sent, exit>>

(* Task.pause: the lock is held while runc pause runs.                     *)
Pause(c, id) ==
  LET k == InitKey(id) IN
  /\ Begin(c, "pause")
  /\ procs[k].state = "RUNNING"
  /\ procs' = [procs EXCEPT ![k].state = "PAUSING"]
  /\ call' = [call EXCEPT ![c] = At("pausing", k, NoProc, "other")]
  /\ lock' = c
  /\ UNCHANGED <<status, owner, rt, hand, backlog, sent, exit>>

(* The handler has the lock, hence the state is still its own.             *)
Pausing(c) == call[c].pc = "pausing" /\ lock = c /\ procs[call[c].key].state = "PAUSING"

PauseDone(c) ==
  /\ Pausing(c)
  /\ procs' = [procs EXCEPT ![call[c].key].state = "PAUSED"]
  /\ call' = [call EXCEPT ![c] = At("send", call[c].key, NoProc, "other")]
  /\ lock' = "free"
  /\ UNCHANGED <<status, owner, rt, hand, backlog, sent, exit>>

PauseFails(c) ==
  /\ Pausing(c)
  /\ procs' = [procs EXCEPT ![call[c].key].state = "RUNNING"]
  /\ call' = [call EXCEPT ![c] = Idle]
  /\ lock' = "free"
  /\ UNCHANGED <<status, owner, rt, hand, backlog, sent, exit>>

(* Task.resume.                                                            *)
Resume(c, id) ==
  LET k == InitKey(id) IN
  /\ Begin(c, "pause")
  /\ procs[k].state = "PAUSED" /\ Alive(procs[k].inc)
  /\ procs' = [procs EXCEPT ![k].state = "RUNNING"]
  /\ call' = [call EXCEPT ![c] = At("send", k, NoProc, "other")]
  /\ UNCHANGED <<lock, status, owner, rt, hand, backlog, sent, exit>>

(* Mutant: a delete that does not wait for the pump to finish its send.    *)
Mut_DeleteExecUnlocked(c, k) ==
  /\ call[c] = Idle
  /\ k[2] # InitProc
  /\ procs[k].state # "ABSENT"
  /\ procs' = [procs EXCEPT ![k] = Absent]
  /\ call' = [call EXCEPT ![c] = At("send", k, procs[k].inc, "delete")]
  /\ UNCHANGED <<lock, status, owner, rt, hand, backlog, sent, exit>>

(* Task.delete of an exec: no state is refused, not even RUNNING.          *)
DeleteExec(c, k) ==
  /\ Begin(c, "delete")
  /\ k[2] # InitProc
  /\ procs[k].state # "ABSENT"
  /\ Disciplined => procs[k].state # "RUNNING"
  /\ procs' = [procs EXCEPT ![k] = Absent]
  /\ call' = [call EXCEPT ![c] = At("send", k, procs[k].inc, "delete")]
  /\ UNCHANGED <<lock, status, owner, rt, hand, backlog, sent, exit>>

(* Mutants: runc delete without --force; a delete that stops at the init.  *)
Mut_DeleteInitUnforced(c, id) ==
  /\ Begin(c, "delete")
  /\ Registered(id)
  /\ rt' = [rt EXCEPT ![id] = "none"]
  /\ call' = [call EXCEPT ![c] = At("remove", InitKey(id), procs[InitKey(id)].inc, "delete")]
  /\ UNCHANGED <<lock, procs, status, owner, hand, backlog, sent, exit>>

Mut_DeleteInitAlone(c, id) ==
  /\ Begin(c, "delete")
  /\ Registered(id)
  /\ status' = Slay(AliveIn(id) \cap {procs[InitKey(id)].inc})
  /\ rt' = [rt EXCEPT ![id] = "none"]
  /\ call' = [call EXCEPT ![c] = At("remove", InitKey(id), procs[InitKey(id)].inc, "delete")]
  /\ UNCHANGED <<lock, procs, owner, hand, backlog, sent, exit>>

(* Task.delete of a container: runc delete --force under one lock, the     *)
(* removal from the map under a second one.                                *)
DeleteInit(c, id) ==
  LET k == InitKey(id) IN
  /\ Begin(c, "delete")
  /\ Registered(id)
  /\ Disciplined => \A d \in Callers : ~ (call[d].pc = "remove" /\ call[d].key = k)
  /\ status' = Slay(AliveIn(id))
  /\ rt' = [rt EXCEPT ![id] = "none"]
  /\ \/ call' = [call EXCEPT ![c] = At("remove", k, procs[k].inc, "delete")]
     \/ "umount" \in Faults /\ UNCHANGED call
  /\ UNCHANGED <<lock, procs, owner, hand, backlog, sent, exit>>

DeleteRemove(c) ==
  /\ call[c].pc = "remove"
  /\ lock = "free"
  /\ procs' = [k \in Key |-> IF k \in Keys(call[c].key[1]) THEN Absent ELSE procs[k]]
  /\ call' = [call EXCEPT ![c].pc = "send"]
  /\ UNCHANGED <<lock, status, owner, rt, hand, backlog, sent, exit>>

(* Task.kill, of an init process by the runtime, of an exec by its pid     *)
(* unless an exit is recorded.  A signal ignored changes nothing.          *)
HasPid(k, p) == procs[k].inc # NoProc /\ PidOf[procs[k].inc] = PidOf[p]

InitSignalled(id, p) == rt[id] # "none" /\ p \in AliveIn(id)
ExecSignalled(k, p) == HasPid(k, p) /\ procs[k].code = NoProc

Kill(c, k) ==
  /\ Begin(c, "kill")
  /\ procs[k].state # "ABSENT"
  /\ \E p \in Procs :
       /\ IF k[2] = InitProc THEN InitSignalled(k[1], p) ELSE ExecSignalled(k, p)
       /\ Exit(p)

(* The event a handler sends after it has released the lock.               *)
SendEvent(c) ==
  /\ call[c].pc = "send"
  /\ Emit(call[c].kind, call[c].inc)
  /\ call' = [call EXCEPT ![c] = Idle]
  /\ UNCHANGED <<lock, procs, status, owner, rt, hand, exit>>

------------------------------------------------------------------------------
(* What Task.state answers: a paused container's status hides that of its  *)
(* processes.                                                              *)
Shown(k) ==
  LET init == procs[InitKey(k[1])].state IN
  IF init \in {"PAUSING", "PAUSED"} THEN init ELSE procs[k].state

(* What Task.state, pids and connect answer under the read lock: how a     *)
(* process on record stands; every process of the container, with the      *)
(* execs whose pid it has; and the init.                                   *)
state(k) == [status |-> Shown(k), pid |-> procs[k].inc, exit |-> procs[k].code]
ps(id) == AliveIn(id)
all_processes(id) == [p \in ps(id) |-> {e \in ExecIds : HasPid(<<id, e>>, p)}]
connect(id) == procs[InitKey(id)].inc

(* Mutant: only a RUNNING process is waited for.                           *)
Mut_WaitRunning(c, k) ==
  /\ Begin(c, "wait")
  /\ procs[k].state # "ABSENT"
  /\ IF Shown(k) = "RUNNING"
     THEN /\ procs' = [procs EXCEPT ![k].waiters = @ \cup {c}]
          /\ call' = [call EXCEPT ![c] = At("waiting", k, NoProc, "other")]
     ELSE /\ call' = [call EXCEPT ![c] = At("replied", k, procs[k].code, "other")]
          /\ UNCHANGED procs
  /\ UNCHANGED <<lock, status, owner, rt, hand, backlog, sent, exit>>

(* Task.wait answers at once where it is shown another state than these.   *)
Wait(c, k) ==
  /\ Begin(c, "wait")
  /\ procs[k].state # "ABSENT"
  /\ IF Shown(k) \in {"CREATED", "RUNNING"}
     THEN /\ procs' = [procs EXCEPT ![k].waiters = @ \cup {c}]
          /\ call' = [call EXCEPT ![c] = At("waiting", k, NoProc, "other")]
     ELSE /\ call' = [call EXCEPT ![c] = At("replied", k, procs[k].code, "other")]
          /\ UNCHANGED procs
  /\ UNCHANGED <<lock, status, owner, rt, hand, backlog, sent, exit>>

(* The dropped sender wakes the call, which takes the lock again and looks *)
(* the process up anew: gone, or whatever exit is recorded there now.      *)
Wake(c) ==
  LET k == call[c].key IN
  /\ call[c].pc = "waiting"
  /\ lock = "free"
  /\ \A j \in Key : c \notin procs[j].waiters
  /\ call' = [call EXCEPT ![c] = IF procs[k].state = "ABSENT" THEN Idle
                                 ELSE At("replied", k, procs[k].code, "other")]
  /\ UNCHANGED <<lock, procs, status, owner, rt, hand, backlog, sent, exit>>

Return(c) ==
  /\ call[c].pc = "replied"
  /\ call' = [call EXCEPT ![c] = Idle]
  /\ UNCHANGED <<lock, procs, status, owner, rt, hand, backlog, sent, exit>>

(* Mutant: the map is read without its lock.                               *)
Mut_ShutdownUnlocked(c) ==
  /\ call[c] = Idle
  /\ \A id \in Ids : ~ Registered(id)
  /\ exit' = TRUE
  /\ UNCHANGED <<lock, procs, status, owner, rt, hand, call, backlog, sent>>

(* Task.shutdown signals the shim's exit when the map is empty.            *)
Shutdown(c) ==
  /\ Begin(c, "shutdown")
  /\ \A id \in Ids : ~ Registered(id)
  /\ exit' = TRUE
  /\ UNCHANGED <<lock, procs, status, owner, rt, hand, call, backlog, sent>>

------------------------------------------------------------------------------
(* The exit pump.  The order of the queue is left open, for exits queued   *)
(* together were reaped in no particular order.                            *)
PumpReceive(p) ==
  /\ hand = NoProc
  /\ status[p] = "queued"
  /\ status' = [status EXCEPT ![p] = "handed"]
  /\ hand' = p
  /\ UNCHANGED <<lock, procs, owner, rt, call, backlog, sent, exit>>

(* The records the search may stop at: any container first, and in it the  *)
(* init process before the execs.  It asks for the pid, not for the state. *)
Matches(p) ==
  {k \in Key : HasPid(k, p) /\ (k[2] = InitProc \/ ~ HasPid(InitKey(k[1]), p))}

(* The children an init of a shared PID namespace leaves are killed here;  *)
(* the kill may fail, which is only logged.                                *)
PumpKills(k, p) ==
  /\ k[2] = InitProc
  /\ k[1] \notin PrivatePidNs
  /\ status' = [Slay(AliveIn(k[1])) EXCEPT ![p] = "done"]

PumpSpares(k, p) ==
  /\ k[2] = InitProc => k[1] \in PrivatePidNs \/ "kill" \in Faults
  /\ status' = [status EXCEPT ![p] = "done"]

(* Mutant: only a RUNNING process becomes STOPPED.                         *)
Mut_PumpRecordRunning(k, p) ==
  /\ PumpKills(k, p) \/ PumpSpares(k, p)
  /\ procs' = [procs EXCEPT ![k].state = IF @ = "RUNNING" THEN "STOPPED" ELSE @,
                            ![k].code = p, ![k].waiters = {}]
  /\ lock' = "pump"
  /\ UNCHANGED hand

PumpRecord(k, p) ==
  /\ PumpKills(k, p) \/ PumpSpares(k, p)
  /\ procs' = [procs EXCEPT ![k] = [@ EXCEPT !.state = "STOPPED", !.code = p, !.waiters = {}]]
  /\ lock' = "pump"
  /\ UNCHANGED hand

PumpHandle ==
  /\ lock = "free"
  /\ hand # NoProc
  /\ \/ \E k \in Matches(hand) : PumpRecord(k, hand)
     \/ /\ Matches(hand) = {}
        /\ status' = [status EXCEPT ![hand] = "done"]
        /\ hand' = NoProc
        /\ UNCHANGED <<lock, procs>>
  /\ UNCHANGED <<owner, rt, call, backlog, sent, exit>>

(* Mutant: the guard outlives the send.                                    *)
Mut_PumpSendKeepsLock ==
  /\ lock = "pump"
  /\ Emit("exit", hand)
  /\ hand' = NoProc
  /\ UNCHANGED <<lock, procs, status, owner, rt, call, exit>>

(* The lock is kept until the TaskExit is in the channel.                  *)
PumpSend ==
  /\ lock = "pump"
  /\ Emit("exit", hand)
  /\ lock' = "free"
  /\ hand' = NoProc
  /\ UNCHANGED <<procs, status, owner, rt, call, exit>>

(* The forwarder hands the oldest event to the publisher.                  *)
Forward ==
  /\ backlog > 0
  /\ backlog' = backlog - 1
  /\ UNCHANGED <<lock, procs, status, owner, rt, hand, call, sent, exit>>

------------------------------------------------------------------------------
Kernel == \E p \in Procs : Exit(p) \/ Reap(p)

Pump == (\E p \in Procs : PumpReceive(p)) \/ PumpHandle \/ PumpSend \/ Forward

ContainerCall(c, id) ==
  \/ Create(c, id) \/ StartInit(c, id)
  \/ Pause(c, id) \/ Resume(c, id) \/ DeleteInit(c, id)

ProcessCall(c, k) ==
  Exec(c, k) \/ StartExec(c, k) \/ DeleteExec(c, k) \/ Kill(c, k) \/ Wait(c, k)

CallStep(c) ==
  \/ CreateInsert(c) \/ ExecRecord(c) \/ PauseDone(c) \/ PauseFails(c) \/ LateFailure(c)
  \/ Timeout(c) \/ DeleteRemove(c) \/ SendEvent(c) \/ Wake(c) \/ Return(c) \/ Shutdown(c)

Next ==
  \/ Kernel \/ Pump
  \/ \E c \in Callers : \/ \E id \in Ids : ContainerCall(c, id)
                        \/ \E k \in Key : ProcessCall(c, k)
                        \/ CallStep(c)

Spec == Init /\ [][Next]_vars

(* The code is taken to go on running: a runtime command returns, a zombie *)
(* is reaped, the forwarder drains the channel.  Weak fairness serves what *)
(* stays enabled; the tokio RwLock and channel queue their waiters in      *)
(* order, hence strong fairness for what competes for them.  No client is  *)
(* obliged to call anything and no process to exit.                        *)
Fairness ==
  /\ WF_vars(Forward) /\ SF_vars(PumpHandle) /\ SF_vars(PumpSend)
  /\ \A p \in Procs : WF_vars(Reap(p)) /\ SF_vars(PumpReceive(p))
  /\ \A c \in Callers :
       /\ WF_vars(CreateInsert(c) \/ ExecRecord(c) \/ LateFailure(c))
       /\ WF_vars(PauseDone(c) \/ PauseFails(c)) /\ WF_vars(Return(c))
       /\ SF_vars(DeleteRemove(c)) /\ SF_vars(SendEvent(c)) /\ SF_vars(Wake(c))

FairSpec == Spec /\ Fairness
------------------------------------------------------------------------------
(***************************************************************************)
(* Properties                                                              *)
(***************************************************************************)

(* Every variable keeps its type.                                          *)
TypeOK ==
  /\ lock \in {"free", "pump"} \cup Callers
  /\ procs \in [Key -> Record]
  /\ status \in [Procs -> Statuses]
  /\ owner \in [Procs -> Key \cup {NoKey}]
  /\ rt \in [Ids -> {"none", "created", "running"}]
  /\ hand \in Procs \cup {NoProc}
  /\ call \in [Callers -> Call]
  /\ backlog \in 0..ChanCap
  /\ sent \in [{"exit", "delete"} -> [Procs -> 0..2]]
  /\ exit \in BOOLEAN

Pending == {"alive", "zombie", "queued", "handed"}

(* No exit is lost: while a record has a pid and is not STOPPED, the exit  *)
(* of that process is still to come, be it the process itself, its zombie, *)
(* the event in the pump's queue or the one in the pump's hand.  A create  *)
(* or an exec start that let go of the lock before it recorded the pid     *)
(* would let the pump throw that exit away.                                *)
ExitNotLost ==
  \A k \in Key : procs[k].state \notin {"ABSENT", "STOPPED"} /\ procs[k].inc # NoProc
                   => status[procs[k].inc] \in Pending

(* A STOPPED record holds the exit code of its own process, and a process  *)
(* whose TaskExit is out is STOPPED wherever it is on record: a client     *)
(* that saw the event never reads an older state.                          *)
ExitRecordedRight ==
  \A k \in Key :
    /\ procs[k].state = "STOPPED" => procs[k].code = procs[k].inc
    /\ procs[k].inc # NoProc /\ sent["exit"][procs[k].inc] > 0
         => procs[k].state = "STOPPED"

(* A TaskExit is sent once for a process, and never after its TaskDelete:  *)
(* containerd forgets the process at the delete.  The delete handler and   *)
(* the pump are kept in order only by the pump's lock, held over its send. *)
NoExitAfterDelete ==
  [][\A p \in Procs : sent'["exit"][p] > sent["exit"][p]
                        => sent["exit"][p] = 0 /\ sent["delete"][p] = 0]_vars

(* A living process is on record under the key it was spawned for, unless  *)
(* the call that spawned it is about to record it: nothing runs that the   *)
(* shim does not know of.                                                  *)
NoOrphan ==
  \A p \in Procs : status[p] = "alive" =>
    \/ procs[owner[p]].inc = p
    \/ \E c \in Callers : call[c].pc \in {"insert", "record"} /\ call[c].inc = p

(* A container leaves the map only when its init process is dead: what a   *)
(* delete removes under its second lock is what it deleted under the first.*)
RemovedIsDead ==
  [][\A id \in Ids : Registered(id) /\ ~ Registered(id)'
                       => ~ Alive(procs[InitKey(id)].inc)]_vars

(* The shim signals its exit only when no process of its containers lives, *)
(* one that a create or a delete in flight has in its hands included.      *)
ShutdownIdle ==
  [][~ exit /\ exit' => \A p \in Procs : status[p] # "alive"]_vars

(* A wait is answered with the exit of a process of the key it waits for;  *)
(* whenever they can be asked, pids names each living process by the exec  *)
(* it was started for, connect names the container's own init, and state   *)
(* shows of each process the exit of the pid it shows, STOPPED only with   *)
(* one, and none before that process has exited.                           *)
AnswersTruthful ==
  /\ \A c \in Callers : call[c].pc = "replied" =>
       call[c].inc # NoProc /\ owner[call[c].inc] = call[c].key
  /\ lock = "free" => \A id \in Ids : Registered(id) =>
       /\ owner[connect(id)] = InitKey(id)
       /\ \A p \in ps(id) : all_processes(id)[p] = {owner[p][2]} \ {InitProc}
       /\ \A k \in Keys(id) :
            /\ state(k).exit \in {NoProc, state(k).pid}
            /\ state(k).status = "STOPPED" => state(k).exit # NoProc
            /\ state(k).exit # NoProc => ~ Alive(state(k).pid)

(* The exit of a process on record is reported, or the record is deleted.  *)
ExitReported ==
  \A p \in Procs, k \in Key :
    (procs[k].inc = p /\ status[p] = "zombie") ~> (procs[k].inc # p \/ sent["exit"][p] > 0)

(* A call that has done its work returns: the lock and the channel always  *)
(* come free again, though the pump waits for one while it holds the other;*)
(* and a wait on a process that has exited returns: no waiter sleeps on a  *)
(* sender that nobody drops.                                               *)
CallsReturn ==
  \A c \in Callers :
    /\ call[c].pc \in {"insert", "record", "remove", "send", "replied"} ~> call[c].pc = "idle"
    /\ \A k \in Key :
         (/\ call[c].pc = "waiting" /\ call[c].key = k
          /\ procs[k].inc # NoProc => status[procs[k].inc] # "alive"
          /\ procs[k].inc = NoProc => procs[k].state = "ABSENT")
           ~> (call[c].pc # "waiting")
==============================================================================

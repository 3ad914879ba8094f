----------------------------- MODULE ExitMonitor ------------------------------
(***************************************************************************)
(* How the shim learns of exits: the SIGCHLD loop that reaps every child   *)
(* (handle_signals), the monitor that fans an exit out to its subscribers, *)
(* and the spawner that runs the OCI runtime and waits for it through a    *)
(* subscription of its own (ShimExecutor).                                 *)
(*                                                                         *)
(* The monitor's mutex covers each of its operations whole, so each is one *)
(* step; a reaped exit waits for it in the loop's hand.  The children are  *)
(* the runtime commands and the container processes the shim inherits as a *)
(* subreaper.  The output an execution captures is one pipe here of two.   *)
(* It ends with its child, which may have filled it at once and then       *)
(* waits, or is killed.  Nothing in the shim notifies the Exec topic.      *)
(***************************************************************************)
EXTENDS Naturals, Sequences, FiniteSets, SequencesExt

CONSTANTS
  Procs,      \* the children there may ever be
  PidOf,      \* the pid the kernel gives each
  Ends,       \* how a child may end: a wait status
  Execs,      \* executions of the runtime
  Users,      \* other subscribers: the exit pump, and any other
  TopicOf,    \* the topic each of those subscribes to
  NoProc,
  Cancels     \* TRUE: a request timeout may drop an execution

ASSUME ConstantsAssumption ==
  /\ NoProc \notin Procs
  /\ PidOf \in [Procs -> Nat \ {0}]
  /\ Ends \subseteq [how: {"exited", "signaled"}, n: 0..255]
  /\ Execs \cap Users = {} /\ IsFiniteSet(Execs \cup Users)
  /\ TopicOf \in [Users -> {"Pid", "Exec", "All"}]
  /\ Cancels \in BOOLEAN

Topics == {"Pid", "Exec", "All"}
Subs == Execs \cup Users
TopicFor(s) == IF s \in Users THEN TopicOf[s] ELSE "Pid"
NoId == Cardinality(Subs)

VARIABLES
  proc,         \* the kernel's view of each child
  end,          \* how a child that is no longer alive ended
  sigchld,      \* a SIGCHLD the loop has not seen yet
  loop,         \* the loop: "off" before it is spawned, "idle", "reaping"
  reaped,       \* the exit in the loop's hand
  seq_id,       \* the next subscription id
  subscribers,  \* id -> topic, for the ids subscribed
  topic_subs,   \* topic -> ids, in the order they subscribed
  chan,         \* id -> exits sent to the subscription and not received
  closed,       \* the subscriptions whose receiver is dropped
  sub,          \* the id of each subscriber's subscription
  pc,           \* what each execution and each user is doing
  child,        \* the child of each execution
  code,         \* the code each execution took for its child's
  output,       \* the pipe of each child: "none", "open", or "full"
  log,          \* history: the exits the monitor was told of
  start         \* history: how many of those each id need not receive any more

vars == <<proc, end, sigchld, loop, reaped, seq_id, subscribers, topic_subs, chan, closed,
          sub, pc, child, code, output, log, start>>
kernel == <<proc, end, sigchld>>
monitor == <<seq_id, subscribers, topic_subs, chan, closed, start, log>>
clients == <<sub, pc, child, code, output>>

(* The runc shim leaves its configuration as it is by default: it reaps    *)
(* its children and is a subreaper.                                        *)
Config == [no_reaper |-> FALSE, no_sub_reaper |-> FALSE]
Signals == {"SIGTERM", "SIGINT", "SIGPIPE"} \cup IF Config.no_reaper THEN {} ELSE {"SIGCHLD"}
Subreaper == ~ Config.no_sub_reaper

NoEnd == [how |-> "running", n |-> 0]

Init ==
  /\ proc = [p \in Procs |-> "unborn"]
  /\ end = [p \in Procs |-> NoEnd]
  /\ sigchld = FALSE
  /\ loop = "off"
  /\ reaped = NoProc
  /\ seq_id = 0
  /\ subscribers = [i \in {} |-> "Pid"]
  /\ topic_subs = [t \in Topics |-> <<>>]
  /\ chan = [i \in 0..(NoId - 1) |-> <<>>]
  /\ closed = {}
  /\ sub = [s \in Subs |-> NoId]
  /\ pc = [s \in Subs |-> "idle"]
  /\ child = [e \in Execs |-> NoProc]
  /\ code = [e \in Execs |-> 0]
  /\ output = [e \in Execs |-> "none"]
  /\ log = <<>>
  /\ start = [i \in 0..(NoId - 1) |-> 0]

------------------------------------------------------------------------------
(* The kernel.  A pid is free again once its child is reaped.              *)
Fork(p) ==
  /\ proc[p] = "unborn"
  /\ \A q \in Procs : proc[q] \in {"alive", "zombie"} => PidOf[q] # PidOf[p]
  /\ proc' = [proc EXCEPT ![p] = "alive"]
  /\ UNCHANGED <<end, sigchld>>

(* A container process appears; it is no execution's child.                *)
Inherit(p) ==
  /\ Subreaper
  /\ Fork(p)
  /\ UNCHANGED <<loop, reaped, monitor, clients>>

(* SIGCHLDs are not counted: several exits may leave one of them pending.  *)
(* One that waits for its output to be read exits only when killed.        *)
Blocked(p) == \E e \in Execs : child[e] = p /\ output[e] = "full" /\ pc[e] # "dropped"

Die(p) ==
  /\ proc[p] = "alive"
  /\ proc' = [proc EXCEPT ![p] = "zombie"]
  /\ \E e \in Ends : end' = [end EXCEPT ![p] = e] /\ (Blocked(p) => e.how = "signaled")
  /\ sigchld' = ("SIGCHLD" \in Signals)
  /\ UNCHANGED <<loop, reaped, monitor, clients>>

------------------------------------------------------------------------------
(* handle_signals.  The signal stream exists from the start of the shim,   *)
(* the loop only once the server runs.                                     *)
SpawnLoop ==
  /\ loop = "off"
  /\ loop' = "idle"
  /\ UNCHANGED <<kernel, reaped, monitor, clients>>

TakeSignal ==
  /\ loop = "idle" /\ sigchld
  /\ loop' = "reaping"
  /\ sigchld' = FALSE
  /\ UNCHANGED <<proc, end, reaped, monitor, clients>>

(* waitpid(-1, WNOHANG) returns any zombie there is.                       *)
WaitPid(p) ==
  /\ loop = "reaping" /\ reaped = NoProc
  /\ proc[p] = "zombie"
  /\ proc' = [proc EXCEPT ![p] = "reaped"]
  /\ reaped' = p
  /\ UNCHANGED <<end, sigchld, loop, monitor, clients>>

(* Mutant: one SIGCHLD, one child.                                         *)
Mut_NoMoreZombies ==
  /\ loop = "reaping" /\ reaped = NoProc
  /\ loop' = "idle"
  /\ UNCHANGED <<kernel, reaped, monitor, clients>>

(* StillAlive or ECHILD: back to waiting for a signal.                     *)
NoMoreZombies ==
  /\ loop = "reaping" /\ reaped = NoProc
  /\ \A p \in Procs : proc[p] # "zombie"
  /\ loop' = "idle"
  /\ UNCHANGED <<kernel, reaped, monitor, clients>>

(* What the loop reports of a wait status.                                 *)
ExitCode(e) == IF e.how = "exited" THEN e.n ELSE 128 + e.n

Event(p) == [pid |-> PidOf[p], code |-> ExitCode(end[p]), of |-> p]

(* Mutant: the first subscriber of a topic takes the exit from the others. *)
Mut_Told(t) == IF topic_subs[t] = <<>> THEN {} ELSE {topic_subs[t][1]}

(* notify_topic: the subscribers of a topic, by their ids in its list.     *)
Told(t) == {i \in DOMAIN subscribers : \E n \in DOMAIN topic_subs[t] : topic_subs[t][n] = i}

(* notify_by_pid: to the subscribers of Pid and of All; a subscription     *)
(* whose receiver is gone fails, which is logged.                          *)
NotifyByPid ==
  /\ reaped # NoProc
  /\ chan' = [i \in DOMAIN chan |->
                IF i \in (Told("Pid") \cup Told("All")) \ closed
                THEN Append(chan[i], Event(reaped)) ELSE chan[i]]
  /\ log' = Append(log, Event(reaped))
  /\ reaped' = NoProc
  /\ UNCHANGED <<kernel, loop, seq_id, subscribers, topic_subs, closed, start, clients>>

------------------------------------------------------------------------------
Subscribe(s, next) ==
  /\ subscribers' = [i \in DOMAIN subscribers \cup {seq_id} |->
                       IF i = seq_id THEN TopicFor(s) ELSE subscribers[i]]
  /\ topic_subs' = [topic_subs EXCEPT ![TopicFor(s)] = Append(@, seq_id)]
  /\ start' = [start EXCEPT ![seq_id] = Len(log)]
  /\ sub' = [sub EXCEPT ![s] = seq_id]
  /\ seq_id' = seq_id + 1
  /\ pc' = [pc EXCEPT ![s] = next]
  /\ UNCHANGED <<kernel, loop, reaped, chan, closed, log, child, code, output>>

(* A second unsubscribe of one id finds nothing to remove.  The receiver   *)
(* goes with the subscription, and what is in it is of no use to anyone.   *)
Unsubscribe(s, next) ==
  /\ subscribers' = [i \in DOMAIN subscribers \ {sub[s]} |-> subscribers[i]]
  /\ topic_subs' = IF sub[s] \in DOMAIN subscribers
                   THEN [topic_subs EXCEPT ![subscribers[sub[s]]] = RemoveFirst(@, sub[s])]
                   ELSE topic_subs
  /\ chan' = [chan EXCEPT ![sub[s]] = <<>>]
  /\ start' = [start EXCEPT ![sub[s]] = 0]
  /\ pc' = [pc EXCEPT ![s] = next]
  /\ UNCHANGED <<kernel, loop, reaped, seq_id, closed, log, sub, child, code, output>>

------------------------------------------------------------------------------
(* ShimExecutor::execute: subscribe, spawn, wait, unsubscribe.             *)
ExecSubscribe(e) == pc[e] = "idle" /\ Subscribe(e, "spawn")

Spawn(e) ==
  /\ pc[e] = "spawn"
  /\ \E p \in Procs : Fork(p) /\ child' = [child EXCEPT ![e] = p]
  /\ pc' = [pc EXCEPT ![e] = "wait"]
  /\ \E o \in {"open", "full"} : output' = [output EXCEPT ![e] = o]
  /\ UNCHANGED <<loop, reaped, monitor, sub, code>>

SpawnFails(e) == pc[e] = "spawn" /\ Unsubscribe(e, "failed")

(* Mutant: the first exit of any process is taken for the child's.         *)
Mut_RecvExit(e) ==
  LET i == sub[e] IN
  /\ pc[e] = "wait" /\ chan[i] # <<>>
  /\ chan' = [chan EXCEPT ![i] = Tail(@)]
  /\ code' = [code EXCEPT ![e] = Head(chan[i]).code]
  /\ pc' = [pc EXCEPT ![e] = "matched"]
  /\ start' = [start EXCEPT ![i] = @ + 1]
  /\ UNCHANGED <<kernel, loop, reaped, seq_id, subscribers, topic_subs, closed, log, sub, child,
                 output>>

(* wait_pid: exits of other pids are passed over.                          *)
RecvExit(e) ==
  LET i == sub[e] IN
  /\ pc[e] = "wait" /\ chan[i] # <<>>
  /\ chan' = [chan EXCEPT ![i] = Tail(@)]
  /\ IF Head(chan[i]).pid = PidOf[child[e]]
     THEN /\ code' = [code EXCEPT ![e] = Head(chan[i]).code]
          /\ pc' = [pc EXCEPT ![e] = "matched"]
     ELSE UNCHANGED <<code, pc>>
  /\ start' = [start EXCEPT ![i] = @ + 1]
  /\ UNCHANGED <<kernel, loop, reaped, seq_id, subscribers, topic_subs, closed, log, sub, child,
                 output>>

(* wait_pid unsubscribes, its caller does so once more.                    *)
WaitUnsubscribe(e) == pc[e] = "matched" /\ Unsubscribe(e, "leaving")
ExecUnsubscribe(e) ==
  /\ pc[e] = "leaving"
  /\ output[e] = "open" /\ proc[child[e]] # "alive"
  /\ Unsubscribe(e, "done")

(* Mutant: the output is read once the child has been waited for.          *)
Mut_ReadStd(e) ==
  /\ pc[e] = "leaving" /\ output[e] = "full"
  /\ output' = [output EXCEPT ![e] = "open"]
  /\ UNCHANGED <<kernel, loop, reaped, monitor, sub, pc, child, code>>

(* read_std, joined with wait_pid: from the spawn on, to the end.          *)
ReadStd(e) ==
  /\ pc[e] \in {"wait", "matched", "leaving"} /\ output[e] = "full"
  /\ output' = [output EXCEPT ![e] = "open"]
  /\ UNCHANGED <<kernel, loop, reaped, monitor, sub, pc, child, code>>

(* execute makes an ExitStatus of the bare code as if it were a wait       *)
(* status (from_raw): which code it was is lost, that it was 0 is not.     *)
Success(n) == n = 0

(* A ttrpc request timeout drops the handler, and with it the receiver:    *)
(* nobody unsubscribes.                                                    *)
Cancel(e) ==
  /\ Cancels
  /\ pc[e] \in {"spawn", "wait"}
  /\ pc' = [pc EXCEPT ![e] = "dropped"]
  /\ closed' = closed \cup {sub[e]}
  /\ UNCHANGED <<kernel, loop, reaped, seq_id, subscribers, topic_subs, chan, start, log,
                 sub, child, code, output>>

ExecStep(e) ==
  \/ ExecSubscribe(e) \/ Spawn(e) \/ SpawnFails(e) \/ RecvExit(e)
  \/ WaitUnsubscribe(e) \/ ExecUnsubscribe(e) \/ Cancel(e) \/ ReadStd(e)

(* A user subscribes once, takes what comes and may leave.                 *)
UserSubscribe(u) == pc[u] = "idle" /\ Subscribe(u, "listening")
UserUnsubscribe(u) == pc[u] = "listening" /\ Unsubscribe(u, "done")
UserReceive(u) ==
  /\ pc[u] = "listening" /\ chan[sub[u]] # <<>>
  /\ chan' = [chan EXCEPT ![sub[u]] = Tail(@)]
  /\ start' = [start EXCEPT ![sub[u]] = @ + 1]
  /\ UNCHANGED <<kernel, loop, reaped, seq_id, subscribers, topic_subs, closed, log, clients>>

UserStep(u) == UserSubscribe(u) \/ UserUnsubscribe(u) \/ UserReceive(u)

Loop == SpawnLoop \/ TakeSignal \/ NoMoreZombies \/ NotifyByPid \/ \E p \in Procs : WaitPid(p)

Next ==
  \/ \E p \in Procs : Inherit(p) \/ Die(p)
  \/ Loop
  \/ \E e \in Execs : ExecStep(e)
  \/ \E u \in Users : UserStep(u)

Spec == Init /\ [][Next]_vars

(* The loop and an execution that can go on do so; a spawn succeeds or     *)
(* fails.  Nothing makes a child exit.                                     *)
Fairness ==
  /\ WF_vars(SpawnLoop) /\ WF_vars(TakeSignal) /\ WF_vars(NoMoreZombies)
  /\ WF_vars(NotifyByPid) /\ WF_vars(\E p \in Procs : WaitPid(p))
  /\ \A e \in Execs :
       /\ WF_vars(Spawn(e) \/ SpawnFails(e)) /\ WF_vars(RecvExit(e))
       /\ WF_vars(WaitUnsubscribe(e)) /\ WF_vars(ExecUnsubscribe(e)) /\ WF_vars(ReadStd(e))

FairSpec == Spec /\ Fairness
------------------------------------------------------------------------------
(***************************************************************************)
(* Properties                                                              *)
(***************************************************************************)

(* Types, and the agreement of the monitor's two maps: each topic lists    *)
(* the ids subscribed to it, once and in the order they subscribed.        *)
MapsAgree ==
  /\ seq_id \in 0..NoId
  /\ loop \in {"off", "idle", "reaping"} /\ reaped \in Procs \cup {NoProc}
  /\ subscribers \in [DOMAIN subscribers -> Topics]
  /\ \A i \in DOMAIN subscribers : i < seq_id
  /\ \A t \in Topics :
       /\ ToSet(topic_subs[t]) = {i \in DOMAIN subscribers : subscribers[i] = t}
       /\ \A m, n \in DOMAIN topic_subs[t] : m < n => topic_subs[t][m] < topic_subs[t][n]

(* What is in a subscription's channel is what the monitor was told since  *)
(* it subscribed, less what it has received: nothing is skipped, doubled   *)
(* or reordered, whoever else subscribes and leaves meanwhile, and the two *)
(* maps that must agree for that do.                                       *)
DeliversSuffix ==
  /\ MapsAgree
  /\ \A i \in DOMAIN subscribers \ closed :
       chan[i] = IF subscribers[i] = "Exec" THEN <<>> ELSE SubSeq(log, start[i] + 1, Len(log))

(* What an execution takes is the exit of its own child, and its caller,   *)
(* launch, is told of success exactly if that child succeeded.             *)
OwnCode ==
  \A e \in Execs :
    /\ pc[e] \in {"matched", "leaving", "done"} => code[e] = ExitCode(end[child[e]])
    /\ pc[e] = "done" =>
         Success(code[e]) = (end[child[e]] = [how |-> "exited", n |-> 0])

(* Every child that exits is reaped and told of, however many exits one    *)
(* SIGCHLD stands for and those before the loop runs included; and an      *)
(* execution whose child has exited returns, however soon that was; nor    *)
(* does a child wait for ever for what it writes to be read, as it would   *)
(* if the shim waited for it to exit first.                                *)
EveryExitTold ==
  /\ \A p \in Procs : proc[p] = "zombie" ~> (proc[p] = "reaped" /\ reaped # p)
  /\ \A e \in Execs :
       /\ (pc[e] = "wait" /\ proc[child[e]] # "alive") ~> (pc[e] \in {"done", "dropped"})
       /\ output[e] = "full" ~> (output[e] # "full" \/ pc[e] = "dropped")
==============================================================================

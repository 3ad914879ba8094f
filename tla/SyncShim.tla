------------------------------ MODULE SyncShim ------------------------------
(***************************************************************************)
(* The synchronous variant of the shim library: threads that mount a       *)
(* rootfs in a forked child and wait for it through the exit monitor, the  *)
(* thread that reaps, the logger they share, and the main thread from the  *)
(* server's start to its exit signal.                                      *)
(*                                                                         *)
(* The monitor's critical sections never block, so each is one step.  The  *)
(* logger's do: a line is written under its mutex to a FIFO that containerd*)
(* may not read, so whoever logs may wait for the mutex or in the write.   *)
(* A child's copy of the mutex is as it was at the fork: held by a thread  *)
(* the child does not have, it stays held.                                 *)
(***************************************************************************)
EXTENDS Integers, Sequences, FiniteSets

CONSTANTS
  Callers,     \* the threads that call mount_rootfs
  Loggers,     \* the server's threads that log
  MainThread, ReaperThread,  \* the two others that do
  Pids,        \* the pids the kernel hands out, which it reuses
  Nobody,
  Debug,       \* the logger's level is debug
  MaxStarts    \* bound on the mounts and other processes begun

ASSUME SyncAssumption ==
  /\ Nobody \notin Callers \cup Loggers \cup {MainThread, ReaperThread}
  /\ MainThread # ReaperThread /\ Loggers \cap {MainThread, ReaperThread} = {}
  /\ Debug \in BOOLEAN
  /\ Pids \subseteq Nat \ {0} /\ MaxStarts \in Nat

VARIABLES
  doing,     \* each caller: "idle", "subscribed", "waiting", "returning"
  own,       \* the pid a caller waits for
  result,    \* what a caller's last mount answered, and whose exit that was
  call,      \* the number of the mount a caller is in
  proc,      \* the processes of each pid
  pending,   \* a SIGCHLD is pending
  reaper,    \* handle_signals: "off", "waits", "reaps", "logs" or "notifies"
  hand,      \* the exit the reaper has waited for and not yet told
  subs,      \* the subscriptions to all exits
  queue,     \* the channel of each
  logger,    \* the thread that holds the logger's mutex
  main,      \* the server's main thread: Serving, Left, or on the way there
  exit,      \* the exit signal's flag
  socket,    \* the socket's file: "none", "up" or "dead", another's, or "mine"
  made,      \* history: the mounts made, of the calls that have not returned
  reused,    \* history: callers whose child got a pid whose exit they were told before
  started    \* history: the mounts and other processes begun

syncVars == <<doing, own, result, call, proc, pending, reaper, hand, subs, queue, logger, main,
              exit, socket, made, reused, started>>
mainVars == <<main, exit, socket>>
monitorVars == <<subs, queue>>
callerVars == <<doing, own, result, call, reused>>
reaperVars == <<pending, reaper, hand>>
threadVars == <<callerVars, proc, reaperVars, monitorVars, logger, made, started>>

NoProc == [state |-> "none", of |-> 0, means |-> "none", locked |-> FALSE]
NoResult == [means |-> "none", of |-> 0]
NoExit == [pid |-> 0, means |-> "none", of |-> 0]
Serving == {"started", "serving", "checking", "asleep", "stopping", "stopped"}
Left == {"gone", "failed"}
Alive == main \in Serving
Free == {p \in Pids : proc[p].state = "none"}

SyncInit ==
  /\ doing = [c \in Callers |-> "idle"] /\ own = [c \in Callers |-> 0]
  /\ result = [c \in Callers |-> NoResult] /\ call = [c \in Callers |-> 0]
  /\ proc = [p \in Pids |-> NoProc]
  /\ pending = FALSE /\ reaper = "off" /\ hand = NoExit
  /\ subs = {} /\ queue = [c \in Callers |-> <<>>]
  /\ logger = Nobody
  /\ main = "unborn" /\ exit = FALSE /\ socket \in {"none", "up", "dead"}
  /\ made = {} /\ reused = {} /\ started = 0

------------------------------------------------------------------------------
(* The start of the server.  The start action spawns it and reads its      *)
(* output to the end; another server may hold the socket's name.           *)
MainGoes(from, to) == main = from /\ main' = to /\ UNCHANGED <<exit, threadVars>>

Spawn == MainGoes("unborn", "spawned") /\ UNCHANGED socket

(* The output is the server's until it points it elsewhere or leaves; how  *)
(* it left is not looked at.                                               *)
OutputEnded == main \in Serving \cup Left

(* The signals are registered before any child is there to send one.       *)
setup_signals == MainGoes("spawned", "opening") /\ UNCHANGED socket

(* logger::init: the open of the FIFO waits until somebody opens it to     *)
(* read, so this is not a step that must be taken.                         *)
open_log ==
  /\ \E to \in {"starting", "failed"} : MainGoes("opening", to)
  /\ UNCHANGED socket

(* The publisher connects, or the server leaves.                           *)
bootstrap ==
  /\ \E to \in {"binding", "failed"} : MainGoes("starting", to)
  /\ UNCHANGED socket

create_server(from) == MainGoes(from, "bound") /\ socket = "none" /\ socket' = "mine"

AddrInUse == MainGoes("binding", "probing") /\ socket # "none" /\ UNCHANGED socket

wait_socket_working ==
  /\ MainGoes("probing", IF socket = "up" THEN "adopting" ELSE "removing")
  /\ UNCHANGED socket

write_address ==
  /\ \E to \in Left : MainGoes("adopting", to)
  /\ UNCHANGED socket

remove_socket == MainGoes("removing", "rebinding") /\ socket' = "none"

signal_server_started == MainGoes("bound", "started") /\ UNCHANGED socket

(* The other server shuts down, or is killed and leaves its socket.        *)
OtherLeaves ==
  /\ socket = "up"
  /\ socket' \in {"none", "dead"}
  /\ UNCHANGED <<main, exit, threadVars>>

(* The main thread once the server runs.  It has a line to write before it *)
(* handles signals, "started", and one before it shuts down, "stopping".   *)
HandleSignals ==
  /\ main = "serving" /\ reaper = "off"
  /\ reaper' = "waits" /\ main' = "checking"
  /\ UNCHANGED <<callerVars, proc, pending, hand, monitorVars, logger, exit, socket, made, started>>

(* ExitSignal::wait: the flag is read and the wait begun under one lock.   *)
Wait == MainGoes("checking", IF exit THEN "stopping" ELSE "asleep") /\ UNCHANGED socket

Mut_Signal ==
  /\ main \in {"started", "serving", "checking", "asleep"} /\ ~ exit
  /\ exit' = TRUE
  /\ UNCHANGED <<main, socket, threadVars>>

(* ExitSignal::signal, by the shutdown handler.                            *)
Signal ==
  /\ main \in {"started", "serving", "checking", "asleep"} /\ ~ exit
  /\ exit' = TRUE
  /\ main' = IF main = "asleep" THEN "checking" ELSE main
  /\ UNCHANGED <<socket, threadVars>>

(* The server is shut down and its socket removed by the name its address  *)
(* file gives; without one the socket stays.                               *)
Shutdown == MainGoes("stopped", "gone") /\ socket' = "none"

read_address == MainGoes("stopped", "failed") /\ UNCHANGED socket

------------------------------------------------------------------------------
(* mount_rootfs subscribes to all exits before it forks.                   *)
Subscribe(c) ==
  /\ Alive /\ doing[c] = "idle"
  /\ started < MaxStarts
  /\ doing' = [doing EXCEPT ![c] = "subscribed"]
  /\ call' = [call EXCEPT ![c] = started + 1] /\ started' = started + 1
  /\ subs' = subs \cup {c}
  /\ queue' = [queue EXCEPT ![c] = <<>>]
  /\ UNCHANGED <<own, result, reused, proc, reaperVars, logger, mainVars, made>>

(* MountExitCode, out of and back into an exit code: _exit keeps 8 bits.   *)
ChdirErr == -1
NixUnknownErr == -2
EINVAL == 22
SIGKILLed == 128 + 9
ExitCode(code) == code % 256
Means(code) ==
  CASE code = 0 -> "Success" [] code = ChdirErr -> "ChdirErr"
    [] code = NixUnknownErr -> "NixUnknownErr" [] OTHER -> "NixOtherErr"

Starts(p, of) ==
  proc' = [proc EXCEPT ![p] = [state |-> "runs", of |-> of, means |-> "none",
                               locked |-> of # 0 /\ logger # Nobody]]

Fork(c) ==
  /\ Alive /\ doing[c] = "subscribed"
  /\ \E p \in Free :
       /\ Starts(p, call[c])
       /\ own' = [own EXCEPT ![c] = p]
       /\ reused' = IF hand.pid = p \/ \E i \in DOMAIN queue[c] : queue[c][i].pid = p
                    THEN reused \cup {c} ELSE reused
  /\ doing' = [doing EXCEPT ![c] = "waiting"]
  /\ UNCHANGED <<result, call, reaperVars, monitorVars, logger, mainVars, made, started>>

ForkFails(c) ==
  /\ Alive /\ doing[c] = "subscribed"
  /\ result' = [result EXCEPT ![c] = [means |-> "fork", of |-> call[c]]]
  /\ doing' = [doing EXCEPT ![c] = "returning"]
  /\ UNCHANGED <<own, call, proc, reaperVars, monitorVars, logger, mainVars, made, reused, started>>

(* A child that is no mount: a runtime, or an orphan of the containers.    *)
Stray ==
  /\ Alive /\ started < MaxStarts
  /\ \E p \in Free : Starts(p, 0)
  /\ started' = started + 1
  /\ UNCHANGED <<callerVars, reaperVars, monitorVars, logger, mainVars, made>>

(* wait_pid takes what it is sent until it is the exit of its own child.   *)
Mut_WaitPid(c) ==
  /\ Alive /\ doing[c] = "waiting" /\ queue[c] # <<>>
  /\ queue' = [queue EXCEPT ![c] = Tail(@)]
  /\ result' = [result EXCEPT ![c] = [means |-> Head(queue[c]).means, of |-> Head(queue[c]).of]]
  /\ doing' = [doing EXCEPT ![c] = "returning"]
  /\ UNCHANGED <<own, call, proc, reaperVars, subs, logger, mainVars, made, reused, started>>

WaitPid(c) ==
  /\ Alive /\ doing[c] = "waiting" /\ queue[c] # <<>>
  /\ queue' = [queue EXCEPT ![c] = Tail(@)]
  /\ LET event == Head(queue[c]) IN
     IF event.pid = own[c]
     THEN /\ result' = [result EXCEPT ![c] = [means |-> event.means, of |-> event.of]]
          /\ doing' = [doing EXCEPT ![c] = "returning"]
     ELSE UNCHANGED <<result, doing>>
  /\ UNCHANGED <<own, call, proc, reaperVars, subs, logger, mainVars, made, reused, started>>

(* The subscription is dropped.                                            *)
Unsubscribe(c) ==
  /\ Alive /\ doing[c] = "returning"
  /\ doing' = [doing EXCEPT ![c] = "idle"]
  /\ subs' = subs \ {c}
  /\ queue' = [queue EXCEPT ![c] = <<>>]
  /\ own' = [own EXCEPT ![c] = 0] /\ result' = [result EXCEPT ![c] = NoResult]
  /\ call' = [call EXCEPT ![c] = 0] /\ made' = made \ {call[c]} /\ reused' = reused \ {c}
  /\ UNCHANGED <<proc, reaperVars, logger, mainVars, started>>

------------------------------------------------------------------------------
(* The children.  A stranger leaves with 0 or by a signal.                 *)
Exits(p, code, how) ==
  /\ proc' = [proc EXCEPT ![p] = [@ EXCEPT !.state = how, !.locked = FALSE,
                                        !.means = Means(ExitCode(code))]]
  /\ pending' = TRUE
  /\ UNCHANGED <<reaper, hand>>

ChildMounts(p) ==
  /\ Alive /\ proc[p].state = "runs"
  /\ Exits(p, 0, "exited")
  /\ made' = made \cup ({proc[p].of} \cap {call[c] : c \in Callers})
  /\ UNCHANGED <<callerVars, monitorVars, logger, mainVars, started>>

ChildChdirFails(p) ==
  /\ Alive /\ proc[p].state = "runs" /\ proc[p].of # 0
  /\ Exits(p, ChdirErr, "exited")
  /\ UNCHANGED <<callerVars, monitorVars, logger, mainVars, made, started>>

(* A mount that fails is logged before the child leaves: by the child's    *)
(* own copy of the mutex, to the FIFO that all write.                      *)
ChildMountFails(p) ==
  /\ Alive /\ proc[p].state = "runs" /\ proc[p].of # 0
  /\ proc' = [proc EXCEPT ![p].state = IF proc[p].locked THEN "hung" ELSE "logs"]
  /\ UNCHANGED <<callerVars, reaperVars, monitorVars, logger, mainVars, made, started>>

ChildLogged(p) ==
  /\ Alive /\ proc[p].state = "logs"
  /\ Exits(p, EINVAL, "exited")
  /\ UNCHANGED <<callerVars, monitorVars, logger, mainVars, made, started>>

ChildKilled(p) ==
  /\ Alive /\ proc[p].state \in {"runs", "logs", "hung"}
  /\ Exits(p, SIGKILLed, "killed")
  /\ UNCHANGED <<callerVars, monitorVars, logger, mainVars, made, started>>

Dead(p) == proc[p].state \in {"exited", "killed"}

------------------------------------------------------------------------------
(* handle_signals: one SIGCHLD stands for any number of exits.             *)
TakeSignal ==
  /\ Alive /\ reaper = "waits" /\ pending
  /\ pending' = FALSE /\ reaper' = "reaps"
  /\ UNCHANGED <<callerVars, proc, hand, monitorVars, logger, mainVars, made, started>>

(* Any other signal is a line of the debug level.                          *)
TakeOther ==
  /\ Alive /\ reaper = "waits" /\ Debug
  /\ reaper' = "logs"
  /\ UNCHANGED <<callerVars, proc, pending, hand, monitorVars, logger, mainVars, made, started>>

(* waitpid frees the pid; that a child was killed is a line to write first.*)
Reap(p) ==
  /\ Alive /\ reaper = "reaps" /\ Dead(p)
  /\ proc' = [proc EXCEPT ![p] = NoProc]
  /\ hand' = [pid |-> p, means |-> proc[p].means, of |-> proc[p].of]
  /\ reaper' = IF Debug /\ proc[p].state = "killed" THEN "logs" ELSE "notifies"
  /\ UNCHANGED <<callerVars, pending, monitorVars, logger, mainVars, made, started>>

notify_by_pid(event) ==
  queue' = [c \in Callers |-> IF c \in subs THEN Append(queue[c], event) ELSE queue[c]]

Mut_Notify ==
  /\ Alive /\ reaper = "notifies"
  /\ notify_by_pid(hand)
  /\ hand' = NoExit /\ reaper' = "waits"
  /\ UNCHANGED <<callerVars, proc, pending, subs, logger, mainVars, made, started>>

Notify ==
  /\ Alive /\ reaper = "notifies"
  /\ notify_by_pid(hand)
  /\ hand' = NoExit /\ reaper' = "reaps"
  /\ UNCHANGED <<callerVars, proc, pending, subs, logger, mainVars, made, started>>

(* waitpid fails for want of children only, so it never warns.             *)
NoneLeft ==
  /\ Alive /\ reaper = "reaps"
  /\ ~ \E p \in Pids : Dead(p)
  /\ reaper' = "waits"
  /\ UNCHANGED <<callerVars, proc, pending, hand, monitorVars, logger, mainVars, made, started>>

------------------------------------------------------------------------------
(* FifoLogger::log: one line, one write, under the mutex.  What the two    *)
(* threads of the library write, each has to before it goes on.            *)
HasLine(t) ==
  \/ t \in Loggers
  \/ t = MainThread /\ main \in {"started", "stopping"}
  \/ t = ReaperThread /\ reaper = "logs"

Log(t) ==
  /\ Alive /\ logger = Nobody /\ HasLine(t)
  /\ logger' = t
  /\ UNCHANGED <<callerVars, proc, reaperVars, monitorVars, mainVars, made, started>>

Logged(t) ==
  /\ Alive /\ logger = t
  /\ logger' = Nobody
  /\ UNCHANGED <<callerVars, proc, reaperVars, monitorVars, mainVars, made, started>>

MainLogged ==
  /\ logger = MainThread
  /\ logger' = Nobody
  /\ main' = IF main = "started" THEN "serving" ELSE "stopped"
  /\ UNCHANGED <<callerVars, proc, reaperVars, monitorVars, exit, socket, made, started>>

(* After the line of a child it is told; after that of another signal the  *)
(* iterator looks whether a SIGCHLD came with it.                          *)
ReaperLogged ==
  /\ Alive /\ logger = ReaperThread
  /\ logger' = Nobody
  /\ \/ /\ hand # NoExit
        /\ reaper' = "notifies" /\ UNCHANGED pending
     \/ /\ hand = NoExit
        /\ reaper' = IF pending THEN "reaps" ELSE "waits"
        /\ pending' = FALSE
  /\ UNCHANGED <<callerVars, proc, hand, monitorVars, mainVars, made, started>>

ServerStart ==
  \/ setup_signals \/ bootstrap \/ create_server("binding") \/ AddrInUse
  \/ wait_socket_working \/ write_address \/ remove_socket \/ create_server("rebinding")
  \/ signal_server_started
Main == ServerStart \/ HandleSignals \/ Wait \/ Shutdown \/ read_address
Reaper == TakeSignal \/ Notify \/ NoneLeft \/ \E p \in Pids : Reap(p)
Caller(c) == Fork(c) \/ ForkFails(c) \/ WaitPid(c) \/ Unsubscribe(c)
Child(p) == ChildMounts(p) \/ ChildChdirFails(p) \/ ChildMountFails(p)

SyncNext ==
  \/ Spawn \/ OtherLeaves
  \/ open_log \/ Main \/ Signal \/ Reaper \/ TakeOther \/ Stray
  \/ \E c \in Callers : Subscribe(c) \/ Caller(c)
  \/ \E p \in Pids : Child(p) \/ ChildLogged(p) \/ ChildKilled(p)
  \/ \E t \in Loggers \cup {MainThread, ReaperThread} : Log(t)
  \/ (\E t \in Loggers : Logged(t)) \/ MainLogged \/ ReaperLogged

(* Threads and children run; nobody has to call, kill, send a signal or    *)
(* shut down.  No line has to get the mutex or to be written, and nobody   *)
(* has to open the FIFO to read.                                           *)
Fairness ==
  /\ WF_syncVars(Main) /\ WF_syncVars(Reaper)
  /\ \A c \in Callers : WF_syncVars(Caller(c))
  /\ \A p \in Pids : WF_syncVars(Child(p))

SyncSpec == SyncInit /\ [][SyncNext]_syncVars
FairSpec == SyncSpec /\ Fairness

------------------------------------------------------------------------------
(* A mount answers for its own child, and with success for a mount made.   *)
(* The exit of an earlier process of the same pid, reaped since the call   *)
(* subscribed, is told apart by nothing.                                   *)
OwnChild ==
  \A c \in Callers :
    doing[c] = "returning" /\ c \notin reused =>
      /\ result[c].of = call[c]
      /\ result[c].means = "Success" => call[c] \in made

(* Somebody opens the log to read and reads it, and the mutex passes no    *)
(* thread over for ever.                                                   *)
LogIsRead ==
  /\ []<>(main # "opening")
  /\ \A t \in Loggers : []<>(logger # t)
  /\ \A t \in {MainThread, ReaperThread} : []<>(logger # t /\ ~ HasLine(t))
  /\ \A p \in Pids : []<>(proc[p].state # "logs")

(* Every exit reaches who waits for it: while the log is read a call ends, *)
(* unless its child hangs on a mutex copied while held or the shim leaves. *)
MountEnds ==
  LogIsRead =>
    \A c \in Callers :
      doing[c] = "waiting" ~>
        \/ doing[c] # "waiting" \/ ~ Alive
        \/ \E p \in Pids : proc[p].state = "hung" /\ proc[p].of = call[c]

(* A shutdown that was asked for takes place, however the signal and the   *)
(* wait for it fall together.  And a start returns, whatever becomes of    *)
(* its server and of the one whose socket is in the way.  The lines the    *)
(* main thread writes before and the open of the log are LogIsRead's.      *)
ShutsDown ==
  LogIsRead =>
    /\ exit ~> ~ Alive
    /\ main = "spawned" ~> OutputEnded
==============================================================================

# Verification of the containerd shims (rust-extensions)

This directory models the part of `containerd/rust-extensions` that carries its
own logic: the shim library (`crates/shim`, asynchronous and synchronous), the
runc shim built on it (`crates/runc-shim`) and the runc client it calls
(`crates/runc`). The modules are TLA+; TLC checks small instances, and the TLA+
proof system (TLAPS) proves the main safety results for every value of the
constants. Paths below are relative to `crates/`.

Contents: [the system](#the-system), [the modules](#the-modules),
[the runs](#the-runs), [fairness](#fairness), [proofs](#proofs),
[what the checks found](#what-the-checks-found),
[what is not modelled](#what-is-not-modelled), [the plan](#the-plan).

## The system

One shim process serves one container, or all containers of a pod. containerd
starts it, calls it over ttrpc, and receives its events over a second
connection. The shim calls the OCI runtime (`runc`) as a child process, and as
a subreaper becomes the parent of the containers' processes. When a shim has
died, containerd runs its binary once more with the action `delete`.

```
 containerd --start--> start action --spawn--> server
 containerd --delete-> delete action --runc--> what a dead server left
 containerd --ttrpc--> handlers (task.rs) --runc--> container processes
     ^                    |   map of containers, one tokio RwLock      |
     |                    |                                            | SIGCHLD
     |                 events (channel of 128)                         v
     |                    |      ^                          handle_signals (mod.rs)
     |                    v      |                                     |
     |                 forward   +--- exit pump <--- exit monitor <----+
     |                    |      +--- OOM reader         |
     |                    v                              +--> ShimExecutor (waits for runc)
     +--------- RemotePublisher (publisher.rs)
 containerd's fifos <===> copies (io.rs) <===> the processes' pipes and terminals
```

### Inventory

| Part | Its state | Its operations | Hard behaviour | Correct means |
|---|---|---|---|---|
| Task service (`runc-shim/src/{task,service,container,processes,runc}.rs`) | the map id -> container (init process and execs: state, pid, exit code, waiters) behind one `RwLock`; the event channel; the exit signal | create, start, exec, pause, resume, kill, delete, wait, close_io, state, pids, stats, update, connect, shutdown; the exit pump `process_exits`; `forward` | handlers, pump and runtime run interleaved; a process may die at any point of a handler, a deadline may drop one at any await; delete takes the lock twice; the pump holds the lock while the channel is full | no exit is lost or lands on another record; TaskExit once and before TaskDelete; waits answer, and truthfully; nothing runs that is not on record; only an idle shim shuts down |
| Exits (`shim/src/asynchronous/{mod,monitor}.rs`, `ShimExecutor` in `runc-shim/src/runc.rs`) | zombies; the monitor's two maps of subscriptions; a channel each; the pipes of a runtime | reap, notify, subscribe, unsubscribe, execute | one SIGCHLD stands for several exits; an exit before its waiter waits; a full pipe; lists that shift while subscribers leave; a dropped handler | each subscriber gets every exit since it subscribed, once, in order; an execution gets the exit of its own child and returns |
| Publisher (`shim/src/asynchronous/publisher.rs`) | a queue; one item in hand; sleeping retries; the connection | publish, send with timeout, requeue, reconnect | containerd restarts, answers are lost, the queue is full when a retry wakes | no event is forgotten or doubled; attempts are bounded; one fault costs one attempt |
| Stdio (`shim/src/asynchronous/io.rs`, `runc-shim/src/console.rs`, `runc/src/{io,pipe}.rs`) | the tasks of a process; holds on fifos; ends of pipes; the console socket; a cancellation token | copy_from_fifo, copy_to_fifo, close_input, renew, abort, shutdown with drain | writers that come and go, CloseIO at any time, starts that fail at each step, containerd restarts, children that keep a pipe open | no EOF before CloseIO, EOF after it; output reaches containerd; nobody but the process keeps its output open; start and delete return |
| Shim server (`shim/src/asynchronous/mod.rs`, `start_shim` in `runc-shim/src/service.rs`) | the socket file, the address file, the server process | bind, probe a running shim, take over, shut down | two starts of one group; a start against a shutdown; kills | a serving shim is reachable at its address; starts end |
| Start input (`shim/src/{args,bootstrap,lib}.rs`, `runc-shim/src/info.rs`) | none | read flags, environment and two generations of messages; answer address, version and runtime info | messages that decode as each other | the server gets what was asked |
| Bundle and delete action (`delete_shim` in `runc-shim/src/service.rs`, `runc-shim/src/common.rs`, `shim/src/util.rs`) | the files of the bundle, mounts, the runtime's records | write options and runtime, mount, create; read, delete, unmount | the server killed, or a create dropped, at any step; the action killed and run again | nothing stays behind; the action answers |
| Mounts (`shim/src/mount_linux.rs`) | the mount table, loop devices, working directories of threads | mount_rootfs, setup_loop, umount_recursive | two shims want one device; a shim killed between two steps; stacked mounts | mounted as asked; nothing left; devices free again |
| Cgroups (`shim/src/cgroup.rs`), OOM monitor (`runc-shim/src/cgroup_memory.rs`) | limits, usage; an event-fd per container | update, stats; register, read until the cgroup is gone | two limits the kernel compares with each other, written one by one while the container grows; removal wakes the OOM reader | in force as asked; no kill for the order; TaskOOM for OOMs and nothing else |
| runc client (`runc/src/*`) | none | a command line for each call; JSON and error texts | flags and words; warnings mixed with output | runc does what was meant, and is heard |
| Logger (`shim/src/logger.rs`) | one file behind a mutex | format, write | quotes and line ends in values; a fork while it is held | a line is one record |
| Synchronous shim (`shim/src/synchronous/*`) | subscriptions; forked children; the exit flag | mount in a child, wait by pid, reap, serve, shut down | pids used again; exits before waits; a fork of a process with threads | a mount answers for its own child; waits end; shutdown takes place |
| `client`, `snapshots`, `logging`, `shim-protos` | none | stubs, conversions | none of their own | |

The hazards of the code, each at its line with the properties that would catch
it, are listed in `PROJECT.json`.


## The modules

| Module | What it is |
|---|---|
| `TaskService` | the task service of the runc shim with its exit pump and event forwarder |
| `TaskServiceInvariant`, `TaskServiceProofs` | its inductive invariants, its type correctness and safety theorems |
| `ExitMonitor`, `ExitMonitorProofs` | the SIGCHLD loop, the exit monitor, executions of the runtime, and their theorems |
| `Publisher`, `EventDelivery`, `PublisherProofs` | the event publisher, what it promises, the theorems that tie them |
| `StdinCopy`, `StdoutCopy` | an input and an output of a process |
| `StdinProofs`, `StdoutProofs` | their theorems, each with the lemmas on chunks in a row of sequences that it cites |
| `ShimServer` | start actions and servers of one socket address |
| `BundleCleanup` | creates, and the delete actions that clean up after them |
| `ActionProofs` | theorems about the start and delete actions |
| `MountOptions`, `RootfsMount` | mount options and the compaction of `lowerdir`; mounts, loop devices, unmounts |
| `MountProofs` | theorems about option lists and the compaction, and about the mounts of both shims |
| `MemoryCgroup`, `MemoryCgroupProofs` | update and stats of the memory cgroup, and the OOM monitor, and their theorems |
| `SyncShim` | the synchronous shim |
| `CommandLine`, `Bootstrap`, `RuncArgs`, `RuncOutput`, `LogLine` | pure modules without variables: command lines, the input of a start, what runc is told and what it answers, a line of the log |
| `MC…` | constants for TLC, and the properties that evaluate the pure modules |

Conventions. A definition has the name of the function it models where there is
one (`setup_loop`, `umount_recursive`, `parse_start_params`); an action is one
step of the code between two points at which another thread, process or the
kernel can act. A variable marked "history" is read by properties only. An
operator named `Mut_…` is a plausible mistake in the definition that follows it;
`PROJECT.json` names, for each property of a run, the one that breaks it, and
nothing else uses them. `PROJECT.json` also maps each definition to its lines.
`BundleCleanup` and `SyncShim` have names of their own for what is elsewhere
called `Init`, `Next` or `pc`, because a module of theorems extends each of them
together with another component; so does `StdinCopy` (`inCopy`, `exec`,
`StartExec`), because `MCStdio` extends it together with `StdoutCopy`.

### TaskService

The map of containers is flattened: `procs` maps a key, a container id with an
exec id or `InitProc`, to a record with state, process and exit code. A process
is an element of `Procs`, born once, and its exit code is its own identity, so
that a code on the wrong record shows; `PidOf` gives its pid, and two processes
with one pid are a reuse. A process is unborn, alive, a zombie, queued in the
pump's channel, handed to the pump, or done. `lock` is who holds the write lock.
A handler that waits while it holds the lock is split at each wait
(`Create`/`CreateInsert`, `Pause`/`PauseDone`, `DeleteInit`/`DeleteRemove`,
`Wait`/`Wake`/`Return`), and the kernel and the reaper run in between. The pump
is `PumpReceive`, then `PumpHandle` under the lock (with the kill of the other
processes when an init with a private PID namespace has died), then one
`PumpSend` for each event into a channel of `ChanCap` that `Forward` drains.
`Faults` switches on failures after the runtime has acted, deadlines that drop a
handler, failing unmounts, and failing kills. `Disciplined` restricts clients to
the use containerd makes of ids: an id is created once, an exec is started once
and not deleted while it runs, and one delete of a container is under way at a
time.

### ExitMonitor

`SpawnLoop` to `NoMoreZombies` is `handle_signals`: SIGCHLD is a flag, so one
signal stands for all zombies there are when the loop runs. `subscribers`,
`topic_subs` and a channel for each subscription are the monitor.
`ExecSubscribe` to `ExecUnsubscribe` is `ShimExecutor`: subscribe, spawn,
`recv` until the exit of its own child, unsubscribe, read the pipe to its end.
`Cancel` drops it once it has subscribed, before its spawn has returned or while
it waits for the exit; the awaits that follow, for the monitor's lock to
unsubscribe and for the end of the pipe, are left out, since a drop there leaves
at most the same, a subscription whose receiver is gone. A child can fill the captured pipe and then cannot die before it is
read.

### Publisher and EventDelivery

The queue with those who wait for room, the worker's state and the event in its
hand, the sleeping retries, a count for each item, containerd and the client's
connection. `Send` is `send_timeout`; a freed permit goes to the longest
waiting sender (`Recv`). `EventDelivery` says what a user of the publisher may
rely on, event by event: a bounded number of offers, settled only after an
arrival, given up only after an offer; the mapping computes an event's status,
offers and arrival from the publisher's state.

### StdinCopy and StdoutCopy

One input or output of one process. `StdinCopy` has the fifo, the process's
pipe, the hold of the shim on the fifo (Pending, Open or Released, as in the
code), the task that copies, and its fresh replacement after a failed start.
`StdoutCopy` follows an output through the start that makes it: hold the fifo,
make the pipes or listen for the terminal, spawn runc, `close_after_start`,
receive the terminal or attach the copy; `ends` is who has the writing end of
what the shim reads, `Faults` which step fails. Both end with the shutdown at
delete, which cancels the copy after a drain. The two share no state; `MCStdio`
follows one of them while the other is at rest.

### ShimServer

For each start the action (`start`) and its server (`server`, from the open of
its log to its end), the socket file with who bound it, the address files.
`calm` is a history variable: TRUE as long as a start begins only while no
other is in flight or a server is up (containerd starts a pod's sandbox first,
its containers after it), and a server falls only while at most one start is in
flight. Otherwise two servers may each find the dead socket and take it over.

### RootfsMount and MountOptions

For each shim the thread of the blocking pool it works on, the directory each
of its threads is in (a thread keeps `unshare` and `chdir` from one work to the
next), the list of mounts still to do, the host's mount table in order, and the loop devices with who has them
open, udev's probe included. A recursive unmount reads the lines of mountinfo at
and below the rootfs into `list` and takes them longest first. `MountOptions`
computes what an option list means
and the compaction of `lowerdir`; a path is a sequence of characters, and `Seen`
is what the kernel makes of one from a directory. `RequestsAssumption` is what
containerd sends: at most one `lowerdir`, of absolute paths.

### MemoryCgroup

The files `memory.max`, `memory.swap.max` or their v1 counterparts, usage of
memory and swap, an `update` with its list of writes, a `stats` that reads file
by file, and on v1 the eventfd with its reader and the task that sends. The
kernel's part: a limit that does not fit is refused (v1) or kills (v2), memory
beside swap of v1 is never below memory.

### BundleCleanup and the pure modules

For each task the create (`pc`), the thread that works for it and outlives it
when it is dropped (`work`), its delete action (`action`), and the two files of
the bundle; globally the mounts, the runtime's records by state directory and
the running processes. The server's working directory is the bundle of the
task it was started for, the action's is its own, and `abs_path_buf` of
`RuncArgs` resolves a relative state directory against each.
`Bootstrap` evaluates a start from containerd's message or flags to the
environment of the server, for both generations of daemons; `RuncArgs` gives
the arguments of each call and reads them as runc does; `RuncOutput` is what is
made of the output, the exit and the log; `LogLine` writes a record and reads
it back. Their properties are stated over finite sets of inputs in
`MCBundleCleanup`.

### SyncShim

The main thread from the start of the server to its exit signal, the reaper
thread, threads that fork to mount and wait by pid, and threads that log. Pids
are reused. `main` goes through `bootstrap`: the open of the log's FIFO
(`open_log`), which waits for a reader, the binding of the socket, the line it
writes before it spawns the reaper ("started"), the wait for the exit signal,
and the line it writes before it shuts the server down ("stopping"). `reaper`
and `hand` are `handle_signals`: an exit it has reaped is in its hand until the
monitor is told, and for a child that was killed it first writes a line, as it
does for any other signal. `logger` is who holds the logger's mutex: a line is
one blocking write under it, so `Log` takes it and `Logged`, `MainLogged` or
`ReaperLogged` gives it back, and who has a line to write (`HasLine`) waits for
both. The lines of the debug level are there when `Debug` is. A forked child has
a copy of the mutex as it was, and logs to the same FIFO when its mount fails.

## The runs

Eleven runs pass; `publisher_attempts` is expected to find a violation, see
[below](#what-the-checks-found). A property of a passing run is broken by its
mutant under the same configuration, so that no bound below keeps the
interesting case out.

| Run | Instance | What it shows |
|---|---|---|
| `task_core` | 1 container, 1 exec, 3 processes, 2 calls, channel of 1, clients as containerd | no exit is lost while a record waits for it; every process alive is on record; wait, pids and connect answer for the processes they are asked about; what a delete removes is dead; shutdown signals only an idle shim |
| `task_any_client` | the same with a private PID namespace, any client, failures, deadlines, pause and kill | the inductive invariant of the proofs; exits are recorded on their own record and told before the delete |
| `task_live` | 1 container, 2 processes, 2 calls, channel of 1 | each exit on record is reported, each call returns |
| `monitor` | 2 children, 1 execution, the pump and a subscriber of all topics | each gets a gapless run of exits from its subscription on; the execution returns with its own child's |
| `publisher` | 2 events, queue of 1, 2 retries, 2 restarts, timeouts | an event is in one place; one fault costs one attempt; the publisher implements `EventDelivery`, liveness included |
| `publisher_attempts` | 1 event, 5 retries, 1 restart, timeouts | violated: an event is offered six times, where the comments say five at most |
| `stdio` | input: 3 chunks, fifo of 2, pipe of 1, 1 failed start; output: 4 chunks, fifo and pipe of 2, each step of a start may fail | input is whole and in order, EOF after CloseIO and not before; output is kept, nothing but the process holds its end, start and delete return |
| `shim_server` | 3 starts, 2 probes, 2 kills | a running server is reachable; starts end |
| `rootfs` | 2 shims, 2 threads, 2 loop devices, 1 kill, 1 foreign mount | each layer of an overlay is found; mounts are as asked; a delete unmounts all of its own and nothing else; devices are freed |
| `memory_cgroup` | limits of up to 2 units, unlimited and unset, 2 OOM kills, 2 calls | an update is in force when it succeeds and harmless in its order; TaskOOM is true and told |
| `bundle_cleanup` | 2 tasks, 3 kinds of request, 2 kills | a delete action that answers has left nothing it could know of; command lines, answers, log lines and start messages are understood |
| `sync_shim` | 2 callers, main, reaper and 1 more thread that logs, level debug, 2 pids, 2 starts | a mount answers for its own child; while the log is read a mount ends, a shutdown takes place and a start returns |

Why these bounds. A race in this code is between two actors of a kind (two
handlers, two starts, two shims) and the ones that are alone of their kind (the
pump, the worker, the reaper), so two of each with the kernel free to act
covers each pair of them; three processes are a container's init, an exec and
a successor of either. Channels and queues hold 1, so that full and empty both
occur at once. Counters bounded in guards (`MaxWrites`, `MaxCrashes`,
`MaxKills`, `MaxFails`, `MaxOoms`, `MaxCalls`, `MaxUnits`, `MaxExtra`,
`MaxStarts`, `MaxInputs`, `Probes`) let a fault meet any step and, where it is 2, meet the
recovery from the first. Processes and calls are interchangeable, and
`task_core` and `task_any_client` use that symmetry; no run with a liveness
property does. `CHECK_DEADLOCK FALSE` is said in every run because each system
may rightly come to rest: all processes have been born and deleted, every
chunk is through, every start has ended. That nothing rests before its time is
what the liveness properties say.

## Fairness

Weak fairness is given to what the tokio runtime or the kernel does in the end
whatever else happens: the loop reaps a zombie, runc returns, the forwarder and
the publisher's worker are scheduled, a timer fires, a copy that can go on goes
on, a forked child runs. Strong fairness is given only in `TaskService`, where
the lock or a slot in the channel is taken and freed again by others:
tokio's `RwLock` and its `mpsc` channel are queues, so who waits gets his turn.
A process that is started need not exit, a client need not call, containerd
need not come back nor read, a container need not free memory: no fairness is
assumed of any of them. Where a property depends on such a step it says so in
its premise.

A line of the log is such a step: it is written under a mutex, blocking, to a
FIFO that containerd may not read. In `SyncShim` no thread is sure to get the
mutex or to finish its line, and nobody has to open the FIFO; `MountEnds` and
`ShutsDown` have the premise `LogIsRead`, that each line that is begun or waited
for is written and that the open returns. Without it both are false of the code:
the reaper waits with an exit in its hand, the main thread with its last line.
`ShimServer` has the open of the log and says in `StartEnds` that a server may
stay there. The other modules leave the log's lines out of the steps that write
them, so their liveness properties hold for a log that is read.

The liveness properties are `ExitReported` and `CallsReturn` (task service),
`EveryExitTold` (monitor), the `Ends` part of `Promise` (publisher),
`InputEnds`, `CallsEnd` (stdio), `StartEnds` (shim server), `OomTold`
(OOM monitor), `MountEnds` and `ShutsDown` (synchronous shim).
`task_live` runs without deadlines and pauses, since a handler that is dropped
returns no call.

## Proofs

TLAPS checks the theorems below for every value of the constants the modules
assume: any sets of containers, execs, processes, callers, pids, events, starts,
tasks, requests, chunks, shims and loop devices, any capacity, any number of
faults.

| Module | Theorem | Statement |
|---|---|---|
| `TaskServiceProofs` | `TypeCorrect` | every variable keeps its type |
| | `Invariant` | `IInv` holds, if no pid is used twice |
| | `NoExitIsLost` | `ExitNotLost` |
| | `ExitsAreRecordedRight` | `ExitRecordedRight` |
| | `ExitsPrecedeDeletes` | `NoExitAfterDelete` |
| | `ClientInvariant` | `ClientInv` holds, if clients use ids as containerd does, no deadline drops a call and no runtime call fails late |
| | `NothingIsOrphaned`, `TheRemovedAreDead`, `ShutdownsAreIdle` | `NoOrphan`, `RemovedIsDead`, `ShutdownIdle`, for the same clients |
| | `AnswersAreTruthful` | `AnswersTruthful`, for the same clients and without pause |
| `ExitMonitorProofs` | `EachIsSentTheSuffix` | `DeliversSuffix` |
| | `EachTakesItsOwnExit` | `OwnCode`, in every behaviour in which a pid rests until all have heard of its exit |
| | `OwnExitOfDistinctPids` | `OwnCode`, if no pid is used twice |
| `ActionProofs` | `ServersAreReachable` | `Reachable` |
| | `ActionsCleanUp`, `ActionsAnswer` | `CleanupComplete`, `DeleteAnswers` |
| `PublisherProofs` | `EventsInOnePlace` | `InOnePlace` |
| | `Implements` | the publisher implements `EventDelivery` without its liveness |
| | `AFaultCostsOneAttempt` | `OneFaultOneAttempt` |
| `StdoutProofs` | `NoOutputIsLost`, `OutputIsDelivered`, `OutputEndsWithTheProcess` | `OutputKept`, `Delivered`, `EndsWithProcess` |
| `StdinProofs` | `InputIsKept` | `InputKept` |
| `MemoryCgroupProofs` | `UpdatesAreApplied`, `UpdatesAreGraceful` | `AppliedAsAsked`, `UpdateGraceful` |
| | `StatsAreNotTorn`, `OomsAreTrue` | `StatsNotTorn`, `OomTrue` |
| `MountProofs` | `CompactionKeepsLayers` | from the directory it changes to, `compact` names the layers it was given, in order |
| | `DevicesFreed`, `DeletesUnmount` | `LoopsFreed`, `Unmounts` |
| | `LayersAreFound` | `LayersFound` |
| | `MountsAreAsAsked` | `MountedAsAsked`, if no request is a remount |
| | `MountsAnswer` | `OwnChild` |

**Task service.** `ExitRecordedRight` alone is not inductive. `IInv` adds: a
call between the spawn of a process and its record holds the lock, and the exit
of that process is still to come (`SpawningInv`); a delete between its two locks
works on a process of its own container (`RemovingInv`); a process is on record
once, under the key it was born for (`OwnedInv`); the exit in the pump's hand is
handed over, and once the pump has the lock it is recorded, not yet sent, and
its process not deleted (`HandInv`); a TaskExit that was sent is of an exit that
has been recorded (`SentInv`); a process whose TaskDelete is sent or decided is
off the record, and no call will put it back (`DeletedInv`). `DistinctPids` is
the assumption: `process_exits` looks a record up by pid, and a stopped exec
keeps its pid until its delete, so a reuse sends the new exit to the old record.
The tests of the code cannot reach that state, and no check of the code excludes
it.

The other theorems of the task service depend on what clients do. `AsContainerd`
says it: ids are used as containerd uses them, and neither a deadline drops a
call nor a runtime call fails after it has acted, because each of these leaves
a process with no record (see below). Failing unmounts and kills stay possible.
`ClientInv` adds to `NoOrphan`: what lives was born for a key of a container
(`OwnerInv`); the runtime forgets a container only when nothing runs in it
(`RuntimeInv`), which it has by the second lock of a delete (`ForgottenInv`); a
record that a create or start is about to write over has no process yet, and no
other call is on that container (`OverwriteInv`); and what a record holds in
each state (`RecordInv`). `RemovedIsDead` follows, as a removal comes from
`ForgottenInv`, and so does `ShutdownIdle`. `AnswersTruthful` needs `WaitInv`:
a waiting call is among the waiters of its record, unless that record is
STOPPED or gone, and a call about to answer has seen a process of its own key.
Both fail for a wait on a container that is paused, which the code answers at
once, so the theorem has no pause among its operations.

**Exit monitor.** `DeliversSuffix` says of a subscription that its channel is
what the log has after its start. Subscribers find their channels by id, so the
invariant counts the ids: `seq_id` is how many have subscribed, each has its own
below that, and a new id is fresh and has an empty channel (`IdsInv`); no
subscription starts after the end of the log (`StartInv`). `OwnCode` adds that
reports are of reaped children (`EndsInv`), that what an execution has taken is
of its own child (`CodeInv`), that who waits is subscribed under an id nobody
shares (`SubInv`), and that meanwhile nobody else's exit with the pid of its
child is in its channel or may come there (`WaitInv`). The last is not true of
all behaviours: `ShimExecutor` subscribes before it spawns, and `wait_pid` goes
by the pid alone, so an exit told in between, of a child whose pid the spawn is
then given, would be taken for the exit of the new child. `PidsRest` excludes
exactly that: a pid is not given to a child while an exit of its former holder
is in the loop's hand or unread by an execution about to spawn or wait. It is a
hypothesis on the kernel, whose pids go round before one comes again, and it
follows from pids being distinct (`OwnExitOfDistinctPids`).

**Shim server.** Each server that has bound owns the socket file as long as
servers have not contended (`OwnsSocket`). That needs that a server which
takes over the socket of a dead one is alone (`AloneAtTakeover`), which holds
because starts overlap only while a server is up (`OverlapGuarded`): a probe
of a server that is up succeeds, and the start retreats.

**Delete action.** The files are written before the runtime is called and are
whole, because they are renamed into place (`FilesInv`); a record is made by
the client the options name (`ContainersInv`); the action reads what the
create of a task on record has left (`ActionInv`); what it has done stays done
(`DoneInv`). The theorem excludes tasks whose unmount or delete failed and
those outlived by a runtime call (`faulted`, `outlived`).

**Publisher.** An event is in the queue, waiting for room, in the worker's hand
or asleep, in one of them exactly as long as its end is open (`PlaceInv`); the
count of its item says how often it was offered and whether it has been
accepted (`CountInv`); an event that was forwarded was received (`WorkInv`).
The lemmas on channels say what append, receive and the departure of a sender
in the middle do to a sequence without repetitions. For `Implements` a step is
shown to move each event as `Moves` says, and such a move is a step of
`EventDelivery`. `OneFaultOneAttempt` counts the events that failed against the
faults there were. The worker learns of a broken connection at its next
attempt, so the fault that broke it is charged later: as long as the connection
is broken one fault more is owed (`FaultInv`).

**Output.** `OutputKept` speaks of a copy at work. Its invariant follows the
whole of what was written, `delivered \o fifo \o buf \o pipe`, which each step
cuts elsewhere and none changes (`FlowInv`); a copy that leaves undisturbed does
so when nobody holds the writing end and pipe and buffer are empty. Who may
hold that end at each point of the start is `StartInv`, what there is of the
terminal's socket `ConsoleInv`, who cancels the copy and waits for it
`ShutdownInv`, and when there is a copy at all `CopyInv`.

**Input.** Here chunks may be skipped, with a start that fails or a fifo that
nobody has open. So the invariant has each chunk written in one place or among
the skipped ones, with the last of them in the fifo (`CountInv`); from that
follows that after a failed start, when pipe and buffer are gone, what is left
is again without a gap (`FlowInv`). EOF needs a released hold, and a hold that
is released before the shutdown, or kept for the tasks of the next start, was
released by CloseIO (`HoldInv`).

**Memory cgroup.** The theorems hold for limits of any size, for any set of
requests. A limit that an update was asked for is in force or in the list of
writes to come, with the value asked (`TodoInv`), so that an empty list means it
is applied. What is asked of swap on v2 depends on the limit of memory in force
only if the request names none, and then the update does not write it either, so
what is asked stays the same from the first write to the last. `OrderInv` says
of the list that on v2 swap comes before memory, and on v1 that the limit
written first fits the other one as it is then; it rests on memory beside swap
never being below memory on v1 and on swap being unlimited where it is not
accounted (`HostInv`). `GraceInv` restates, about the current limits and usage,
the agreement that was found when the update began. A stats call holds the read
lock of the map and an update the write lock, so no limit changes between two
reads and what was read is still in force (`ReadInv`). For `OomTrue`, the OOMs
on their way, from those told over the queue and the reader's hand to the
eventfd, are in the order they happened, and what the eventfd holds is newer
than all others (`OomInv`). TLC checked these parts as invariants with two and
with three units before they were proved.

**Mounts.** For `LoopsFreed`: a shim that sets up a device has opened it and is
the only one that has it as its own (`BindingInv`); a bound device that clears
itself is in use, and one that does not yet is still being set up, or leaked by
a kill (`FreedInv`). For `Unmounts`: what is mounted below a rootfs was mounted
after everything at it, and only once its mounts are done (`StackInv`), so that
taking the longest mount points first never meets a busy one of the shim's own
but for those that came after the list was read; and what is at a rootfs stays
on the list of its unmount until nothing is left there (`ListInv`). The table of
mounts is a sequence of which any element may go, so the lemmas say what an
append and a removal do to the places of the others. `Shims` is finite, because
`SetToSeq` lists it. The last mount at a point is the `Max` of a set of places,
which exists by the well-foundedness of the numbers (`LastOfSome`).

For `LayersFound`: from the chdir to the mount the thread of a shim is in the
directory its work is meant from, and no other work moves that thread meanwhile
(`CwdInv`); an overlay that is not compacted has absolute names, which mean the
same everywhere. The rest is `CompactionKeepsLayers`: the common prefix is one of
every layer and shorter than each, because it is cut back to a slash and no
layer ends in one, so what is stripped of it is a relative name. For
`MountedAsAsked`: from the moment a shim has bound its device until the mount is
made, the device is writable or not as its options say, unless it has been
given to another file meanwhile; and what the second call makes read-only is
still there (`AskedInv`). That the `RDONLY` of the flags is what `ro` and `rw`
say last is a fact about `Parse`, a recursive function. It and the others over
option lists are proved without an induction rule: if there were a length for
which the fact fails there would be a least one (`Least`), and one step of the
function refutes it. A request with `remount` is excluded (`MountsAnew`): it
makes nothing anew, and what it changes need not be there; no snapshotter asks
for one.

**Synchronous shim.** Calls are numbered as they start, and no two have one
number (`CallsInv`). A report of success for a call is of a mount that was made,
wherever it is: with the child, in any queue, or in hand (`MadeInv`). Of the
reports of its pid the first that a waiting call will take is that of its own
child, be it in its queue, in the reaper's hand or still to come (`WaitInv`);
that fails exactly when the exit of an earlier process with the pid is in the
reaper's hand or in its queue at its fork, which `reused` records. There is
an exit in that hand only while the reaper logs or notifies (`HandInv`). TLC
checked this invariant under the configuration of `sync_shim`, and that of the
mounts under the one of `rootfs`, before they were proved.

Model-checked only: the properties of the pure modules, `RuncUnderstands` and
`StartUnderstood`, whose recursive functions take texts of many forms apart and
would need an induction for each of them; and every liveness property
(`ExitReported`, `CallsReturn`, `EveryExitTold`, the `Ends` part of `Promise`,
`InputEnds`, `CallsEnd`, `StartEnds`, `OomTold`, `MountEnds`, `ShutsDown`),
since fairness and `ENABLED` are out of the prover's reach.

## What the checks found

One run expects a violation. `publisher_attempts` shows that code and comments
part on how often an event is reported: "The maximum number of attempts to
report is 5 times." (`shim/src/asynchronous/publisher.rs:37`), "Max try five
times" (`:42`); but an item starts with the count 0 and is dropped only when its
count is greater than `MAX_REQUEUE` (`:85`), so it is offered for the counts 0
to 5, six times. `EventDelivery` has the bound the code keeps: one offer and
`MAX_REQUEUE` more.

The other observations a maintainer may want to know of:

Task service:

- `wait` on a paused container answers at once with status 0
  (`runc-shim/src/task.rs:443`): only RUNNING and CREATED wait.
- A `wait` woken by a delete looks the id up again and may answer for a new
  container of the same id; a delete between its two locks (`task.rs:284`)
  removes a container created meanwhile. Clients that use an id once never
  meet either.
- A pid used again while a stopped exec still holds it sends the new exit to
  the old record; hence the assumption `DistinctPids` of the proofs.
- `delete` captures the exit status before the forced kill
  (`container.rs:128`), so a container deleted while it runs is reported with
  the status it had before.
- `ExitStatus::from_raw` is given a bare exit code (`runc.rs:613`), so exit
  code 1 of the runtime is reported as a death by signal 1.
- A ttrpc deadline that drops a pause leaves the container PAUSING; one that
  drops a delete between its locks leaves the container in the map.
- The order of TaskStart and TaskExit is not fixed (`task.rs:246`), and events
  still queued at shutdown are lost (`asynchronous/mod.rs:220`).
- An exec that is started a second time keeps its old exit time, so a kill of
  it is refused as of a process that has finished.

Publisher: besides the number of attempts, retries do not keep the order of
events (`publisher.rs:116`).

Stdio and console: the hold on an output fifo lives as long as the copy, not
until containerd has read (`io.rs:138`, `:152`). `ConsoleSocket::new` leaves its
directory when the bind fails; a dropped handler leaves it too. `accept` waits
under the write lock if runc succeeds and sends no terminal.

Start and servers: two starts that take over the same dead socket both remove
it, and a slow server that shuts down removes the socket of its successor, both
only outside the `calm` behaviours. A server killed by a failing
`confine_shim` leaves its socket, which costs the next start the time of its
probes. A server whose daemon dies before it opens the log FIFO waits in that
open for ever. The log level is passed on as debug or nothing.

Mounts: the EBUSY retry of `setup_loop` (`mount_linux.rs:720`) compares with a
text nix does not use, so it never retries; the device is closed before the
mount (`:718`), so that an autoclear device is detached already, unless udev has
it open, and another shim may take it; `unshare` and `chdir` stay with the pool
thread, so that a later relative read of `address` (`asynchronous/mod.rs:227`)
from it misses; a failing `chdir` exits the whole shim.

Delete action: a missing runtime binary fails the create after its mounts and
then the action before its unmount; a relative state directory is resolved
against the working directory of whoever calls runc; a runc or a mount that
outlives the server can finish behind the action.

Cgroups: on v2 the limit of swap is lowered before that of memory is raised, so
a container that grows between the two writes may be killed; a failed update may
be half applied; an OOM and the removal of the cgroup that come in one read of
the eventfd are told as the removal alone.

runc client: `runtime_error` takes the last error line of the whole log, which
may be an older command's; a delete whose error contains "does not exist" for
any other reason counts as done.

Synchronous shim: exit codes -1 and -2 of the forked child arrive as 255 and
254 and are not recognised; the child logs on failure and may hang on a copy of
the logger's mutex, and the mount with it (`MountEnds` excepts it); while nobody
reads the log, the reaper and the main thread block in a line of theirs or
behind the mutex (`synchronous/mod.rs:303`, `:308`, `:415`), so that mounts are
not told of their exits and the server does not shut down; a pid
used again between subscribe and fork hands over an older exit; an unreadable
`address` leaves the socket behind.

## What is not modelled

containerd itself, its client stubs (`client`), the snapshotter service
(`snapshots`), the logging binary (`logging`) and the generated protocols
(`shim-protos`) keep no state of their own or are not written here. The
Windows parts; what ttrpc's server does while it shuts down; the synchronous publisher, a plain call; the synchronous runc client,
which makes the same calls; `resize_pty`; the conversions of CPU, pids and huge
page limits, each one number copied into one file; the fields of the JSON
documents, of specs and of metrics; error conversions; wording and times of the
log. The runtime, the kernel, udev and containerd are modelled as far as the
code calls them or is called by them, with every choice they are free to make.

## The plan

Done: the task service, exits, the publisher, stdio, the server, mounts,
cgroups, the delete action, the pure modules, the synchronous shim; proofs for
the task service, the exit monitor, the server, the delete action, the
publisher, stdio, the memory cgroup, the mounts and the synchronous shim.

Next, in this order:

1. Liveness of the task service with deadlines and pauses, where a dropped call
   counts as returned.
2. `AnswersTruthful` as a theorem with pauses too, where a wait answers status 0
   for a paused record only.
3. One module that composes `ExitMonitor` and `TaskService`: the pump of the
   second is a user of the first, and both are modelled with the same channel.

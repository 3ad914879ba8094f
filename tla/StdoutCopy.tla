------------------------------ MODULE StdoutCopy ------------------------------
(***************************************************************************)
(* An output of a process, from the call that starts it to the one that    *)
(* deletes it: the pipe or the terminal the runtime gives to the process,  *)
(* the copy into containerd's fifo, which the shim holds open for reading  *)
(* too, and the drain at delete.                                           *)
(*                                                                         *)
(* A chunk of output is its number.  The output has ended when nobody has  *)
(* its writing end any more: the shim, the command it has prepared, runc,  *)
(* the process, and a child that may outlive it.  containerd may restart.  *)
(***************************************************************************)
EXTENDS Naturals, Sequences

CONSTANTS
  MaxWrites,   \* bound on the chunks the process writes
  FifoSize, PipeSize,
  Faults       \* of "socket", "fifo", "spawn", "runc" and "late"

ASSUME ConstantsAssumption ==
  MaxWrites \in Nat /\ FifoSize \in Nat \ {0} /\ PipeSize \in Nat \ {0}

VARIABLES
  terminal,  \* the process gets a terminal
  start,     \* how far the call that starts the process is
  runc,      \* "none", "running", "ok" or "failed"
  console,   \* the socket runc sends the terminal over: its directory
  proc,      \* "unborn", "running" or "exited"
  ends,      \* who has the writing end of the output
  pipe, buf, fifo,   \* chunks in the pipe, in the copy, in the fifo
  delivered, \* the chunks containerd has read
  reader,    \* containerd has the fifo open for reading
  held,      \* so has the shim
  copy,      \* "none", "copying", "leaving" or "ended"
  cancel,    \* the tasks' token
  delete,    \* "none", "draining", "aborting" or "returned"
  expired,   \* history: the drain timed out
  written,   \* history: the number of chunks written
  away       \* history: output was in the fifo when nobody had it open

vars == <<terminal, start, runc, console, proc, ends, pipe, buf, fifo, delivered, reader, held,
          copy, cancel, delete, expired, written, away>>
launch == <<terminal, start, runc, console>>
process == <<proc, ends, written>>
data == <<pipe, buf, fifo, delivered>>
copying == <<copy, held, away>>
shutdown == <<delete, cancel, expired>>

(* containerd opens its end of the fifo before it asks for the process.    *)
Init ==
  /\ terminal \in BOOLEAN /\ start = "io" /\ runc = "none" /\ console = "none"
  /\ proc = "unborn" /\ ends = {}
  /\ pipe = <<>> /\ buf = <<>> /\ fifo = <<>> /\ delivered = <<>>
  /\ reader = TRUE /\ held = FALSE
  /\ copy = "none" /\ cancel = FALSE
  /\ delete = "none" /\ expired = FALSE
  /\ written = 0 /\ away = FALSE

(* Nobody has the fifo open any more: the kernel drops what is in it.      *)
Emptied == fifo' = <<>> /\ away' = (away \/ fifo # <<>>)
------------------------------------------------------------------------------
(* The call that starts the process.                                       *)

(* The failed call drops its pipe, and cancels and awaits its copies.      *)
Fails == start' = "failing" /\ cancel' = TRUE

(* Mutant: the shim does not open the fifo for reading.                    *)
Mut_CopyStarts == copy' = "copying" /\ UNCHANGED <<held, away>>

(* The shim opens the fifo for itself, without waiting for a writer.       *)
hold_fifo == held' = TRUE

(* copy_to_fifo: the hold comes before the copy.                           *)
CopyStarts == copy' = "copying" /\ hold_fifo /\ UNCHANGED away

(* The shim has the reading end of its pipe twice, the writing end once.   *)
PipedIo == ends' = {"shim"}

(* The fifos are opened before there is a process.  That of another output *)
(* may fail when the copy of this one has begun.                           *)
copy_io ==
  \/ start' = "launch" /\ PipedIo /\ CopyStarts /\ UNCHANGED cancel
  \/ "fifo" \in Faults /\ Fails /\ UNCHANGED ends /\ (CopyStarts \/ UNCHANGED copying)

create_io ==
  /\ start = "io" /\ ~terminal
  /\ copy_io
  /\ UNCHANGED <<data, terminal, runc, console, proc, written, reader, delete, expired>>

(* ConsoleSocket::new; its directory stays when the socket does not come.  *)
Listen ==
  /\ start = "io" /\ terminal
  /\ \/ start' = "launch" /\ console' = "listening" /\ UNCHANGED cancel
     \/ "socket" \in Faults /\ Fails /\ console' \in {"none", "left"}
  /\ UNCHANGED <<process, data, copying, terminal, runc, reader, delete, expired>>

(* The command gets a copy of the writing end, and runc with it.           *)
SetIo == ends' = IF terminal THEN ends ELSE ends \cup {"command", "runc"}

Spawn ==
  /\ start = "launch"
  /\ start' = "running"
  /\ \/ runc' = "running" /\ SetIo
     \/ "spawn" \in Faults /\ runc' = "failed" /\ UNCHANGED ends
  /\ UNCHANGED <<data, copying, shutdown, terminal, console, proc, written, reader>>

(* runc starts the process and, if asked to, sends its terminal.           *)
RuncStarts ==
  /\ runc = "running" /\ proc = "unborn"
  /\ proc' = "running" /\ ends' = ends \cup {"process"}
  /\ console' = IF terminal THEN "sent" ELSE console
  /\ UNCHANGED <<data, copying, shutdown, terminal, start, runc, written, reader>>

RuncExits ==
  /\ runc = "running"
  /\ \/ /\ proc # "unborn"
        /\ runc' = "ok" /\ ends' = ends \ {"runc"} /\ UNCHANGED proc
     \/ /\ "runc" \in Faults
        /\ runc' = "failed" /\ ends' = ends \ {"runc", "process"}
        /\ proc' = IF proc = "unborn" THEN proc ELSE "exited"
  /\ UNCHANGED <<data, copying, shutdown, terminal, start, console, written, reader>>

(* A writing end that is dropped is closed.                                *)
Dropped(holders) == ends' = ends \ holders

(* Mutant: the shim keeps the writing end.                                 *)
Mut_close_after_start == Dropped({"command"})

(* The command is dropped, and the shim lets go of the writing end.        *)
close_after_start == Dropped({"command", "shim"})

clean == console' = "removed"

(* launch_io returns.                                                      *)
Executed ==
  /\ start = "running" /\ runc \in {"ok", "failed"}
  /\ close_after_start
  /\ IF runc = "ok"
     THEN /\ start' = IF terminal THEN "attach" ELSE "pid"
          /\ UNCHANGED <<cancel, console>>
     ELSE Fails /\ IF terminal THEN clean ELSE UNCHANGED console
  /\ UNCHANGED <<data, copying, terminal, runc, proc, written, reader, delete, expired>>

(* The terminal is on the socket when runc is done.                        *)
receive_socket == console = "sent"

(* The copies of a terminal begin once it has come.                        *)
copy_console ==
  /\ receive_socket
  /\ \/ start' = "pid" /\ CopyStarts /\ UNCHANGED cancel
     \/ "fifo" \in Faults /\ Fails /\ UNCHANGED copying

attach_console ==
  /\ start = "attach"
  /\ copy_console
  /\ clean
  /\ UNCHANGED <<process, data, terminal, runc, reader, delete, expired>>

(* The pid file is read last.                                              *)
Started ==
  /\ start = "pid"
  /\ \/ start' = "started" /\ UNCHANGED cancel
     \/ "late" \in Faults /\ Fails
  /\ UNCHANGED <<process, data, copying, terminal, runc, console, reader, delete, expired>>

StartFailed ==
  /\ start = "failing" /\ copy \in {"none", "ended"}
  /\ start' = "failed"
  /\ UNCHANGED <<process, data, copying, shutdown, terminal, runc, console, reader>>

------------------------------------------------------------------------------
(* The process.                                                            *)
ProcessForks ==
  /\ proc = "running"
  /\ ends' = ends \cup {"kid"}
  /\ UNCHANGED <<data, copying, shutdown, launch, proc, reader, written>>

(* A pipe whose reader is gone is no longer written to.                    *)
ProcessWrites ==
  /\ ends \cap {"process", "kid"} # {}
  /\ copy = "none" => start \notin {"failing", "failed"}
  /\ copy # "ended"
  /\ written < MaxWrites /\ Len(pipe) < PipeSize
  /\ written' = written + 1
  /\ pipe' = Append(pipe, written + 1)
  /\ UNCHANGED <<copying, shutdown, launch, proc, ends, buf, fifo, delivered, reader>>

ProcessExits ==
  /\ proc = "running"
  /\ proc' = "exited" /\ ends' = ends \ {"process"}
  /\ UNCHANGED <<data, copying, shutdown, launch, reader, written>>

KidExits ==
  /\ "kid" \in ends
  /\ ends' = ends \ {"kid"}
  /\ UNCHANGED <<data, copying, shutdown, launch, proc, reader, written>>

------------------------------------------------------------------------------
(* The copy.                                                               *)
CopyReads ==
  /\ copy = "copying" /\ buf = <<>> /\ pipe # <<>>
  /\ buf' = <<Head(pipe)>> /\ pipe' = Tail(pipe)
  /\ UNCHANGED <<process, copying, shutdown, launch, fifo, delivered, reader>>

(* A write waits for room; without any reader of the fifo it is EPIPE and  *)
(* the copy ends.                                                          *)
CopyWrites ==
  /\ copy = "copying" /\ buf # <<>>
  /\ IF reader \/ held
     THEN /\ Len(fifo) < FifoSize
          /\ fifo' = Append(fifo, buf[1]) /\ buf' = <<>>
          /\ UNCHANGED copy
     ELSE copy' = "leaving" /\ UNCHANGED <<fifo, buf>>
  /\ UNCHANGED <<process, shutdown, launch, pipe, delivered, reader, held, away>>

(* The end of a pipe, and a terminal that hung up.                         *)
CopyEof ==
  /\ copy = "copying" /\ buf = <<>> /\ pipe = <<>> /\ ends = {}
  /\ copy' = "leaving"
  /\ UNCHANGED <<process, data, shutdown, launch, reader, held, away>>

CopyCancelled ==
  /\ copy = "copying" /\ cancel
  /\ copy' = "leaving"
  /\ UNCHANGED <<process, data, shutdown, launch, reader, held, away>>

(* The task ends and drops the writer, the hold and the pipe.              *)
CopyEnds ==
  /\ copy = "leaving"
  /\ copy' = "ended" /\ held' = FALSE
  /\ IF reader THEN UNCHANGED <<fifo, away>> ELSE Emptied
  /\ UNCHANGED <<process, shutdown, launch, pipe, buf, delivered, reader>>

------------------------------------------------------------------------------
(* containerd reads, restarts, and deletes once the process has exited.    *)
ContainerdReads ==
  /\ reader /\ fifo # <<>>
  /\ delivered' = Append(delivered, Head(fifo)) /\ fifo' = Tail(fifo)
  /\ UNCHANGED <<process, copying, shutdown, launch, pipe, buf, reader>>

ContainerdLeaves ==
  /\ reader /\ delete = "none"
  /\ reader' = FALSE
  /\ IF copy \in {"none", "ended"} THEN Emptied ELSE UNCHANGED <<fifo, away>>
  /\ UNCHANGED <<process, shutdown, launch, pipe, buf, delivered, copy, held>>

ContainerdReturns ==
  /\ ~reader
  /\ reader' = TRUE
  /\ UNCHANGED <<process, data, copying, shutdown, launch>>

Delete ==
  /\ start = "started" /\ proc = "exited" /\ reader /\ delete = "none"
  /\ delete' = "draining"
  /\ UNCHANGED <<process, data, copying, launch, reader, cancel, expired>>

------------------------------------------------------------------------------
(* Mutant: no drain.                                                       *)
Mut_DrainedAtOnce ==
  /\ delete = "draining"
  /\ delete' = "aborting" /\ cancel' = TRUE
  /\ UNCHANGED <<process, data, copying, launch, reader, expired>>

(* shutdown_within: the copies end by themselves, or the drain times out.  *)
Drained ==
  /\ delete = "draining" /\ copy = "ended"
  /\ delete' = "aborting" /\ cancel' = TRUE
  /\ UNCHANGED <<process, data, copying, launch, reader, expired>>

(* Mutant: a drain that never ends.                                        *)
Mut_DrainNeverExpires ==
  /\ delete = "draining" /\ copy = "ended"
  /\ delete' = "aborting" /\ cancel' = TRUE /\ expired' = TRUE
  /\ UNCHANGED <<process, data, copying, launch, reader>>

DrainExpires ==
  /\ delete = "draining"
  /\ delete' = "aborting" /\ cancel' = TRUE /\ expired' = TRUE
  /\ UNCHANGED <<process, data, copying, launch, reader>>

(* abort has waited for the copies.                                        *)
DeleteReturns ==
  /\ delete = "aborting" /\ copy = "ended"
  /\ delete' = "returned"
  /\ UNCHANGED <<process, data, copying, launch, reader, cancel, expired>>

Start == create_io \/ Listen \/ Spawn \/ Executed \/ attach_console \/ Started \/ StartFailed
Copy == CopyReads \/ CopyWrites \/ CopyEof \/ CopyEnds
Process == ProcessForks \/ ProcessWrites \/ ProcessExits \/ KidExits
Containerd == ContainerdReads \/ ContainerdLeaves \/ ContainerdReturns \/ Delete
Shutdown == Drained \/ DrainExpires \/ DeleteReturns

Next ==
  Start \/ RuncStarts \/ RuncExits \/ Copy \/ CopyCancelled \/ Process \/ Containerd \/ Shutdown

Spec == Init /\ [][Next]_vars

(* The calls and the copy are tasks of the runtime, the drain has its      *)
(* timer, and runc gets done.  Nobody has to begin a call.                 *)
Fairness ==
  /\ WF_vars(start # "io" /\ Start) /\ WF_vars(RuncStarts) /\ WF_vars(RuncExits)
  /\ WF_vars(Copy) /\ WF_vars(CopyCancelled) /\ WF_vars(DrainExpires) /\ WF_vars(DeleteReturns)

FairSpec == Spec /\ Fairness
------------------------------------------------------------------------------
(***************************************************************************)
(* Properties                                                              *)
(***************************************************************************)
TypeOK ==
  /\ start \in {"io", "launch", "running", "attach", "pid", "started", "failing", "failed"}
  /\ console \in {"none", "listening", "sent", "removed", "left"}
  /\ ends \subseteq {"shim", "command", "runc", "process", "kid"}
  /\ {terminal, reader, held, cancel, expired, away} \subseteq BOOLEAN
  /\ {pipe, buf, fifo, delivered} \subseteq Seq(1..MaxWrites)
  /\ Len(fifo) <= FifoSize /\ Len(pipe) <= PipeSize /\ Len(buf) <= 1
  /\ written \in 0..MaxWrites

Numbers(n) == [i \in 1..n |-> i]

(* While the copy runs no output is lost, doubled or moved, and "the copy  *)
(* outlives a containerd restart instead of failing with EPIPE": it ends   *)
(* only at the end of the output, or once the tasks are shut down.         *)
OutputKept ==
  /\ TypeOK
  /\ (~cancel /\ copy # "ended") => delivered \o fifo \o buf \o pipe = Numbers(written)
  /\ (~cancel /\ copy \in {"leaving", "ended"}) => ends = {} /\ pipe = <<>> /\ buf = <<>>

(* The output ends with the last process that has it: once runc is done    *)
(* nobody else holds its writing end, or the copy would never end and each *)
(* delete would take the whole drain.                                      *)
EndsWithProcess == start \notin {"io", "launch", "running"} => ends \subseteq {"process", "kid"}

(* "Output a process wrote before exiting must reach containerd": when     *)
(* delete answers, containerd has it or finds it in the fifo, unless the   *)
(* drain timed out or containerd was away after the output had ended; and  *)
(* the fifo is released even while a child holds the output open.  So it   *)
(* is by a start that fails, which leaves no console socket either.        *)
Delivered ==
  /\ delete = "returned" \/ start = "failed" => ~held /\ copy \in {"none", "ended"}
  /\ start = "failed" => console \notin {"listening", "sent"}
  /\ delete = "returned" /\ ~expired /\ ~away => delivered \o fifo = Numbers(written)

(* A start that has begun returns, and so does delete, also when a child   *)
(* keeps the pipe or nobody reads.                                         *)
CallsEnd ==
  /\ start \in {"launch", "failing"} ~> start \in {"started", "failed"}
  /\ delete = "draining" ~> delete = "returned"
==============================================================================

------------------------------ MODULE StdinCopy -------------------------------
(***************************************************************************)
(* The stdin of an exec process: the copy from containerd's fifo into the  *)
(* process's pipe, the shim's own hold on the fifo that CloseIO lets go    *)
(* of, the fresh tasks after a failed start, and the shutdown at delete.   *)
(*                                                                         *)
(* A chunk of input is its number.  start holds the container's lock       *)
(* throughout, so CloseIO comes before or after it.  The opens of          *)
(* copy_from_fifo are one step: the fifo has a writer throughout and the   *)
(* copy is spawned last.                                                   *)
(*                                                                         *)
(* What has a namesake in StdoutCopy is named for the input or the exec.   *)
(***************************************************************************)
EXTENDS Naturals, Sequences

CONSTANTS
  MaxInputs,   \* bound on the chunks containerd writes
  InFifoSize, InPipeSize,
  MaxFails     \* bound on the starts that fail

ASSUME InConstantsAssumption ==
  MaxInputs \in Nat /\ InFifoSize \in Nat \ {0} /\ InPipeSize \in Nat \ {0} /\ MaxFails \in Nat

VARIABLES
  exec,      \* "added", "starting", "failing", "running", "exited", "draining", "deleted"
  hold,      \* the tasks' hold: "Pending", "Open" or "Released"
  fresh,     \* the hold of the tasks made by renew
  inCancel,    \* the tasks' token
  inCopy,      \* "none", "copying", "leaving" or "ended"
  writer,    \* containerd has the fifo open for writing
  inFifo, inBuf, inPipe,   \* chunks in the fifo, in the copy, in the process's pipe
  got,       \* the chunks the process has read
  eof,       \* the process has read EOF
  inWritten,   \* history: the number of chunks written
  skipped,   \* history: those that went with a failed start or an unread fifo
  closed,    \* history: CloseIO was called
  fails      \* history: the starts that failed

stdinVars == <<exec, hold, fresh, inCancel, inCopy, writer, inFifo, inBuf, inPipe, got, eof,
               inWritten, skipped, closed, fails>>
tasks == <<hold, fresh, inCancel>>
inData == <<inFifo, inBuf, inPipe, got, skipped>>
history == <<closed, fails>>

InInit ==
  /\ exec = "added" /\ hold = "Pending" /\ fresh = "Pending" /\ inCancel = FALSE
  /\ inCopy = "none" /\ writer = FALSE
  /\ inFifo = <<>> /\ inBuf = <<>> /\ inPipe = <<>> /\ got = <<>> /\ eof = FALSE
  /\ inWritten = 0 /\ skipped = 0 /\ closed = FALSE /\ fails = 0

Reader == inCopy \in {"copying", "leaving"}

(* A fifo nobody has open any more loses what is in it.                    *)
Kept(w, h, c) ==
  IF w \/ h = "Open" \/ c \in {"copying", "leaving"}
  THEN UNCHANGED <<inFifo, skipped>>
  ELSE inFifo' = <<>> /\ skipped' = skipped + Len(inFifo)

------------------------------------------------------------------------------
(* containerd: its writers come and go.                                    *)
ContainerdOpens ==
  /\ ~writer
  /\ writer' = TRUE
  /\ UNCHANGED <<tasks, inData, history, exec, inCopy, eof, inWritten>>

ContainerdWrites ==
  /\ writer /\ inWritten < MaxInputs /\ Len(inFifo) < InFifoSize
  /\ inWritten' = inWritten + 1
  /\ inFifo' = Append(inFifo, inWritten + 1)
  /\ UNCHANGED <<tasks, history, exec, inCopy, writer, inBuf, inPipe, got, eof, skipped>>

ContainerdCloses ==
  /\ writer
  /\ writer' = FALSE
  /\ Kept(FALSE, hold, inCopy)
  /\ UNCHANGED <<tasks, history, exec, inCopy, inBuf, inPipe, got, eof, inWritten>>

------------------------------------------------------------------------------
close_input == hold' = "Released"

(* close_io, under the container's lock.                                   *)
CloseIO ==
  /\ exec \in {"added", "running", "exited"}
  /\ close_input /\ closed' = TRUE
  /\ Kept(writer, "Released", inCopy)
  /\ UNCHANGED <<exec, fresh, inCancel, inCopy, writer, inBuf, inPipe, got, eof, inWritten, fails>>

(* Mutant: the copy starts without a hold on the fifo.                     *)
Mut_StartUnheld ==
  /\ exec = "added"
  /\ exec' = "starting"
  /\ hold' = "Released"
  /\ inCopy' = "copying"
  /\ UNCHANGED <<inData, history, fresh, inCancel, writer, eof, inWritten>>

(* start_exec: a new pipe, and copy_from_fifo.                             *)
StartExec ==
  /\ exec = "added"
  /\ exec' = "starting"
  /\ hold' = IF hold = "Released" THEN "Released" ELSE "Open"
  /\ inCopy' = "copying"
  /\ UNCHANGED <<inData, history, fresh, inCancel, writer, eof, inWritten>>

StartSucceeds ==
  /\ exec = "starting"
  /\ exec' = "running"
  /\ UNCHANGED <<tasks, inData, history, inCopy, writer, eof, inWritten>>

(* Mutant: fresh tasks forget the CloseIO.                                 *)
Mut_Renewed(h) == "Pending"

(* renew.                                                                  *)
Renewed(h) == IF h = "Released" THEN "Released" ELSE "Pending"

(* The failed start makes fresh tasks and aborts the old ones.             *)
StartFails ==
  /\ exec = "starting" /\ fails < MaxFails
  /\ exec' = "failing" /\ fails' = fails + 1
  /\ fresh' = Renewed(hold)
  /\ inCancel' = TRUE /\ hold' = "Released"
  /\ Kept(writer, "Released", inCopy)
  /\ UNCHANGED <<inCopy, writer, inBuf, inPipe, got, eof, inWritten, closed>>

(* abort has waited for the copy; the pipe of the failed start is gone.    *)
StartAborted ==
  /\ exec = "failing" /\ inCopy = "ended"
  /\ exec' = "added" /\ hold' = fresh /\ inCancel' = FALSE /\ inCopy' = "none"
  /\ skipped' = skipped + Len(inPipe) + Len(inBuf)
  /\ inPipe' = <<>> /\ inBuf' = <<>>
  /\ UNCHANGED <<history, fresh, writer, inFifo, got, eof, inWritten>>

------------------------------------------------------------------------------
(* The copy.                                                               *)
InCopyReads ==
  /\ inCopy = "copying" /\ inBuf = <<>> /\ inFifo # <<>>
  /\ inBuf' = <<Head(inFifo)>> /\ inFifo' = Tail(inFifo)
  /\ UNCHANGED <<tasks, history, exec, inCopy, writer, inPipe, got, eof, inWritten, skipped>>

ProcessReads == exec \in {"starting", "failing", "running"}

(* A terminal, like a pipe, takes what it has room for; a write that would *)
(* block waits until it has.                                               *)
poll_write ==
  /\ Len(inPipe) < InPipeSize
  /\ inPipe' = Append(inPipe, inBuf[1]) /\ inBuf' = <<>>

InCopyWrites ==
  /\ inCopy = "copying" /\ inBuf # <<>>
  /\ ProcessReads /\ poll_write
  /\ UNCHANGED <<tasks, history, exec, inCopy, writer, inFifo, got, eof, inWritten, skipped>>

(* EPIPE: the process is gone.                                             *)
CopyFails ==
  /\ inCopy = "copying" /\ inBuf # <<>> /\ ~ProcessReads
  /\ inCopy' = "leaving"
  /\ UNCHANGED <<tasks, inData, history, exec, writer, eof, inWritten>>

InCopyEof ==
  /\ inCopy = "copying" /\ inBuf = <<>> /\ inFifo = <<>>
  /\ ~writer /\ hold # "Open"
  /\ inCopy' = "leaving"
  /\ UNCHANGED <<tasks, inData, history, exec, writer, eof, inWritten>>

InCopyCancelled ==
  /\ inCopy = "copying" /\ inCancel
  /\ inCopy' = "leaving"
  /\ UNCHANGED <<tasks, inData, history, exec, writer, eof, inWritten>>

(* The task ends and drops the fifo's reader and the pipe's writer.        *)
InCopyEnds ==
  /\ inCopy = "leaving"
  /\ inCopy' = "ended"
  /\ Kept(writer, hold, "ended")
  /\ UNCHANGED <<tasks, history, exec, writer, inBuf, inPipe, got, eof, inWritten>>

------------------------------------------------------------------------------
(* The process.                                                            *)
ProcessTakes ==
  /\ exec = "running" /\ inPipe # <<>>
  /\ got' = Append(got, Head(inPipe)) /\ inPipe' = Tail(inPipe)
  /\ UNCHANGED <<tasks, history, exec, inCopy, writer, inFifo, inBuf, eof, inWritten, skipped>>

ProcessSeesEof ==
  /\ exec = "running" /\ inPipe = <<>> /\ inCopy = "ended" /\ ~eof
  /\ eof' = TRUE
  /\ UNCHANGED <<tasks, inData, history, exec, inCopy, writer, inWritten>>

InProcessExits ==
  /\ exec = "running"
  /\ exec' = "exited"
  /\ UNCHANGED <<tasks, inData, history, inCopy, writer, eof, inWritten>>

(* delete shuts the tasks down; the outputs' drain comes first.            *)
DeleteExec ==
  /\ exec = "exited"
  /\ exec' = "draining"
  /\ inCancel' = TRUE /\ hold' = "Released"
  /\ Kept(writer, "Released", inCopy)
  /\ UNCHANGED <<history, fresh, inCopy, writer, inBuf, inPipe, got, eof, inWritten>>

ExecDeleted ==
  /\ exec = "draining" /\ inCopy = "ended"
  /\ exec' = "deleted"
  /\ UNCHANGED <<tasks, inData, history, inCopy, writer, eof, inWritten>>

InCopyStep == InCopyReads \/ InCopyWrites \/ CopyFails \/ InCopyEof \/ InCopyEnds
InProcess == ProcessTakes \/ ProcessSeesEof \/ InProcessExits
Shim ==
  CloseIO \/ StartExec \/ StartSucceeds \/ StartFails \/ StartAborted \/ DeleteExec \/ ExecDeleted
InContainerd == ContainerdOpens \/ ContainerdWrites \/ ContainerdCloses

InNext == InCopyStep \/ InCopyCancelled \/ InProcess \/ Shim \/ InContainerd

InSpec == InInit /\ [][InNext]_stdinVars

(* The copy is a task of the runtime, a start ends, and the process is one *)
(* that reads its input; containerd promises nothing.                      *)
InFairness ==
  /\ WF_stdinVars(InCopyStep) /\ WF_stdinVars(InCopyCancelled)
  /\ WF_stdinVars(StartSucceeds \/ StartFails) /\ WF_stdinVars(StartAborted)
  /\ WF_stdinVars(ExecDeleted)
  /\ WF_stdinVars(ProcessTakes) /\ WF_stdinVars(ProcessSeesEof)

InFairSpec == InSpec /\ InFairness
------------------------------------------------------------------------------
(***************************************************************************)
(* Properties                                                              *)
(***************************************************************************)
InTypeOK ==
  /\ exec \in {"added", "starting", "failing", "running", "exited", "draining", "deleted"}
  /\ {hold, fresh} \subseteq {"Pending", "Open", "Released"}
  /\ inCopy \in {"none", "copying", "leaving", "ended"}
  /\ {inCancel, writer, eof, closed} \subseteq BOOLEAN
  /\ inFifo \in Seq(1..MaxInputs) /\ inBuf \in Seq(1..MaxInputs)
  /\ inPipe \in Seq(1..MaxInputs) /\ got \in Seq(1..MaxInputs)
  /\ Len(inFifo) <= InFifoSize /\ Len(inPipe) <= InPipeSize /\ Len(inBuf) <= 1
  /\ inWritten \in 0..MaxInputs /\ skipped \in 0..MaxInputs /\ fails \in 0..MaxFails

(* What containerd writes reaches the process in order and without a gap:  *)
(* all that is under way follows what the process has, up to the last      *)
(* chunk written, whatever comes before the process exits; and "the process*)
(* must not see EOF before CloseIO, however often containerd's writers come*)
(* and go."                                                                *)
InputKept ==
  /\ InTypeOK
  /\ exec \in {"added", "starting", "running"} /\ inCopy \in {"none", "copying"} =>
       got \o inPipe \o inBuf \o inFifo = [i \in 1..(inWritten - skipped) |-> skipped + i]
  /\ eof => closed

(* After CloseIO a process that reads its input sees EOF once containerd's *)
(* writer is gone, restarts of the exec included; and a delete does not    *)
(* wait for containerd to close its end.                                   *)
InputEnds ==
  /\ (closed /\ ~writer /\ exec = "running") ~> (eof \/ writer \/ exec # "running")
  /\ exec = "draining" ~> exec = "deleted"
==============================================================================

------------------------------- MODULE MCStdio -------------------------------
(***************************************************************************)
(* An input and an output, for TLC.  They share no state, and a property   *)
(* is about one of them: each is followed while the other is at rest.      *)
(* The steps are listed one by one, so that TLC counts each.               *)
(***************************************************************************)
EXTENDS StdinCopy, StdoutCopy

Input(Step) == Step /\ Init /\ UNCHANGED vars
Output(Step) == Step /\ InInit /\ UNCHANGED stdinVars

StdioInit == InInit /\ Init

InputNext ==
  \/ Input(InCopyReads) \/ Input(InCopyWrites) \/ Input(CopyFails)
  \/ Input(InCopyEof) \/ Input(InCopyEnds) \/ Input(InCopyCancelled)
  \/ Input(ProcessTakes) \/ Input(ProcessSeesEof) \/ Input(InProcessExits)
  \/ Input(CloseIO) \/ Input(StartExec) \/ Input(StartSucceeds)
  \/ Input(StartFails) \/ Input(StartAborted) \/ Input(DeleteExec)
  \/ Input(ExecDeleted)
  \/ Input(ContainerdOpens) \/ Input(ContainerdWrites) \/ Input(ContainerdCloses)

OutputNext ==
  \/ Output(create_io) \/ Output(Listen) \/ Output(Spawn) \/ Output(Executed)
  \/ Output(attach_console) \/ Output(Started) \/ Output(StartFailed)
  \/ Output(RuncStarts) \/ Output(RuncExits)
  \/ Output(CopyReads) \/ Output(CopyWrites) \/ Output(CopyEof)
  \/ Output(CopyEnds) \/ Output(CopyCancelled)
  \/ Output(ProcessForks) \/ Output(ProcessWrites) \/ Output(ProcessExits)
  \/ Output(KidExits)
  \/ Output(ContainerdReads) \/ Output(ContainerdLeaves)
  \/ Output(ContainerdReturns) \/ Output(Delete)
  \/ Output(Drained) \/ Output(DrainExpires) \/ Output(DeleteReturns)

StdioNext == InputNext \/ OutputNext

StdioSpec == StdioInit /\ [][StdioNext]_<<stdinVars, vars>> /\ InFairness /\ Fairness
==============================================================================

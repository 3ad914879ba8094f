---------------------------- MODULE StdoutProofs ----------------------------
(***************************************************************************)
(* Theorems about StdoutCopy, for any number of chunks, any capacities and *)
(* any failures of the model.                                              *)
(***************************************************************************)
EXTENDS StdoutCopy, SequenceTheorems, TLAPS

(* How far the start is: who may have the writing end of the output, and   *)
(* what there is of runc, the process, the socket and the copy.            *)
StartInv ==
  /\ start = "io" => ends = {} /\ runc = "none"
  /\ start = "launch" => runc = "none" /\ ends = IF terminal THEN {} ELSE {"shim"}
  /\ runc = "running" => start = "running" /\ (terminal \/ "runc" \in ends)
  /\ runc = "none" => proc = "unborn" /\ start \in {"io", "launch", "failing", "failed"}
  /\ start = "attach" => terminal
  /\ "shim" \in ends => start \in {"launch", "running"}
  /\ "command" \in ends => start = "running"
  /\ "runc" \in ends => runc = "running"
  /\ "kid" \in ends => proc # "unborn"
  /\ "process" \in ends <=> proc = "running"

(* A socket there is belongs to a start that still waits for the terminal. *)
ConsoleInv ==
  /\ ~terminal => console = "none"
  /\ start \in {"pid", "started", "failing", "failed"} => console \notin {"listening", "sent"}

(* Who cancels the copy, and who has waited for it.                        *)
ShutdownInv ==
  /\ cancel <=> start \in {"failing", "failed"} \/ delete \in {"aborting", "returned"}
  /\ delete # "none" => start = "started"
  /\ delete = "returned" => copy = "ended"

(* The hold on the fifo is that of a copy; before a copy nothing moves.    *)
CopyInv ==
  /\ held <=> copy \in {"copying", "leaving"}
  /\ start = "io" \/ (terminal /\ start \in {"launch", "running", "attach"}) => copy = "none"
  /\ copy = "none" => buf = <<>> /\ fifo = <<>> /\ delivered = <<>>
  /\ start = "failed" => copy \in {"none", "ended"}

(* As long as no copy is cut short all chunks are there, in order; a copy  *)
(* that ends has left none behind.                                         *)
Undisturbed == ~cancel \/ (delete \in {"aborting", "returned"} /\ ~expired)
Ended == ends = {} /\ pipe = <<>> /\ buf = <<>>
Whole == delivered \o fifo \o buf \o pipe = Numbers(written)

FlowInv ==
  /\ delete \in {"aborting", "returned"} /\ ~expired => copy = "ended"
  /\ ~cancel /\ copy # "ended" => Whole
  /\ Undisturbed /\ copy \in {"leaving", "ended"} => Ended
  /\ Undisturbed /\ copy = "ended" /\ ~away => delivered \o fifo = Numbers(written)

IInv == TypeOK /\ StartInv /\ ConsoleInv /\ ShutdownInv /\ CopyInv /\ FlowInv
-----------------------------------------------------------------------------
(* A chunk that moves from the head of a sequence to the end of the one    *)
(* before it leaves the chunks of both as they are.                        *)
LEMMA Moved ==
  ASSUME NEW S, NEW s \in Seq(S), NEW t \in Seq(S), t # <<>>
  PROVE  /\ Head(t) \in S /\ Tail(t) \in Seq(S) /\ <<Head(t)>> \in Seq(S)
         /\ Len(t) \in Nat \ {0} /\ Len(Tail(t)) = Len(t) - 1
         /\ Append(s, Head(t)) \o Tail(t) = s \o t
<1>1. Head(t) \in S /\ Tail(t) \in Seq(S) /\ <<Head(t)>> \in Seq(S) /\ Len(t) \in Nat \ {0}
        /\ Len(Tail(t)) = Len(t) - 1
  BY HeadTailProperties, EmptySeq
<1>2. t = <<Head(t)>> \o Tail(t)
  BY <1>1
<1>3. Append(s, Head(t)) = s \o <<Head(t)>>
  BY <1>1, AppendIsConcat
<1>4. (s \o <<Head(t)>>) \o Tail(t) = s \o (<<Head(t)>> \o Tail(t))
  BY <1>1, ConcatAssociative
<1> QED
  BY <1>1, <1>2, <1>3, <1>4

(* A sequence of at most one element is empty or is that element.          *)
LEMMA Single ==
  ASSUME NEW S, NEW s \in Seq(S), s # <<>>, Len(s) <= 1
  PROVE  s[1] \in S /\ s = <<s[1]>> /\ Len(s) = 1
<1>1. Len(s) \in Nat \ {0}
  BY HeadTailProperties
<1>2. Len(s) = 1 /\ 1 \in 1..Len(s)
  <2>1. \A n \in Nat \ {0} : n <= 1 => n = 1 /\ 1 \in 1..n
    OBVIOUS
  <2> QED
    BY <1>1, <2>1, Zenon
<1>3. s[1] \in S
  BY <1>2, ElementOfSeq
<1>4. <<s[1]>> \in Seq(S) /\ Len(<<s[1]>>) = 1 /\ <<s[1]>>[1] = s[1]
  BY <1>3
<1> QED
  BY <1>2, <1>3, <1>4, SeqEqual

(* To append to the second of two sequences is to append to both together. *)
LEMMA Joined ==
  ASSUME NEW S, NEW s \in Seq(S), NEW t \in Seq(S), NEW e \in S
  PROVE  /\ s \o t \in Seq(S)
         /\ s \o Append(t, e) = Append(s \o t, e)
         /\ s \o Append(t, e) = (s \o t) \o <<e>>
<1>1. s \o t \in Seq(S) /\ <<e>> \in Seq(S)
  BY ConcatProperties
<1>2. Append(t, e) = t \o <<e>> /\ Append(s \o t, e) = (s \o t) \o <<e>>
  BY <1>1, AppendIsConcat
<1>3. s \o (t \o <<e>>) = (s \o t) \o <<e>>
  BY <1>1, ConcatAssociative
<1> QED
  BY <1>1, <1>2, <1>3

(* The next chunk has the next number.                                     *)
LEMMA NextNumber ==
  ASSUME NEW n \in Nat
  PROVE  Append(Numbers(n), n + 1) = Numbers(n + 1)
<1>1. Numbers(n) \in Seq(Nat) /\ Len(Numbers(n)) = n
  BY DEF Numbers
<1> DEFINE s == Append(Numbers(n), n + 1)
<1>2. /\ s \in Seq(Nat) /\ Len(s) = n + 1
      /\ \A i \in 1..n : s[i] = Numbers(n)[i] /\ s[n + 1] = n + 1
  BY <1>1, AppendProperties
<1> QED
  BY <1>1, <1>2, SeqEqual DEF Numbers
(* A step keeps the types and the capacities.                              *)
LEMMA TypeStep ==
  ASSUME TypeOK, [Next]_vars
  PROVE  TypeOK'
<1>create_io. ASSUME create_io PROVE TypeOK'
  BY <1>create_io DEF create_io, copy_io, PipedIo, CopyStarts, hold_fifo, Fails, launch, data,
     copying, TypeOK
<1>Listen. ASSUME Listen PROVE TypeOK'
  BY <1>Listen DEF Listen, Fails, launch, process, data, copying, TypeOK
<1>Spawn. ASSUME Spawn PROVE TypeOK'
  BY <1>Spawn DEF Spawn, SetIo, launch, data, copying, shutdown, TypeOK
<1>Executed. ASSUME Executed PROVE TypeOK'
  BY <1>Executed DEF Executed, close_after_start, Dropped, Fails, clean, data, copying, TypeOK
<1>attach_console. ASSUME attach_console PROVE TypeOK'
  BY <1>attach_console DEF attach_console, copy_console, receive_socket, CopyStarts, hold_fifo,
     Fails, clean, process, data, copying, TypeOK
<1>Started. ASSUME Started PROVE TypeOK'
  BY <1>Started DEF Started, Fails, process, data, copying, TypeOK
<1>StartFailed. ASSUME StartFailed PROVE TypeOK'
  BY <1>StartFailed DEF StartFailed, process, data, copying, shutdown, TypeOK
<1>RuncStarts. ASSUME RuncStarts PROVE TypeOK'
  BY <1>RuncStarts DEF RuncStarts, process, data, copying, shutdown, TypeOK
<1>RuncExits. ASSUME RuncExits PROVE TypeOK'
  BY <1>RuncExits DEF RuncExits, process, data, copying, shutdown, TypeOK
<1>CopyReads. ASSUME CopyReads PROVE TypeOK'
  <2>1. /\ <<Head(pipe)>> \in Seq(1..MaxWrites) /\ Len(<<Head(pipe)>>) = 1
        /\ Tail(pipe) \in Seq(1..MaxWrites) /\ Len(Tail(pipe)) = Len(pipe) - 1 /\ Len(pipe) \in Nat
    BY <1>CopyReads, Moved DEF CopyReads, TypeOK
  <2> QED
    BY <1>CopyReads, <2>1, ConstantsAssumption DEF CopyReads, process, copying, shutdown,
       launch, TypeOK
<1>CopyWrites. ASSUME CopyWrites PROVE TypeOK'
  <2>1. CASE reader \/ held
    <3>1. buf[1] \in 1..MaxWrites /\ Len(fifo) < FifoSize /\ fifo' = Append(fifo, buf[1]) /\ buf' = <<>>
      BY <1>CopyWrites, <2>1, Single DEF CopyWrites, TypeOK
    <3>2. fifo' \in Seq(1..MaxWrites) /\ Len(fifo') = Len(fifo) + 1 /\ Len(fifo) \in Nat
      BY <3>1, AppendProperties DEF TypeOK
    <3> QED
      BY <1>CopyWrites, <3>1, <3>2, ConstantsAssumption DEF CopyWrites, process, shutdown,
         launch, TypeOK
  <2>2. CASE ~(reader \/ held)
    BY <1>CopyWrites, <2>2 DEF CopyWrites, process, shutdown, launch, TypeOK
  <2> QED
    BY <2>1, <2>2
<1>CopyEof. ASSUME CopyEof PROVE TypeOK'
  BY <1>CopyEof DEF CopyEof, launch, process, data, copying, shutdown, TypeOK
<1>CopyEnds. ASSUME CopyEnds PROVE TypeOK'
  <2>1. <<>> \in Seq(1..MaxWrites) /\ Len(<<>>) = 0
    BY EmptySeq
  <2>2. away' \in BOOLEAN /\ fifo' \in {fifo, <<>>}
    BY <1>CopyEnds DEF CopyEnds, Emptied, TypeOK
  <2>3. Len(fifo') <= FifoSize /\ fifo' \in Seq(1..MaxWrites)
    <3>1. FifoSize \in Nat /\ 0 <= FifoSize
      BY ConstantsAssumption
    <3> QED
      BY <2>1, <2>2, <3>1 DEF TypeOK
  <2> QED
    BY <1>CopyEnds, <2>2, <2>3 DEF CopyEnds, process, data, copying, shutdown, launch, TypeOK
<1>CopyCancelled. ASSUME CopyCancelled PROVE TypeOK'
  BY <1>CopyCancelled DEF CopyCancelled, launch, process, data, copying, shutdown, TypeOK
<1>ProcessForks. ASSUME ProcessForks PROVE TypeOK'
  BY <1>ProcessForks DEF ProcessForks, launch, data, copying, shutdown, TypeOK
<1>ProcessWrites. ASSUME ProcessWrites PROVE TypeOK'
  <2>1. written + 1 \in 1..MaxWrites /\ Len(pipe) \in Nat
    BY <1>ProcessWrites, ConstantsAssumption, LenProperties DEF ProcessWrites, TypeOK
  <2>2. pipe' \in Seq(1..MaxWrites) /\ Len(pipe') = Len(pipe) + 1
    BY <1>ProcessWrites, <2>1, AppendProperties DEF ProcessWrites, TypeOK
  <2> QED
    BY <1>ProcessWrites, <2>1, <2>2, ConstantsAssumption DEF ProcessWrites, copying, shutdown,
       launch, TypeOK
<1>ProcessExits. ASSUME ProcessExits PROVE TypeOK'
  BY <1>ProcessExits DEF ProcessExits, launch, process, data, copying, shutdown, TypeOK
<1>KidExits. ASSUME KidExits PROVE TypeOK'
  BY <1>KidExits DEF KidExits, launch, data, copying, shutdown, TypeOK
<1>ContainerdReads. ASSUME ContainerdReads PROVE TypeOK'
  <2>1. /\ delivered' \in Seq(1..MaxWrites) /\ fifo' \in Seq(1..MaxWrites)
        /\ Len(fifo') = Len(fifo) - 1 /\ Len(fifo) \in Nat
    BY <1>ContainerdReads, Moved, AppendProperties DEF ContainerdReads, TypeOK
  <2> QED
    BY <1>ContainerdReads, <2>1, ConstantsAssumption DEF ContainerdReads, process, copying,
       shutdown, launch, TypeOK
<1>ContainerdLeaves. ASSUME ContainerdLeaves PROVE TypeOK'
  <2>1. <<>> \in Seq(1..MaxWrites) /\ Len(<<>>) = 0
    BY EmptySeq
  <2>2. away' \in BOOLEAN /\ fifo' \in {fifo, <<>>}
    BY <1>ContainerdLeaves DEF ContainerdLeaves, Emptied, TypeOK
  <2>3. Len(fifo') <= FifoSize /\ fifo' \in Seq(1..MaxWrites)
    <3>1. FifoSize \in Nat /\ 0 <= FifoSize
      BY ConstantsAssumption
    <3> QED
      BY <2>1, <2>2, <3>1 DEF TypeOK
  <2> QED
    BY <1>ContainerdLeaves, <2>2, <2>3 DEF ContainerdLeaves, process, data, copying, shutdown,
       launch, TypeOK
<1>ContainerdReturns. ASSUME ContainerdReturns PROVE TypeOK'
  BY <1>ContainerdReturns DEF ContainerdReturns, launch, process, data, copying, shutdown, TypeOK
<1>Delete. ASSUME Delete PROVE TypeOK'
  BY <1>Delete DEF Delete, launch, process, data, copying, TypeOK
<1>Drained. ASSUME Drained PROVE TypeOK'
  BY <1>Drained DEF Drained, launch, process, data, copying, TypeOK
<1>DrainExpires. ASSUME DrainExpires PROVE TypeOK'
  BY <1>DrainExpires DEF DrainExpires, launch, process, data, copying, TypeOK
<1>DeleteReturns. ASSUME DeleteReturns PROVE TypeOK'
  BY <1>DeleteReturns DEF DeleteReturns, launch, process, data, copying, TypeOK
<1>Stutter. ASSUME UNCHANGED vars PROVE TypeOK'
  BY <1>Stutter DEF vars, TypeOK
<1> QED
  BY <1>create_io, <1>Listen, <1>Spawn, <1>Executed, <1>attach_console, <1>Started,
     <1>StartFailed, <1>RuncStarts, <1>RuncExits, <1>CopyReads, <1>CopyWrites, <1>CopyEof,
     <1>CopyEnds, <1>CopyCancelled, <1>ProcessForks, <1>ProcessWrites, <1>ProcessExits,
     <1>KidExits, <1>ContainerdReads, <1>ContainerdLeaves, <1>ContainerdReturns, <1>Delete,
     <1>Drained, <1>DrainExpires, <1>DeleteReturns, <1>Stutter
  DEF Next, Start, Copy, Process, Containerd, Shutdown

(* A step keeps who may have the writing end in line with how far the start*)
(* is: whoever gets it has it from runc or the process.                    *)
LEMMA StartStep ==
  ASSUME TypeOK, StartInv, CopyInv, [Next]_vars
  PROVE  StartInv'
<1>create_io. ASSUME create_io PROVE StartInv'
  BY <1>create_io DEF create_io, copy_io, PipedIo, CopyStarts, hold_fifo, Fails, launch, data,
     copying, StartInv
<1>Listen. ASSUME Listen PROVE StartInv'
  BY <1>Listen DEF Listen, Fails, launch, process, data, copying, StartInv
<1>Spawn. ASSUME Spawn PROVE StartInv'
  BY <1>Spawn DEF Spawn, SetIo, launch, data, copying, shutdown, StartInv
<1>Executed. ASSUME Executed PROVE StartInv'
  BY <1>Executed DEF Executed, close_after_start, Dropped, Fails, clean, data, copying, StartInv
<1>attach_console. ASSUME attach_console PROVE StartInv'
  BY <1>attach_console DEF attach_console, copy_console, receive_socket, CopyStarts, hold_fifo,
     Fails, clean, process, data, copying, StartInv
<1>Started. ASSUME Started PROVE StartInv'
  BY <1>Started DEF Started, Fails, process, data, copying, StartInv
<1>StartFailed. ASSUME StartFailed PROVE StartInv'
  BY <1>StartFailed DEF StartFailed, process, data, copying, shutdown, StartInv
<1>RuncStarts. ASSUME RuncStarts PROVE StartInv'
  BY <1>RuncStarts DEF RuncStarts, process, data, copying, shutdown, StartInv
<1>RuncExits. ASSUME RuncExits PROVE StartInv'
  BY <1>RuncExits DEF RuncExits, process, data, copying, shutdown, StartInv
<1>CopyReads. ASSUME CopyReads PROVE StartInv'
  BY <1>CopyReads DEF CopyReads, launch, process, copying, shutdown, StartInv
<1>CopyWrites. ASSUME CopyWrites PROVE StartInv'
  BY <1>CopyWrites DEF CopyWrites, launch, process, copying, shutdown, StartInv
<1>CopyEof. ASSUME CopyEof PROVE StartInv'
  BY <1>CopyEof DEF CopyEof, launch, process, data, copying, shutdown, StartInv
<1>CopyEnds. ASSUME CopyEnds PROVE StartInv'
  BY <1>CopyEnds DEF CopyEnds, Emptied, launch, process, shutdown, StartInv
<1>CopyCancelled. ASSUME CopyCancelled PROVE StartInv'
  BY <1>CopyCancelled DEF CopyCancelled, launch, process, data, copying, shutdown, StartInv
<1>ProcessForks. ASSUME ProcessForks PROVE StartInv'
  BY <1>ProcessForks DEF ProcessForks, launch, data, copying, shutdown, StartInv
<1>ProcessWrites. ASSUME ProcessWrites PROVE StartInv'
  BY <1>ProcessWrites DEF ProcessWrites, launch, process, copying, shutdown, StartInv
<1>ProcessExits. ASSUME ProcessExits PROVE StartInv'
  BY <1>ProcessExits DEF ProcessExits, launch, process, data, copying, shutdown, StartInv
<1>KidExits. ASSUME KidExits PROVE StartInv'
  BY <1>KidExits DEF KidExits, launch, data, copying, shutdown, StartInv
<1>ContainerdReads. ASSUME ContainerdReads PROVE StartInv'
  BY <1>ContainerdReads DEF ContainerdReads, launch, process, copying, shutdown, StartInv
<1>ContainerdLeaves. ASSUME ContainerdLeaves PROVE StartInv'
  BY <1>ContainerdLeaves DEF ContainerdLeaves, Emptied, launch, process, shutdown, StartInv
<1>ContainerdReturns. ASSUME ContainerdReturns PROVE StartInv'
  BY <1>ContainerdReturns DEF ContainerdReturns, launch, process, data, copying, shutdown,
     StartInv
<1>Delete. ASSUME Delete PROVE StartInv'
  BY <1>Delete DEF Delete, launch, process, data, copying, StartInv
<1>Drained. ASSUME Drained PROVE StartInv'
  BY <1>Drained DEF Drained, launch, process, data, copying, StartInv
<1>DrainExpires. ASSUME DrainExpires PROVE StartInv'
  BY <1>DrainExpires DEF DrainExpires, launch, process, data, copying, StartInv
<1>DeleteReturns. ASSUME DeleteReturns PROVE StartInv'
  BY <1>DeleteReturns DEF DeleteReturns, launch, process, data, copying, StartInv
<1>Stutter. ASSUME UNCHANGED vars PROVE StartInv'
  BY <1>Stutter DEF vars, StartInv
<1> QED
  BY <1>create_io, <1>Listen, <1>Spawn, <1>Executed, <1>attach_console, <1>Started,
     <1>StartFailed, <1>RuncStarts, <1>RuncExits, <1>CopyReads, <1>CopyWrites, <1>CopyEof,
     <1>CopyEnds, <1>CopyCancelled, <1>ProcessForks, <1>ProcessWrites, <1>ProcessExits,
     <1>KidExits, <1>ContainerdReads, <1>ContainerdLeaves, <1>ContainerdReturns, <1>Delete,
     <1>Drained, <1>DrainExpires, <1>DeleteReturns, <1>Stutter
  DEF Next, Start, Copy, Process, Containerd, Shutdown

(* Only a start that waits for its terminal has a console socket.          *)
LEMMA ConsoleStep ==
  ASSUME StartInv, ConsoleInv, [Next]_vars
  PROVE  ConsoleInv'
<1>create_io. ASSUME create_io PROVE ConsoleInv'
  BY <1>create_io DEF create_io, copy_io, PipedIo, CopyStarts, hold_fifo, Fails, launch, data,
     copying, ConsoleInv
<1>Listen. ASSUME Listen PROVE ConsoleInv'
  BY <1>Listen DEF Listen, Fails, launch, process, data, copying, ConsoleInv
<1>Spawn. ASSUME Spawn PROVE ConsoleInv'
  BY <1>Spawn DEF Spawn, SetIo, launch, data, copying, shutdown, ConsoleInv
<1>Executed. ASSUME Executed PROVE ConsoleInv'
  BY <1>Executed DEF Executed, close_after_start, Dropped, Fails, clean, data, copying, ConsoleInv
<1>attach_console. ASSUME attach_console PROVE ConsoleInv'
  BY <1>attach_console DEF attach_console, copy_console, receive_socket, CopyStarts, hold_fifo,
     Fails, clean, process, data, copying, ConsoleInv
<1>Started. ASSUME Started PROVE ConsoleInv'
  BY <1>Started DEF Started, Fails, process, data, copying, ConsoleInv
<1>StartFailed. ASSUME StartFailed PROVE ConsoleInv'
  BY <1>StartFailed DEF StartFailed, process, data, copying, shutdown, ConsoleInv
<1>RuncStarts. ASSUME RuncStarts PROVE ConsoleInv'
  BY <1>RuncStarts DEF RuncStarts, process, data, copying, shutdown, StartInv, ConsoleInv
<1>RuncExits. ASSUME RuncExits PROVE ConsoleInv'
  BY <1>RuncExits DEF RuncExits, process, data, copying, shutdown, ConsoleInv
<1>CopyReads. ASSUME CopyReads PROVE ConsoleInv'
  BY <1>CopyReads DEF CopyReads, launch, process, copying, shutdown, ConsoleInv
<1>CopyWrites. ASSUME CopyWrites PROVE ConsoleInv'
  BY <1>CopyWrites DEF CopyWrites, launch, process, copying, shutdown, ConsoleInv
<1>CopyEof. ASSUME CopyEof PROVE ConsoleInv'
  BY <1>CopyEof DEF CopyEof, launch, process, data, copying, shutdown, ConsoleInv
<1>CopyEnds. ASSUME CopyEnds PROVE ConsoleInv'
  BY <1>CopyEnds DEF CopyEnds, Emptied, launch, process, shutdown, ConsoleInv
<1>CopyCancelled. ASSUME CopyCancelled PROVE ConsoleInv'
  BY <1>CopyCancelled DEF CopyCancelled, launch, process, data, copying, shutdown, ConsoleInv
<1>ProcessForks. ASSUME ProcessForks PROVE ConsoleInv'
  BY <1>ProcessForks DEF ProcessForks, launch, data, copying, shutdown, ConsoleInv
<1>ProcessWrites. ASSUME ProcessWrites PROVE ConsoleInv'
  BY <1>ProcessWrites DEF ProcessWrites, launch, process, copying, shutdown, ConsoleInv
<1>ProcessExits. ASSUME ProcessExits PROVE ConsoleInv'
  BY <1>ProcessExits DEF ProcessExits, launch, process, data, copying, shutdown, ConsoleInv
<1>KidExits. ASSUME KidExits PROVE ConsoleInv'
  BY <1>KidExits DEF KidExits, launch, data, copying, shutdown, ConsoleInv
<1>ContainerdReads. ASSUME ContainerdReads PROVE ConsoleInv'
  BY <1>ContainerdReads DEF ContainerdReads, launch, process, copying, shutdown, ConsoleInv
<1>ContainerdLeaves. ASSUME ContainerdLeaves PROVE ConsoleInv'
  BY <1>ContainerdLeaves DEF ContainerdLeaves, Emptied, launch, process, shutdown, ConsoleInv
<1>ContainerdReturns. ASSUME ContainerdReturns PROVE ConsoleInv'
  BY <1>ContainerdReturns DEF ContainerdReturns, launch, process, data, copying, shutdown,
     ConsoleInv
<1>Delete. ASSUME Delete PROVE ConsoleInv'
  BY <1>Delete DEF Delete, launch, process, data, copying, ConsoleInv
<1>Drained. ASSUME Drained PROVE ConsoleInv'
  BY <1>Drained DEF Drained, launch, process, data, copying, ConsoleInv
<1>DrainExpires. ASSUME DrainExpires PROVE ConsoleInv'
  BY <1>DrainExpires DEF DrainExpires, launch, process, data, copying, ConsoleInv
<1>DeleteReturns. ASSUME DeleteReturns PROVE ConsoleInv'
  BY <1>DeleteReturns DEF DeleteReturns, launch, process, data, copying, ConsoleInv
<1>Stutter. ASSUME UNCHANGED vars PROVE ConsoleInv'
  BY <1>Stutter DEF vars, ConsoleInv
<1> QED
  BY <1>create_io, <1>Listen, <1>Spawn, <1>Executed, <1>attach_console, <1>Started,
     <1>StartFailed, <1>RuncStarts, <1>RuncExits, <1>CopyReads, <1>CopyWrites, <1>CopyEof,
     <1>CopyEnds, <1>CopyCancelled, <1>ProcessForks, <1>ProcessWrites, <1>ProcessExits,
     <1>KidExits, <1>ContainerdReads, <1>ContainerdLeaves, <1>ContainerdReturns, <1>Delete,
     <1>Drained, <1>DrainExpires, <1>DeleteReturns, <1>Stutter
  DEF Next, Start, Copy, Process, Containerd, Shutdown

(* The copy is cancelled by a start that fails or by a delete, and a delete*)
(* answers when the copy has ended.                                        *)
LEMMA ShutdownStep ==
  ASSUME TypeOK, ShutdownInv, [Next]_vars
  PROVE  ShutdownInv'
<1>create_io. ASSUME create_io PROVE ShutdownInv'
  BY <1>create_io DEF create_io, copy_io, PipedIo, CopyStarts, hold_fifo, Fails, launch, data,
     copying, ShutdownInv
<1>Listen. ASSUME Listen PROVE ShutdownInv'
  BY <1>Listen DEF Listen, Fails, launch, process, data, copying, ShutdownInv
<1>Spawn. ASSUME Spawn PROVE ShutdownInv'
  BY <1>Spawn DEF Spawn, SetIo, launch, data, copying, shutdown, ShutdownInv
<1>Executed. ASSUME Executed PROVE ShutdownInv'
  BY <1>Executed DEF Executed, close_after_start, Dropped, Fails, clean, data, copying,
     ShutdownInv
<1>attach_console. ASSUME attach_console PROVE ShutdownInv'
  BY <1>attach_console DEF attach_console, copy_console, receive_socket, CopyStarts, hold_fifo,
     Fails, clean, process, data, copying, ShutdownInv
<1>Started. ASSUME Started PROVE ShutdownInv'
  BY <1>Started DEF Started, Fails, process, data, copying, ShutdownInv
<1>StartFailed. ASSUME StartFailed PROVE ShutdownInv'
  BY <1>StartFailed DEF StartFailed, process, data, copying, shutdown, ShutdownInv
<1>RuncStarts. ASSUME RuncStarts PROVE ShutdownInv'
  BY <1>RuncStarts DEF RuncStarts, process, data, copying, shutdown, ShutdownInv
<1>RuncExits. ASSUME RuncExits PROVE ShutdownInv'
  BY <1>RuncExits DEF RuncExits, process, data, copying, shutdown, ShutdownInv
<1>CopyReads. ASSUME CopyReads PROVE ShutdownInv'
  BY <1>CopyReads DEF CopyReads, launch, process, copying, shutdown, ShutdownInv
<1>CopyWrites. ASSUME CopyWrites PROVE ShutdownInv'
  BY <1>CopyWrites DEF CopyWrites, launch, process, copying, shutdown, ShutdownInv
<1>CopyEof. ASSUME CopyEof PROVE ShutdownInv'
  BY <1>CopyEof DEF CopyEof, launch, process, data, copying, shutdown, ShutdownInv
<1>CopyEnds. ASSUME CopyEnds PROVE ShutdownInv'
  BY <1>CopyEnds DEF CopyEnds, Emptied, launch, process, shutdown, ShutdownInv
<1>CopyCancelled. ASSUME CopyCancelled PROVE ShutdownInv'
  BY <1>CopyCancelled DEF CopyCancelled, launch, process, data, copying, shutdown, ShutdownInv
<1>ProcessForks. ASSUME ProcessForks PROVE ShutdownInv'
  BY <1>ProcessForks DEF ProcessForks, launch, data, copying, shutdown, ShutdownInv
<1>ProcessWrites. ASSUME ProcessWrites PROVE ShutdownInv'
  BY <1>ProcessWrites DEF ProcessWrites, launch, process, copying, shutdown, ShutdownInv
<1>ProcessExits. ASSUME ProcessExits PROVE ShutdownInv'
  BY <1>ProcessExits DEF ProcessExits, launch, process, data, copying, shutdown, ShutdownInv
<1>KidExits. ASSUME KidExits PROVE ShutdownInv'
  BY <1>KidExits DEF KidExits, launch, data, copying, shutdown, ShutdownInv
<1>ContainerdReads. ASSUME ContainerdReads PROVE ShutdownInv'
  BY <1>ContainerdReads DEF ContainerdReads, launch, process, copying, shutdown, ShutdownInv
<1>ContainerdLeaves. ASSUME ContainerdLeaves PROVE ShutdownInv'
  BY <1>ContainerdLeaves DEF ContainerdLeaves, Emptied, launch, process, shutdown, ShutdownInv
<1>ContainerdReturns. ASSUME ContainerdReturns PROVE ShutdownInv'
  BY <1>ContainerdReturns DEF ContainerdReturns, launch, process, data, copying, shutdown,
     ShutdownInv
<1>Delete. ASSUME Delete PROVE ShutdownInv'
  BY <1>Delete DEF Delete, launch, process, data, copying, ShutdownInv
<1>Drained. ASSUME Drained PROVE ShutdownInv'
  BY <1>Drained DEF Drained, launch, process, data, copying, ShutdownInv
<1>DrainExpires. ASSUME DrainExpires PROVE ShutdownInv'
  BY <1>DrainExpires DEF DrainExpires, launch, process, data, copying, ShutdownInv
<1>DeleteReturns. ASSUME DeleteReturns PROVE ShutdownInv'
  BY <1>DeleteReturns DEF DeleteReturns, launch, process, data, copying, ShutdownInv
<1>Stutter. ASSUME UNCHANGED vars PROVE ShutdownInv'
  BY <1>Stutter DEF vars, ShutdownInv
<1> QED
  BY <1>create_io, <1>Listen, <1>Spawn, <1>Executed, <1>attach_console, <1>Started,
     <1>StartFailed, <1>RuncStarts, <1>RuncExits, <1>CopyReads, <1>CopyWrites, <1>CopyEof,
     <1>CopyEnds, <1>CopyCancelled, <1>ProcessForks, <1>ProcessWrites, <1>ProcessExits,
     <1>KidExits, <1>ContainerdReads, <1>ContainerdLeaves, <1>ContainerdReturns, <1>Delete,
     <1>Drained, <1>DrainExpires, <1>DeleteReturns, <1>Stutter
  DEF Next, Start, Copy, Process, Containerd, Shutdown

(* The shim holds the fifo exactly as long as the copy lasts, and the copy *)
(* begins once, in a start.                                                *)
LEMMA CopyStep ==
  ASSUME TypeOK, CopyInv, ShutdownInv, FlowInv, [Next]_vars
  PROVE  CopyInv'
<1>create_io. ASSUME create_io PROVE CopyInv'
  BY <1>create_io DEF create_io, copy_io, PipedIo, CopyStarts, hold_fifo, Fails, launch, data,
     copying, CopyInv
<1>Listen. ASSUME Listen PROVE CopyInv'
  BY <1>Listen DEF Listen, Fails, launch, process, data, copying, CopyInv
<1>Spawn. ASSUME Spawn PROVE CopyInv'
  BY <1>Spawn DEF Spawn, SetIo, launch, data, copying, shutdown, CopyInv
<1>Executed. ASSUME Executed PROVE CopyInv'
  BY <1>Executed DEF Executed, close_after_start, Dropped, Fails, clean, data, copying, CopyInv
<1>attach_console. ASSUME attach_console PROVE CopyInv'
  BY <1>attach_console DEF attach_console, copy_console, receive_socket, CopyStarts, hold_fifo,
     Fails, clean, process, data, copying, CopyInv
<1>Started. ASSUME Started PROVE CopyInv'
  BY <1>Started DEF Started, Fails, process, data, copying, CopyInv
<1>StartFailed. ASSUME StartFailed PROVE CopyInv'
  BY <1>StartFailed DEF StartFailed, process, data, copying, shutdown, CopyInv
<1>RuncStarts. ASSUME RuncStarts PROVE CopyInv'
  BY <1>RuncStarts DEF RuncStarts, process, data, copying, shutdown, CopyInv
<1>RuncExits. ASSUME RuncExits PROVE CopyInv'
  BY <1>RuncExits DEF RuncExits, process, data, copying, shutdown, CopyInv
<1>CopyReads. ASSUME CopyReads PROVE CopyInv'
  BY <1>CopyReads DEF CopyReads, launch, process, copying, shutdown, CopyInv
<1>CopyWrites. ASSUME CopyWrites PROVE CopyInv'
  BY <1>CopyWrites DEF CopyWrites, launch, process, copying, shutdown, CopyInv
<1>CopyEof. ASSUME CopyEof PROVE CopyInv'
  BY <1>CopyEof DEF CopyEof, launch, process, data, copying, shutdown, CopyInv
<1>CopyEnds. ASSUME CopyEnds PROVE CopyInv'
  BY <1>CopyEnds DEF CopyEnds, Emptied, launch, process, shutdown, CopyInv
<1>CopyCancelled. ASSUME CopyCancelled PROVE CopyInv'
  BY <1>CopyCancelled DEF CopyCancelled, launch, process, data, copying, shutdown, CopyInv
<1>ProcessForks. ASSUME ProcessForks PROVE CopyInv'
  BY <1>ProcessForks DEF ProcessForks, launch, data, copying, shutdown, CopyInv
<1>ProcessWrites. ASSUME ProcessWrites PROVE CopyInv'
  BY <1>ProcessWrites DEF ProcessWrites, launch, process, copying, shutdown, CopyInv
<1>ProcessExits. ASSUME ProcessExits PROVE CopyInv'
  BY <1>ProcessExits DEF ProcessExits, launch, process, data, copying, shutdown, CopyInv
<1>KidExits. ASSUME KidExits PROVE CopyInv'
  BY <1>KidExits DEF KidExits, launch, data, copying, shutdown, CopyInv
<1>ContainerdReads. ASSUME ContainerdReads PROVE CopyInv'
  BY <1>ContainerdReads DEF ContainerdReads, launch, process, copying, shutdown, CopyInv
<1>ContainerdLeaves. ASSUME ContainerdLeaves PROVE CopyInv'
  BY <1>ContainerdLeaves DEF ContainerdLeaves, Emptied, launch, process, shutdown, CopyInv
<1>ContainerdReturns. ASSUME ContainerdReturns PROVE CopyInv'
  BY <1>ContainerdReturns DEF ContainerdReturns, launch, process, data, copying, shutdown, CopyInv
<1>Delete. ASSUME Delete PROVE CopyInv'
  BY <1>Delete DEF Delete, launch, process, data, copying, CopyInv
<1>Drained. ASSUME Drained PROVE CopyInv'
  BY <1>Drained DEF Drained, launch, process, data, copying, CopyInv
<1>DrainExpires. ASSUME DrainExpires PROVE CopyInv'
  BY <1>DrainExpires DEF DrainExpires, launch, process, data, copying, CopyInv
<1>DeleteReturns. ASSUME DeleteReturns PROVE CopyInv'
  BY <1>DeleteReturns DEF DeleteReturns, launch, process, data, copying, CopyInv
<1>Stutter. ASSUME UNCHANGED vars PROVE CopyInv'
  BY <1>Stutter DEF vars, CopyInv
<1> QED
  BY <1>create_io, <1>Listen, <1>Spawn, <1>Executed, <1>attach_console, <1>Started,
     <1>StartFailed, <1>RuncStarts, <1>RuncExits, <1>CopyReads, <1>CopyWrites, <1>CopyEof,
     <1>CopyEnds, <1>CopyCancelled, <1>ProcessForks, <1>ProcessWrites, <1>ProcessExits,
     <1>KidExits, <1>ContainerdReads, <1>ContainerdLeaves, <1>ContainerdReturns, <1>Delete,
     <1>Drained, <1>DrainExpires, <1>DeleteReturns, <1>Stutter
  DEF Next, Start, Copy, Process, Containerd, Shutdown

(* A step moves chunks without losing one, and the copy ends by itself only*)
(* when nobody can write another.                                          *)
LEMMA FlowStep ==
  ASSUME TypeOK, StartInv, ShutdownInv, CopyInv, FlowInv, [Next]_vars
  PROVE  FlowInv'
<1>create_io. ASSUME create_io PROVE FlowInv'
  BY <1>create_io DEF create_io, copy_io, PipedIo, CopyStarts, hold_fifo, Fails, launch, data,
     copying, CopyInv, FlowInv, Whole
<1>Listen. ASSUME Listen PROVE FlowInv'
  BY <1>Listen DEF Listen, Fails, launch, process, data, copying, FlowInv, Undisturbed, Ended,
     Whole
<1>Spawn. ASSUME Spawn PROVE FlowInv'
  BY <1>Spawn DEF Spawn, SetIo, launch, data, copying, shutdown, StartInv, FlowInv, Undisturbed,
     Ended, Whole
<1>Executed. ASSUME Executed PROVE FlowInv'
  BY <1>Executed DEF Executed, close_after_start, Dropped, Fails, clean, data, copying, FlowInv,
     Undisturbed, Ended, Whole
<1>attach_console. ASSUME attach_console PROVE FlowInv'
  BY <1>attach_console DEF attach_console, copy_console, receive_socket, CopyStarts, hold_fifo,
     Fails, clean, process, data, copying, StartInv, CopyInv, FlowInv, Whole
<1>Started. ASSUME Started PROVE FlowInv'
  BY <1>Started DEF Started, Fails, process, data, copying, FlowInv, Undisturbed, Ended, Whole
<1>StartFailed. ASSUME StartFailed PROVE FlowInv'
  BY <1>StartFailed DEF StartFailed, process, data, copying, shutdown, FlowInv, Undisturbed,
     Ended, Whole
<1>RuncStarts. ASSUME RuncStarts PROVE FlowInv'
  BY <1>RuncStarts DEF RuncStarts, process, data, copying, shutdown, StartInv, CopyInv, FlowInv,
     Undisturbed, Ended, Whole
<1>RuncExits. ASSUME RuncExits PROVE FlowInv'
  BY <1>RuncExits DEF RuncExits, process, data, copying, shutdown, FlowInv, Undisturbed, Ended,
     Whole
<1>CopyReads. ASSUME CopyReads PROVE FlowInv'
  <2>1. buf = <<>> /\ buf' = <<Head(pipe)>> /\ pipe' = Tail(pipe) /\ pipe # <<>> /\ copy = "copying"
    BY <1>CopyReads DEF CopyReads
  <2> DEFINE s == delivered \o fifo
  <2>2. s \in Seq(1..MaxWrites)
    BY ConcatProperties DEF TypeOK
  <2> HIDE DEF s
  <2>3. s \o <<>> = s /\ s \o <<Head(pipe)>> = Append(s, Head(pipe))
    BY <2>1, <2>2, Moved, ConcatEmptySeq, AppendIsConcat DEF TypeOK
  <2>4. Append(s, Head(pipe)) \o Tail(pipe) = s \o pipe
    BY <2>1, <2>2, Moved, SMTT(30) DEF TypeOK
  <2>5. Whole => Whole'
    BY <1>CopyReads, <2>1, <2>3, <2>4 DEF CopyReads, process, Whole, s
  <2> QED
    BY <1>CopyReads, <2>1, <2>5 DEF CopyReads, process, copying, shutdown, FlowInv
<1>CopyWrites. ASSUME CopyWrites PROVE FlowInv'
  <2>1. CASE reader \/ held
    <3>1. /\ buf = <<buf[1]>> /\ buf[1] \in 1..MaxWrites /\ copy = "copying" /\ copy' = copy
          /\ fifo' = Append(fifo, buf[1]) /\ buf' = <<>>
      BY <1>CopyWrites, <2>1, Single DEF CopyWrites, TypeOK
    <3>2. delivered \o Append(fifo, buf[1]) = (delivered \o fifo) \o buf
      <4>1. delivered \o Append(fifo, buf[1]) = Append(delivered \o fifo, buf[1])
        BY <3>1, Joined, SMTT(30) DEF TypeOK
      <4>2. delivered \o fifo \in Seq(1..MaxWrites)
        BY ConcatProperties DEF TypeOK
      <4>3. Append(delivered \o fifo, buf[1]) = (delivered \o fifo) \o <<buf[1]>>
        BY <3>1, <4>2, AppendIsConcat
      <4> QED
        BY <3>1, <4>1, <4>3
    <3>3. (delivered \o Append(fifo, buf[1])) \o <<>> = delivered \o Append(fifo, buf[1])
      BY <3>1, AppendProperties, ConcatProperties, ConcatEmptySeq DEF TypeOK
    <3>4. Whole => Whole'
      BY <1>CopyWrites, <3>1, <3>2, <3>3 DEF CopyWrites, process, Whole
    <3> QED
      BY <1>CopyWrites, <3>1, <3>4 DEF CopyWrites, process, shutdown, FlowInv
  <2>2. CASE ~(reader \/ held)
    BY <1>CopyWrites, <2>2 DEF CopyWrites, CopyInv
  <2> QED
    BY <2>1, <2>2
<1>CopyEof. ASSUME CopyEof PROVE FlowInv'
  BY <1>CopyEof DEF CopyEof, launch, process, data, copying, shutdown, FlowInv, Ended, Whole
<1>CopyEnds. ASSUME CopyEnds PROVE FlowInv'
  <2>1. ~cancel => Whole /\ Ended
    BY <1>CopyEnds DEF CopyEnds, FlowInv, Undisturbed
  <2>2. Whole /\ Ended => delivered \o fifo = Numbers(written)
    BY ConcatProperties, ConcatEmptySeq DEF Whole, Ended
  <2> QED
    BY <1>CopyEnds, <2>1, <2>2 DEF CopyEnds, Emptied, process, shutdown, launch, FlowInv,
       Undisturbed, Ended
<1>CopyCancelled. ASSUME CopyCancelled PROVE FlowInv'
  BY <1>CopyCancelled DEF CopyCancelled, launch, process, data, copying, shutdown, FlowInv,
     Undisturbed
<1>ProcessForks. ASSUME ProcessForks PROVE FlowInv'
  BY <1>ProcessForks DEF ProcessForks, launch, data, copying, shutdown, StartInv, FlowInv,
     Undisturbed, Ended, Whole
<1>ProcessWrites. ASSUME ProcessWrites PROVE FlowInv'
  <2>1. /\ written + 1 \in 1..MaxWrites /\ written \in Nat /\ written' = written + 1
        /\ pipe' = Append(pipe, written + 1) /\ ends # {} /\ copy # "ended"
    BY <1>ProcessWrites, ConstantsAssumption DEF ProcessWrites, TypeOK
  <2>2. (delivered \o fifo \o buf) \o Append(pipe, written + 1)
          = Append((delivered \o fifo \o buf) \o pipe, written + 1)
    <3>1. delivered \o fifo \o buf \in Seq(1..MaxWrites)
      BY ConcatProperties DEF TypeOK
    <3> QED
      BY <2>1, <3>1, Joined, SMTT(30) DEF TypeOK
  <2>3. Whole => Whole'
    BY <1>ProcessWrites, <2>1, <2>2, NextNumber DEF ProcessWrites, Whole
  <2> QED
    BY <1>ProcessWrites, <2>1, <2>3 DEF ProcessWrites, copying, shutdown, FlowInv, Undisturbed,
       Ended
<1>ProcessExits. ASSUME ProcessExits PROVE FlowInv'
  BY <1>ProcessExits DEF ProcessExits, launch, process, data, copying, shutdown, FlowInv,
     Undisturbed, Ended, Whole
<1>KidExits. ASSUME KidExits PROVE FlowInv'
  BY <1>KidExits DEF KidExits, launch, data, copying, shutdown, FlowInv, Undisturbed, Ended, Whole
<1>ContainerdReads. ASSUME ContainerdReads PROVE FlowInv'
  <2>1. delivered' = Append(delivered, Head(fifo)) /\ fifo' = Tail(fifo) /\ fifo # <<>>
    BY <1>ContainerdReads DEF ContainerdReads
  <2>2. Append(delivered, Head(fifo)) \o Tail(fifo) = delivered \o fifo
    BY <2>1, Moved, SMTT(30) DEF TypeOK
  <2> QED
    BY <1>ContainerdReads, <2>1, <2>2 DEF ContainerdReads, process, copying, shutdown, launch,
       FlowInv, Undisturbed, Ended, Whole
<1>ContainerdLeaves. ASSUME ContainerdLeaves PROVE FlowInv'
  BY <1>ContainerdLeaves DEF ContainerdLeaves, Emptied, launch, process, shutdown, CopyInv,
     FlowInv, Undisturbed, Ended, Whole
<1>ContainerdReturns. ASSUME ContainerdReturns PROVE FlowInv'
  BY <1>ContainerdReturns DEF ContainerdReturns, launch, process, data, copying, shutdown,
     FlowInv, Undisturbed, Ended, Whole
<1>Delete. ASSUME Delete PROVE FlowInv'
  BY <1>Delete DEF Delete, launch, process, data, copying, FlowInv, Undisturbed, Ended, Whole
<1>Drained. ASSUME Drained PROVE FlowInv'
  BY <1>Drained DEF Drained, launch, process, data, copying, ShutdownInv, FlowInv, Undisturbed,
     Ended
<1>DrainExpires. ASSUME DrainExpires PROVE FlowInv'
  BY <1>DrainExpires DEF DrainExpires, launch, process, data, copying, FlowInv, Undisturbed
<1>DeleteReturns. ASSUME DeleteReturns PROVE FlowInv'
  BY <1>DeleteReturns DEF DeleteReturns, launch, process, data, copying, FlowInv, Undisturbed,
     Ended
<1>Stutter. ASSUME UNCHANGED vars PROVE FlowInv'
  BY <1>Stutter DEF vars, FlowInv, Undisturbed, Ended, Whole
<1> QED
  BY <1>create_io, <1>Listen, <1>Spawn, <1>Executed, <1>attach_console, <1>Started,
     <1>StartFailed, <1>RuncStarts, <1>RuncExits, <1>CopyReads, <1>CopyWrites, <1>CopyEof,
     <1>CopyEnds, <1>CopyCancelled, <1>ProcessForks, <1>ProcessWrites, <1>ProcessExits,
     <1>KidExits, <1>ContainerdReads, <1>ContainerdLeaves, <1>ContainerdReturns, <1>Delete,
     <1>Drained, <1>DrainExpires, <1>DeleteReturns, <1>Stutter
  DEF Next, Start, Copy, Process, Containerd, Shutdown

(* The first state satisfies the invariant: nothing is written yet.        *)
LEMMA InitInv == Init => IInv
<1> SUFFICES ASSUME Init PROVE IInv
  OBVIOUS
<1>1. <<>> \o <<>> \o <<>> \o <<>> = Numbers(0)
  BY DEF Numbers
<1>2. <<>> \in Seq(1..MaxWrites) /\ Len(<<>>) = 0
  BY EmptySeq
<1>3. TypeOK
  <2>1. {pipe, buf, fifo, delivered} \subseteq Seq(1..MaxWrites) /\ Len(fifo) = 0
          /\ Len(pipe) = 0 /\ Len(buf) = 0
    BY <1>2 DEF Init
  <2>2. {terminal, reader, held, cancel, expired, away} \subseteq BOOLEAN
    BY DEF Init
  <2> QED
    BY <2>1, <2>2, ConstantsAssumption DEF Init, TypeOK
<1>4. StartInv /\ ConsoleInv /\ ShutdownInv /\ CopyInv
  BY DEF Init, StartInv, ConsoleInv, ShutdownInv, CopyInv
<1>5. FlowInv
  BY <1>1 DEF Init, FlowInv, Whole
<1> QED
  BY <1>3, <1>4, <1>5 DEF IInv

(* What the start, the copy and the delete rely on holds in every          *)
(* reachable state.                                                        *)
THEOREM Invariant == Spec => []IInv
<1>1. Init => IInv
  BY InitInv
<1>2. IInv /\ [Next]_vars => IInv'
  BY TypeStep, StartStep, ConsoleStep, ShutdownStep, CopyStep, FlowStep DEF IInv
<1> QED
  BY <1>1, <1>2, PTL DEF Spec

(* No chunk of output is lost, doubled or moved while the copy runs, and   *)
(* it ends by itself only when the output has ended.                       *)
THEOREM NoOutputIsLost == Spec => []OutputKept
<1>1. IInv => OutputKept
  BY DEF IInv, FlowInv, Undisturbed, Ended, Whole, OutputKept
<1> QED
  BY <1>1, Invariant, PTL

(* Once runc is done the shim does not hold open what it reads.            *)
THEOREM OutputEndsWithTheProcess == Spec => []EndsWithProcess
<1>1. IInv => EndsWithProcess
  BY DEF IInv, TypeOK, StartInv, EndsWithProcess
<1> QED
  BY <1>1, Invariant, PTL

(* When delete answers, containerd has the output or finds it in the fifo; *)
(* nothing of the start or the copy stays behind.                          *)
THEOREM OutputIsDelivered == Spec => []Delivered
<1>1. IInv => Delivered
  BY DEF IInv, ConsoleInv, ShutdownInv, CopyInv, FlowInv, Undisturbed, Delivered
<1> QED
  BY <1>1, Invariant, PTL
=============================================================================

---------------------------- MODULE StdinProofs ----------------------------
(***************************************************************************)
(* Theorems about StdinCopy, for any number of chunks, any capacities and  *)
(* any number of starts that fail.                                         *)
(***************************************************************************)
EXTENDS StdinCopy, SequenceTheorems, TLAPS

(* n chunks in order, the first after from.                                *)
Run(from, n) == [i \in 1..n |-> from + i]

(* How far the start is and whether there is a copy.                       *)
StartInv ==
  /\ inCopy = "none" <=> exec = "added"
  /\ exec = "added" => inBuf = <<>> /\ inPipe = <<>>
  /\ exec \in {"added", "starting", "failing"} => got = <<>>
  /\ inCancel <=> exec \in {"failing", "draining", "deleted"}

(* A hold that is released before the tasks are shut down was released by  *)
(* CloseIO, and fresh tasks remember it.                                   *)
HoldInv ==
  /\ exec \in {"added", "starting", "running", "exited"} /\ hold = "Released" => closed
  /\ exec = "failing" /\ fresh = "Released" => closed
  /\ exec \in {"starting", "running"} => hold # "Pending"
  /\ eof \/ (exec \in {"starting", "running"} /\ inCopy \in {"leaving", "ended"}) => closed

(* Each chunk is somewhere or was skipped, and the fifo has the last ones. *)
CountInv ==
  /\ Len(got) + Len(inPipe) + Len(inBuf) + Len(inFifo) + skipped = inWritten
  /\ inFifo = Run(inWritten - Len(inFifo), Len(inFifo))

(* Until the copy ends nothing is missing in between.                      *)
Flowing == exec \in {"added", "starting", "running"} /\ inCopy \in {"none", "copying"}
FlowInv == Flowing => got \o inPipe \o inBuf \o inFifo = Run(skipped, inWritten - skipped)

IInv == InTypeOK /\ StartInv /\ HoldInv /\ CountInv /\ FlowInv
----------------------------------------------------------------------------
(* A chunk that moves from the head of a sequence to the end of the one    *)
(* before it leaves the chunks of both as they are.                        *)
LEMMA Moved ==
  ASSUME NEW S, NEW s \in Seq(S), NEW t \in Seq(S), t # <<>>
  PROVE  /\ Head(t) \in S /\ Tail(t) \in Seq(S) /\ <<Head(t)>> \in Seq(S)
         /\ Len(t) \in Nat \ {0} /\ Len(Tail(t)) = Len(t) - 1
         /\ Append(s, Head(t)) \o Tail(t) = s \o t
<1>1. Head(t) \in S /\ Tail(t) \in Seq(S) /\ <<Head(t)>> \in Seq(S) /\ Len(t) \in Nat \ {0}
        /\ Len(Tail(t)) = Len(t) - 1
  BY HeadTailProperties, EmptySeq
<1>2. t = <<Head(t)>> \o Tail(t)
  BY <1>1
<1>3. Append(s, Head(t)) = s \o <<Head(t)>>
  BY <1>1, AppendIsConcat
<1>4. (s \o <<Head(t)>>) \o Tail(t) = s \o (<<Head(t)>> \o Tail(t))
  BY <1>1, ConcatAssociative
<1> QED
  BY <1>1, <1>2, <1>3, <1>4

(* A sequence of at most one element is empty or is that element.          *)
LEMMA Single ==
  ASSUME NEW S, NEW s \in Seq(S), s # <<>>, Len(s) <= 1
  PROVE  s[1] \in S /\ s = <<s[1]>> /\ Len(s) = 1
<1>1. Len(s) \in Nat \ {0}
  BY HeadTailProperties
<1>2. Len(s) = 1 /\ 1 \in 1..Len(s)
  <2>1. \A n \in Nat \ {0} : n <= 1 => n = 1 /\ 1 \in 1..n
    OBVIOUS
  <2> QED
    BY <1>1, <2>1, Zenon
<1>3. s[1] \in S
  BY <1>2, ElementOfSeq
<1>4. <<s[1]>> \in Seq(S) /\ Len(<<s[1]>>) = 1 /\ <<s[1]>>[1] = s[1]
  BY <1>3
<1> QED
  BY <1>2, <1>3, <1>4, SeqEqual

(* To append to the second of two sequences is to append to both together. *)
LEMMA Joined ==
  ASSUME NEW S, NEW s \in Seq(S), NEW t \in Seq(S), NEW e \in S
  PROVE  /\ s \o t \in Seq(S)
         /\ s \o Append(t, e) = Append(s \o t, e)
         /\ s \o Append(t, e) = (s \o t) \o <<e>>
<1>1. s \o t \in Seq(S) /\ <<e>> \in Seq(S)
  BY ConcatProperties
<1>2. Append(t, e) = t \o <<e>> /\ Append(s \o t, e) = (s \o t) \o <<e>>
  BY <1>1, AppendIsConcat
<1>3. s \o (t \o <<e>>) = (s \o t) \o <<e>>
  BY <1>1, ConcatAssociative
<1> QED
  BY <1>1, <1>2, <1>3

(* The next chunk continues a run.                                         *)
LEMMA RunAppend ==
  ASSUME NEW m \in Nat, NEW n \in Nat
  PROVE  /\ Run(m, n) \in Seq(Nat) /\ Len(Run(m, n)) = n
         /\ Append(Run(m, n), m + n + 1) = Run(m, n + 1)
<1>1. Run(m, n) \in Seq(Nat) /\ Len(Run(m, n)) = n
  BY DEF Run
<1> DEFINE s == Append(Run(m, n), m + n + 1)
<1>2. /\ s \in Seq(Nat) /\ Len(s) = n + 1
      /\ \A i \in 1..n : s[i] = Run(m, n)[i] /\ s[n + 1] = m + n + 1
  BY <1>1, AppendProperties
<1> QED
  BY <1>1, <1>2, SeqEqual DEF Run

(* Without its first chunk a run starts one later.                         *)
LEMMA RunTail ==
  ASSUME NEW m \in Nat, NEW n \in Nat \ {0}
  PROVE  Tail(Run(m, n)) = Run(m + 1, n - 1)
<1>1. Run(m, n) \in Seq(Nat) /\ Len(Run(m, n)) = n /\ Run(m, n) # <<>>
  BY DEF Run
<1>2. Run(m + 1, n - 1) \in Seq(Nat) /\ Len(Run(m + 1, n - 1)) = n - 1
  BY DEF Run
<1>3. /\ Tail(Run(m, n)) \in Seq(Nat) /\ Len(Tail(Run(m, n))) = n - 1
      /\ \A i \in 1..n - 1 : Tail(Run(m, n))[i] = Run(m, n)[i + 1]
  BY <1>1, HeadTailProperties
<1> QED
  BY <1>2, <1>3, SeqEqual DEF Run

(* The lengths and counts are natural numbers, and none exceeds the number *)
(* of chunks written.                                                      *)
LEMMA Counted ==
  ASSUME InTypeOK, CountInv
  PROVE  /\ Len(got) \in Nat /\ Len(inPipe) \in Nat /\ Len(inBuf) \in Nat /\ Len(inFifo) \in Nat
         /\ skipped \in Nat /\ inWritten \in Nat /\ MaxInputs \in Nat /\ inWritten <= MaxInputs
         /\ Len(got) + Len(inPipe) + Len(inBuf) + Len(inFifo) + skipped = inWritten
<1>1. /\ Len(got) \in Nat /\ Len(inPipe) \in Nat /\ Len(inBuf) \in Nat /\ Len(inFifo) \in Nat
  BY LenProperties DEF InTypeOK
<1> QED
  BY <1>1, InConstantsAssumption DEF InTypeOK, CountInv

(* What is left of w without k.                                            *)
LEMMA Difference ==
  ASSUME NEW w \in Nat, NEW k \in Nat, w - k \in Nat
  PROVE  /\ (w - k) + k + 1 = w + 1 /\ k + (w - k) + 1 = w + 1
         /\ (w + 1) - (k + 1) = w - k /\ (w - k) + 1 = w + 1 - k
OBVIOUS

(* What was not skipped, or is not in the fifo, is a natural number too.   *)
LEMMA Behind ==
  ASSUME InTypeOK, CountInv
  PROVE  /\ inWritten - Len(inFifo) \in Nat /\ inWritten - skipped \in Nat
         /\ skipped + Len(inFifo) \in 0..MaxInputs
         /\ skipped + Len(inPipe) + Len(inBuf) \in 0..MaxInputs
         /\ inWritten < MaxInputs => inWritten + 1 \in 1..MaxInputs
BY Counted, SMTT(60)

(* The type invariant in three parts.                                      *)
Control ==
  /\ exec \in {"added", "starting", "failing", "running", "exited", "draining", "deleted"}
  /\ {hold, fresh} \subseteq {"Pending", "Open", "Released"}
  /\ inCopy \in {"none", "copying", "leaving", "ended"}
  /\ {inCancel, writer, eof, closed} \subseteq BOOLEAN
  /\ fails \in 0..MaxFails

Chunks ==
  /\ inFifo \in Seq(1..MaxInputs) /\ inBuf \in Seq(1..MaxInputs)
  /\ inPipe \in Seq(1..MaxInputs) /\ got \in Seq(1..MaxInputs)
  /\ Len(inFifo) <= InFifoSize /\ Len(inPipe) <= InPipeSize /\ Len(inBuf) <= 1

Counts == inWritten \in 0..MaxInputs /\ skipped \in 0..MaxInputs

(* These are its parts, before a step and after it.                        *)
LEMMA Parts ==
  /\ InTypeOK <=> Control /\ Chunks /\ Counts
  /\ InTypeOK' <=> Control' /\ Chunks' /\ Counts'
BY DEF InTypeOK, Control, Chunks, Counts

(* Lengths and capacities are natural numbers.                             *)
LEMMA Room ==
  ASSUME Chunks
  PROVE  /\ Len(got) \in Nat /\ Len(inPipe) \in Nat /\ Len(inBuf) \in Nat /\ Len(inFifo) \in Nat
         /\ InFifoSize \in Nat /\ InPipeSize \in Nat
BY LenProperties, InConstantsAssumption DEF Chunks

(* Nothing has no length.                                                  *)
LEMMA Nothing == Len(<<>>) = 0
OBVIOUS

(* No chunks fit everywhere.                                               *)
LEMMA EmptyChunks ==
  /\ <<>> \in Seq(1..MaxInputs) /\ Len(<<>>) = 0
  /\ 0 <= InFifoSize /\ 0 <= InPipeSize /\ 0 <= 1
BY EmptySeq, InConstantsAssumption

(* No chunks.                                                              *)
LEMMA EmptyRun ==
  /\ \A m : Run(m, 0) = <<>>
  /\ <<>> \o <<>> = <<>>
BY DEF Run

(* A step keeps the types and the capacities.                              *)
LEMMA TypeStep ==
  ASSUME InTypeOK, CountInv, [InNext]_stdinVars
  PROVE  InTypeOK'
<1>InCopyReads. ASSUME InCopyReads PROVE InTypeOK'
  <2>1. /\ inFifo # <<>> /\ inFifo' = Tail(inFifo) /\ inBuf' = <<Head(inFifo)>>
        /\ inPipe' = inPipe /\ got' = got /\ inWritten' = inWritten /\ skipped' = skipped
    BY <1>InCopyReads DEF InCopyReads
  <2>2. /\ inFifo' \in Seq(1..MaxInputs) /\ inBuf' \in Seq(1..MaxInputs) /\ Len(inBuf') = 1
        /\ Len(inFifo') = Len(inFifo) - 1
    BY <2>1, Parts, Moved DEF Chunks
  <2>3. Control'
    BY <1>InCopyReads, Parts DEF InCopyReads, tasks, history, Control
  <2>4. Chunks'
    BY <2>1, <2>2, Parts, Room DEF Chunks
  <2>5. Counts'
    BY <2>1, Parts DEF Counts
  <2> QED
    BY <2>3, <2>4, <2>5, Parts
<1>InCopyWrites. ASSUME InCopyWrites PROVE InTypeOK'
  <2>1. /\ inBuf # <<>> /\ inPipe' = Append(inPipe, inBuf[1]) /\ inBuf' = <<>> /\ Len(inPipe) < InPipeSize
        /\ inFifo' = inFifo /\ got' = got /\ inWritten' = inWritten /\ skipped' = skipped
    BY <1>InCopyWrites DEF InCopyWrites, poll_write
  <2>2. inBuf[1] \in 1..MaxInputs
    BY <2>1, Parts, Single DEF Chunks
  <2>3. inPipe' \in Seq(1..MaxInputs) /\ Len(inPipe') = Len(inPipe) + 1
    BY <2>1, <2>2, Parts, AppendProperties DEF Chunks
  <2>4. inBuf' \in Seq(1..MaxInputs) /\ Len(inBuf') = 0
    BY <2>1, EmptyChunks
  <2>5. Control'
    BY <1>InCopyWrites, Parts DEF InCopyWrites, ProcessReads, poll_write, tasks, history, Control
  <2>6. Chunks'
    BY <2>1, <2>3, <2>4, Parts, Room DEF Chunks
  <2>7. Counts'
    BY <2>1, Parts DEF Counts
  <2> QED
    BY <2>5, <2>6, <2>7, Parts
<1>CopyFails. ASSUME CopyFails PROVE InTypeOK'
  BY <1>CopyFails DEF CopyFails, ProcessReads, tasks, inData, history, InTypeOK
<1>InCopyEof. ASSUME InCopyEof PROVE InTypeOK'
  BY <1>InCopyEof DEF InCopyEof, tasks, inData, history, InTypeOK
<1>InCopyEnds. ASSUME InCopyEnds PROVE InTypeOK'
  <2>1. /\ inFifo' \in {inFifo, <<>>} /\ skipped' \in {skipped, skipped + Len(inFifo)}
        /\ inBuf' = inBuf /\ inPipe' = inPipe /\ got' = got /\ inWritten' = inWritten
    BY <1>InCopyEnds DEF InCopyEnds, Kept
  <2>2. Control'
    BY <1>InCopyEnds, Parts DEF InCopyEnds, tasks, history, Control
  <2>3. Chunks'
    BY <2>1, Parts, EmptyChunks DEF Chunks
  <2>4. Counts'
    BY <2>1, Parts, Behind DEF Counts
  <2> QED
    BY <2>2, <2>3, <2>4, Parts
<1>InCopyCancelled. ASSUME InCopyCancelled PROVE InTypeOK'
  BY <1>InCopyCancelled DEF InCopyCancelled, tasks, inData, history, InTypeOK
<1>ProcessTakes. ASSUME ProcessTakes PROVE InTypeOK'
  <2>1. /\ inPipe # <<>> /\ inPipe' = Tail(inPipe) /\ got' = Append(got, Head(inPipe))
        /\ inFifo' = inFifo /\ inBuf' = inBuf /\ inWritten' = inWritten /\ skipped' = skipped
    BY <1>ProcessTakes DEF ProcessTakes
  <2>2. Head(inPipe) \in 1..MaxInputs /\ inPipe' \in Seq(1..MaxInputs) /\ Len(inPipe') = Len(inPipe) - 1
    BY <2>1, Parts, Moved DEF Chunks
  <2>3. got' \in Seq(1..MaxInputs)
    BY <2>1, <2>2, Parts, AppendProperties DEF Chunks
  <2>4. Control'
    BY <1>ProcessTakes, Parts DEF ProcessTakes, tasks, history, Control
  <2>5. Chunks'
    BY <2>1, <2>2, <2>3, Parts, Room DEF Chunks
  <2>6. Counts'
    BY <2>1, Parts DEF Counts
  <2> QED
    BY <2>4, <2>5, <2>6, Parts
<1>ProcessSeesEof. ASSUME ProcessSeesEof PROVE InTypeOK'
  BY <1>ProcessSeesEof DEF ProcessSeesEof, tasks, inData, history, InTypeOK
<1>InProcessExits. ASSUME InProcessExits PROVE InTypeOK'
  BY <1>InProcessExits DEF InProcessExits, tasks, inData, history, InTypeOK
<1>CloseIO. ASSUME CloseIO PROVE InTypeOK'
  <2>1. /\ inFifo' \in {inFifo, <<>>} /\ skipped' \in {skipped, skipped + Len(inFifo)}
        /\ inBuf' = inBuf /\ inPipe' = inPipe /\ got' = got /\ inWritten' = inWritten
    BY <1>CloseIO DEF CloseIO, close_input, Kept
  <2>2. Control'
    BY <1>CloseIO, Parts DEF CloseIO, close_input, Control
  <2>3. Chunks'
    BY <2>1, Parts, EmptyChunks DEF Chunks
  <2>4. Counts'
    BY <2>1, Parts, Behind DEF Counts
  <2> QED
    BY <2>2, <2>3, <2>4, Parts
<1>StartExec. ASSUME StartExec PROVE InTypeOK'
  BY <1>StartExec DEF StartExec, inData, history, InTypeOK
<1>StartSucceeds. ASSUME StartSucceeds PROVE InTypeOK'
  BY <1>StartSucceeds DEF StartSucceeds, tasks, inData, history, InTypeOK
<1>StartFails. ASSUME StartFails PROVE InTypeOK'
  <2>1. /\ inFifo' \in {inFifo, <<>>} /\ skipped' \in {skipped, skipped + Len(inFifo)}
        /\ inBuf' = inBuf /\ inPipe' = inPipe /\ got' = got /\ inWritten' = inWritten
    BY <1>StartFails DEF StartFails, Renewed, Kept
  <2>2. Control'
    <3>1. Renewed(hold) \in {"Pending", "Open", "Released"}
      BY DEF Renewed
    <3>2. hold' = "Released" /\ fresh' = Renewed(hold)
      BY <1>StartFails DEF StartFails
    <3>3. {hold', fresh'} \subseteq {"Pending", "Open", "Released"}
      BY <3>1, <3>2, Zenon
    <3> QED
      BY <1>StartFails, <3>3, Parts, InConstantsAssumption DEF StartFails, Control
  <2>3. Chunks'
    BY <2>1, Parts, EmptyChunks DEF Chunks
  <2>4. Counts'
    BY <2>1, Parts, Behind DEF Counts
  <2> QED
    BY <2>2, <2>3, <2>4, Parts
<1>StartAborted. ASSUME StartAborted PROVE InTypeOK'
  <2>1. /\ skipped' = skipped + Len(inPipe) + Len(inBuf) /\ inPipe' = <<>> /\ inBuf' = <<>>
        /\ got' = got /\ inFifo' = inFifo /\ inWritten' = inWritten
    BY <1>StartAborted DEF StartAborted
  <2>2. Control'
    BY <1>StartAborted, Parts DEF StartAborted, history, Control
  <2>3. Chunks'
    BY <2>1, Parts, EmptyChunks DEF Chunks
  <2>4. Counts'
    BY <2>1, Parts, Behind DEF Counts
  <2> QED
    BY <2>2, <2>3, <2>4, Parts
<1>DeleteExec. ASSUME DeleteExec PROVE InTypeOK'
  <2>1. /\ inFifo' \in {inFifo, <<>>} /\ skipped' \in {skipped, skipped + Len(inFifo)}
        /\ inBuf' = inBuf /\ inPipe' = inPipe /\ got' = got /\ inWritten' = inWritten
    BY <1>DeleteExec DEF DeleteExec, Kept
  <2>2. Control'
    BY <1>DeleteExec, Parts DEF DeleteExec, history, Control
  <2>3. Chunks'
    BY <2>1, Parts, EmptyChunks DEF Chunks
  <2>4. Counts'
    BY <2>1, Parts, Behind DEF Counts
  <2> QED
    BY <2>2, <2>3, <2>4, Parts
<1>ExecDeleted. ASSUME ExecDeleted PROVE InTypeOK'
  BY <1>ExecDeleted DEF ExecDeleted, tasks, inData, history, InTypeOK
<1>ContainerdOpens. ASSUME ContainerdOpens PROVE InTypeOK'
  BY <1>ContainerdOpens DEF ContainerdOpens, tasks, inData, history, InTypeOK
<1>ContainerdWrites. ASSUME ContainerdWrites PROVE InTypeOK'
  <2>1. /\ inWritten < MaxInputs /\ inWritten' = inWritten + 1
        /\ Len(inFifo) < InFifoSize /\ inFifo' = Append(inFifo, inWritten + 1)
        /\ inPipe' = inPipe /\ inBuf' = inBuf /\ got' = got /\ skipped' = skipped
    BY <1>ContainerdWrites DEF ContainerdWrites
  <2>2. inWritten + 1 \in 1..MaxInputs
    BY <2>1, Behind
  <2>3. inFifo' \in Seq(1..MaxInputs) /\ Len(inFifo') = Len(inFifo) + 1
    BY <2>1, <2>2, Parts, AppendProperties DEF Chunks
  <2>4. Control'
    BY <1>ContainerdWrites, Parts DEF ContainerdWrites, tasks, history, Control
  <2>5. Chunks'
    BY <2>1, <2>3, Parts, Room DEF Chunks
  <2>6. Counts'
    BY <2>1, Counted DEF Counts
  <2> QED
    BY <2>4, <2>5, <2>6, Parts
<1>ContainerdCloses. ASSUME ContainerdCloses PROVE InTypeOK'
  <2>1. /\ inFifo' \in {inFifo, <<>>} /\ skipped' \in {skipped, skipped + Len(inFifo)}
        /\ inBuf' = inBuf /\ inPipe' = inPipe /\ got' = got /\ inWritten' = inWritten
    BY <1>ContainerdCloses DEF ContainerdCloses, Kept
  <2>2. Control'
    BY <1>ContainerdCloses, Parts DEF ContainerdCloses, tasks, history, Control
  <2>3. Chunks'
    BY <2>1, Parts, EmptyChunks DEF Chunks
  <2>4. Counts'
    BY <2>1, Parts, Behind DEF Counts
  <2> QED
    BY <2>2, <2>3, <2>4, Parts
<1>Stutter. ASSUME UNCHANGED stdinVars PROVE InTypeOK'
  BY <1>Stutter DEF stdinVars, InTypeOK
<1> QED
  BY <1>InCopyReads, <1>InCopyWrites, <1>CopyFails, <1>InCopyEof, <1>InCopyEnds, <1>InCopyCancelled,
     <1>ProcessTakes, <1>ProcessSeesEof, <1>InProcessExits, <1>CloseIO, <1>StartExec,
     <1>StartSucceeds, <1>StartFails, <1>StartAborted, <1>DeleteExec, <1>ExecDeleted,
     <1>ContainerdOpens, <1>ContainerdWrites, <1>ContainerdCloses, <1>Stutter
  DEF InNext, InCopyStep, InProcess, Shim, InContainerd

(* A step keeps what there is of the copy in line with the start, and only *)
(* a shutdown cancels it.                                                  *)
LEMMA StartStep ==
  ASSUME InTypeOK, StartInv, [InNext]_stdinVars
  PROVE  StartInv'
<1>InCopyReads. ASSUME InCopyReads PROVE StartInv'
  BY <1>InCopyReads DEF InCopyReads, tasks, StartInv
<1>InCopyWrites. ASSUME InCopyWrites PROVE StartInv'
  BY <1>InCopyWrites DEF InCopyWrites, ProcessReads, poll_write, tasks, StartInv
<1>CopyFails. ASSUME CopyFails PROVE StartInv'
  BY <1>CopyFails DEF CopyFails, ProcessReads, tasks, StartInv
<1>InCopyEof. ASSUME InCopyEof PROVE StartInv'
  BY <1>InCopyEof DEF InCopyEof, tasks, inData, StartInv
<1>InCopyEnds. ASSUME InCopyEnds PROVE StartInv'
  BY <1>InCopyEnds DEF InCopyEnds, tasks, StartInv
<1>InCopyCancelled. ASSUME InCopyCancelled PROVE StartInv'
  BY <1>InCopyCancelled DEF InCopyCancelled, tasks, inData, StartInv
<1>ProcessTakes. ASSUME ProcessTakes PROVE StartInv'
  BY <1>ProcessTakes DEF ProcessTakes, tasks, StartInv
<1>ProcessSeesEof. ASSUME ProcessSeesEof PROVE StartInv'
  BY <1>ProcessSeesEof DEF ProcessSeesEof, tasks, StartInv
<1>InProcessExits. ASSUME InProcessExits PROVE StartInv'
  BY <1>InProcessExits DEF InProcessExits, tasks, StartInv
<1>CloseIO. ASSUME CloseIO PROVE StartInv'
  BY <1>CloseIO DEF CloseIO, close_input, StartInv
<1>StartExec. ASSUME StartExec PROVE StartInv'
  BY <1>StartExec DEF StartExec, inData, StartInv
<1>StartSucceeds. ASSUME StartSucceeds PROVE StartInv'
  BY <1>StartSucceeds DEF StartSucceeds, tasks, StartInv
<1>StartFails. ASSUME StartFails PROVE StartInv'
  BY <1>StartFails DEF StartFails, Renewed, StartInv
<1>StartAborted. ASSUME StartAborted PROVE StartInv'
  BY <1>StartAborted DEF StartAborted, StartInv
<1>DeleteExec. ASSUME DeleteExec PROVE StartInv'
  BY <1>DeleteExec DEF DeleteExec, StartInv
<1>ExecDeleted. ASSUME ExecDeleted PROVE StartInv'
  BY <1>ExecDeleted DEF ExecDeleted, tasks, StartInv
<1>ContainerdOpens. ASSUME ContainerdOpens PROVE StartInv'
  BY <1>ContainerdOpens DEF ContainerdOpens, tasks, inData, StartInv
<1>ContainerdWrites. ASSUME ContainerdWrites PROVE StartInv'
  BY <1>ContainerdWrites DEF ContainerdWrites, tasks, StartInv
<1>ContainerdCloses. ASSUME ContainerdCloses PROVE StartInv'
  BY <1>ContainerdCloses DEF ContainerdCloses, tasks, StartInv
<1>Stutter. ASSUME UNCHANGED stdinVars PROVE StartInv'
  BY <1>Stutter DEF stdinVars, StartInv
<1> QED
  BY <1>InCopyReads, <1>InCopyWrites, <1>CopyFails, <1>InCopyEof, <1>InCopyEnds, <1>InCopyCancelled,
     <1>ProcessTakes, <1>ProcessSeesEof, <1>InProcessExits, <1>CloseIO, <1>StartExec,
     <1>StartSucceeds, <1>StartFails, <1>StartAborted, <1>DeleteExec, <1>ExecDeleted,
     <1>ContainerdOpens, <1>ContainerdWrites, <1>ContainerdCloses, <1>Stutter
  DEF InNext, InCopyStep, InProcess, Shim, InContainerd

(* The hold of a process that may read its input is released by CloseIO    *)
(* alone, renewed starts included.                                         *)
LEMMA HoldStep ==
  ASSUME InTypeOK, StartInv, HoldInv, [InNext]_stdinVars
  PROVE  HoldInv'
<1>InCopyReads. ASSUME InCopyReads PROVE HoldInv'
  BY <1>InCopyReads DEF InCopyReads, tasks, history, HoldInv
<1>InCopyWrites. ASSUME InCopyWrites PROVE HoldInv'
  BY <1>InCopyWrites DEF InCopyWrites, ProcessReads, poll_write, tasks, history, HoldInv
<1>CopyFails. ASSUME CopyFails PROVE HoldInv'
  BY <1>CopyFails DEF CopyFails, ProcessReads, tasks, history, HoldInv
<1>InCopyEof. ASSUME InCopyEof PROVE HoldInv'
  BY <1>InCopyEof DEF InCopyEof, tasks, history, InTypeOK, HoldInv
<1>InCopyEnds. ASSUME InCopyEnds PROVE HoldInv'
  BY <1>InCopyEnds DEF InCopyEnds, tasks, history, HoldInv
<1>InCopyCancelled. ASSUME InCopyCancelled PROVE HoldInv'
  BY <1>InCopyCancelled DEF InCopyCancelled, tasks, history, StartInv, HoldInv
<1>ProcessTakes. ASSUME ProcessTakes PROVE HoldInv'
  BY <1>ProcessTakes DEF ProcessTakes, tasks, history, HoldInv
<1>ProcessSeesEof. ASSUME ProcessSeesEof PROVE HoldInv'
  BY <1>ProcessSeesEof DEF ProcessSeesEof, tasks, history, HoldInv
<1>InProcessExits. ASSUME InProcessExits PROVE HoldInv'
  BY <1>InProcessExits DEF InProcessExits, tasks, history, HoldInv
<1>CloseIO. ASSUME CloseIO PROVE HoldInv'
  BY <1>CloseIO DEF CloseIO, close_input, HoldInv
<1>StartExec. ASSUME StartExec PROVE HoldInv'
  BY <1>StartExec DEF StartExec, history, HoldInv
<1>StartSucceeds. ASSUME StartSucceeds PROVE HoldInv'
  BY <1>StartSucceeds DEF StartSucceeds, tasks, history, HoldInv
<1>StartFails. ASSUME StartFails PROVE HoldInv'
  BY <1>StartFails DEF StartFails, Renewed, HoldInv
<1>StartAborted. ASSUME StartAborted PROVE HoldInv'
  BY <1>StartAborted DEF StartAborted, history, HoldInv
<1>DeleteExec. ASSUME DeleteExec PROVE HoldInv'
  BY <1>DeleteExec DEF DeleteExec, history, HoldInv
<1>ExecDeleted. ASSUME ExecDeleted PROVE HoldInv'
  BY <1>ExecDeleted DEF ExecDeleted, history, HoldInv
<1>ContainerdOpens. ASSUME ContainerdOpens PROVE HoldInv'
  BY <1>ContainerdOpens DEF ContainerdOpens, tasks, history, HoldInv
<1>ContainerdWrites. ASSUME ContainerdWrites PROVE HoldInv'
  BY <1>ContainerdWrites DEF ContainerdWrites, tasks, history, HoldInv
<1>ContainerdCloses. ASSUME ContainerdCloses PROVE HoldInv'
  BY <1>ContainerdCloses DEF ContainerdCloses, tasks, history, HoldInv
<1>Stutter. ASSUME UNCHANGED stdinVars PROVE HoldInv'
  BY <1>Stutter DEF stdinVars, HoldInv
<1> QED
  BY <1>InCopyReads, <1>InCopyWrites, <1>CopyFails, <1>InCopyEof, <1>InCopyEnds, <1>InCopyCancelled,
     <1>ProcessTakes, <1>ProcessSeesEof, <1>InProcessExits, <1>CloseIO, <1>StartExec,
     <1>StartSucceeds, <1>StartFails, <1>StartAborted, <1>DeleteExec, <1>ExecDeleted,
     <1>ContainerdOpens, <1>ContainerdWrites, <1>ContainerdCloses, <1>Stutter
  DEF InNext, InCopyStep, InProcess, Shim, InContainerd

(* A step takes a chunk on or counts it as skipped.                        *)
LEMMA CountStep ==
  ASSUME InTypeOK, CountInv, [InNext]_stdinVars
  PROVE  CountInv'
<1>InCopyReads. ASSUME InCopyReads PROVE CountInv'
  <2>1. inFifo # <<>> /\ inFifo' = Tail(inFifo) /\ inBuf = <<>> /\ inBuf' = <<Head(inFifo)>>
    BY <1>InCopyReads DEF InCopyReads
  <2>2. Len(inFifo') = Len(inFifo) - 1 /\ Len(inFifo) # 0 /\ Len(inBuf) = 0
    BY <2>1, Moved, EmptyChunks DEF Chunks
  <2>3. Len(inBuf') = 1
    BY <2>1
  <2>4. Tail(Run(inWritten - Len(inFifo), Len(inFifo))) = Run(inWritten - Len(inFifo) + 1, Len(inFifo) - 1)
    BY <2>2, Behind, RunTail
  <2>5. inWritten - Len(inFifo) + 1 = inWritten - (Len(inFifo) - 1)
    BY Counted
  <2>6. got' = got /\ inPipe' = inPipe /\ skipped' = skipped /\ inWritten' = inWritten
    BY <1>InCopyReads DEF InCopyReads
  <2>7. Len(got') + Len(inPipe') + Len(inBuf') + Len(inFifo') + skipped' = inWritten'
    BY <2>2, <2>3, <2>6, Counted
  <2>8. inFifo' = Run(inWritten' - Len(inFifo'), Len(inFifo'))
    BY <2>1, <2>2, <2>4, <2>5, <2>6 DEF CountInv
  <2> QED
    BY <2>7, <2>8 DEF CountInv
<1>InCopyWrites. ASSUME InCopyWrites PROVE CountInv'
  <2>1. inBuf # <<>> /\ inPipe' = Append(inPipe, inBuf[1]) /\ inBuf' = <<>>
    BY <1>InCopyWrites DEF InCopyWrites, poll_write
  <2>2. Len(inBuf) = 1 /\ inBuf[1] \in 1..MaxInputs
    BY <2>1, Parts, Single DEF Chunks
  <2>3. Len(inPipe') = Len(inPipe) + 1 /\ Len(inBuf') = 0
    BY <2>1, <2>2, AppendProperties, EmptyChunks DEF Chunks
  <2>4. got' = got /\ inFifo' = inFifo /\ skipped' = skipped /\ inWritten' = inWritten
    BY <1>InCopyWrites DEF InCopyWrites
  <2>5. Len(got') + Len(inPipe') + Len(inBuf') + Len(inFifo') + skipped' = inWritten'
    BY <2>2, <2>3, <2>4, Counted
  <2>6. inFifo' = Run(inWritten' - Len(inFifo'), Len(inFifo'))
    BY <2>4 DEF CountInv
  <2> QED
    BY <2>5, <2>6 DEF CountInv
<1>CopyFails. ASSUME CopyFails PROVE CountInv'
  BY <1>CopyFails DEF CopyFails, ProcessReads, inData, CountInv
<1>InCopyEof. ASSUME InCopyEof PROVE CountInv'
  BY <1>InCopyEof DEF InCopyEof, inData, CountInv
<1>InCopyEnds. ASSUME InCopyEnds PROVE CountInv'
  <2>1. \/ inFifo' = inFifo /\ skipped' = skipped
        \/ inFifo' = <<>> /\ skipped' = skipped + Len(inFifo)
    BY <1>InCopyEnds DEF InCopyEnds, Kept
  <2>2. \/ Len(inFifo') = Len(inFifo) /\ skipped' = skipped
        \/ Len(inFifo') = 0 /\ skipped' = skipped + Len(inFifo)
    BY <2>1, Nothing
  <2>3. got' = got /\ inPipe' = inPipe /\ inBuf' = inBuf /\ inWritten' = inWritten
    BY <1>InCopyEnds DEF InCopyEnds
  <2>4. Len(got') + Len(inPipe') + Len(inBuf') + Len(inFifo') + skipped' = inWritten'
    BY <2>2, <2>3, Counted
  <2>5. inFifo' = Run(inWritten' - Len(inFifo'), Len(inFifo'))
    BY <2>1, <2>3, EmptyRun DEF CountInv
  <2> QED
    BY <2>4, <2>5 DEF CountInv
<1>InCopyCancelled. ASSUME InCopyCancelled PROVE CountInv'
  BY <1>InCopyCancelled DEF InCopyCancelled, inData, CountInv
<1>ProcessTakes. ASSUME ProcessTakes PROVE CountInv'
  <2>1. inPipe # <<>> /\ inPipe' = Tail(inPipe) /\ got' = Append(got, Head(inPipe))
    BY <1>ProcessTakes DEF ProcessTakes
  <2>2. Head(inPipe) \in 1..MaxInputs /\ Len(inPipe') = Len(inPipe) - 1
    BY <2>1, Parts, Moved DEF Chunks
  <2>3. Len(got') = Len(got) + 1
    BY <2>1, <2>2, AppendProperties DEF Chunks
  <2>4. inBuf' = inBuf /\ inFifo' = inFifo /\ skipped' = skipped /\ inWritten' = inWritten
    BY <1>ProcessTakes DEF ProcessTakes
  <2>5. Len(got') + Len(inPipe') + Len(inBuf') + Len(inFifo') + skipped' = inWritten'
    BY <2>2, <2>3, <2>4, Counted
  <2>6. inFifo' = Run(inWritten' - Len(inFifo'), Len(inFifo'))
    BY <2>4 DEF CountInv
  <2> QED
    BY <2>5, <2>6 DEF CountInv
<1>ProcessSeesEof. ASSUME ProcessSeesEof PROVE CountInv'
  BY <1>ProcessSeesEof DEF ProcessSeesEof, inData, CountInv
<1>InProcessExits. ASSUME InProcessExits PROVE CountInv'
  BY <1>InProcessExits DEF InProcessExits, inData, CountInv
<1>CloseIO. ASSUME CloseIO PROVE CountInv'
  <2>1. \/ inFifo' = inFifo /\ skipped' = skipped
        \/ inFifo' = <<>> /\ skipped' = skipped + Len(inFifo)
    BY <1>CloseIO DEF CloseIO, close_input, Kept
  <2>2. \/ Len(inFifo') = Len(inFifo) /\ skipped' = skipped
        \/ Len(inFifo') = 0 /\ skipped' = skipped + Len(inFifo)
    BY <2>1, Nothing
  <2>3. got' = got /\ inPipe' = inPipe /\ inBuf' = inBuf /\ inWritten' = inWritten
    BY <1>CloseIO DEF CloseIO
  <2>4. Len(got') + Len(inPipe') + Len(inBuf') + Len(inFifo') + skipped' = inWritten'
    BY <2>2, <2>3, Counted
  <2>5. inFifo' = Run(inWritten' - Len(inFifo'), Len(inFifo'))
    BY <2>1, <2>3, EmptyRun DEF CountInv
  <2> QED
    BY <2>4, <2>5 DEF CountInv
<1>StartExec. ASSUME StartExec PROVE CountInv'
  BY <1>StartExec DEF StartExec, inData, CountInv
<1>StartSucceeds. ASSUME StartSucceeds PROVE CountInv'
  BY <1>StartSucceeds DEF StartSucceeds, inData, CountInv
<1>StartFails. ASSUME StartFails PROVE CountInv'
  <2>1. \/ inFifo' = inFifo /\ skipped' = skipped
        \/ inFifo' = <<>> /\ skipped' = skipped + Len(inFifo)
    BY <1>StartFails DEF StartFails, Renewed, Kept
  <2>2. \/ Len(inFifo') = Len(inFifo) /\ skipped' = skipped
        \/ Len(inFifo') = 0 /\ skipped' = skipped + Len(inFifo)
    BY <2>1, Nothing
  <2>3. got' = got /\ inPipe' = inPipe /\ inBuf' = inBuf /\ inWritten' = inWritten
    BY <1>StartFails DEF StartFails
  <2>4. Len(got') + Len(inPipe') + Len(inBuf') + Len(inFifo') + skipped' = inWritten'
    BY <2>2, <2>3, Counted
  <2>5. inFifo' = Run(inWritten' - Len(inFifo'), Len(inFifo'))
    BY <2>1, <2>3, EmptyRun DEF CountInv
  <2> QED
    BY <2>4, <2>5 DEF CountInv
<1>StartAborted. ASSUME StartAborted PROVE CountInv'
  <2>1. skipped' = skipped + Len(inPipe) + Len(inBuf) /\ inPipe' = <<>> /\ inBuf' = <<>>
    BY <1>StartAborted DEF StartAborted
  <2>2. Len(inPipe') = 0 /\ Len(inBuf') = 0
    BY <2>1
  <2>3. got' = got /\ inFifo' = inFifo /\ inWritten' = inWritten
    BY <1>StartAborted DEF StartAborted
  <2>4. Len(got') + Len(inPipe') + Len(inBuf') + Len(inFifo') + skipped' = inWritten'
    BY <2>1, <2>2, <2>3, Counted
  <2>5. inFifo' = Run(inWritten' - Len(inFifo'), Len(inFifo'))
    BY <2>3 DEF CountInv
  <2> QED
    BY <2>4, <2>5 DEF CountInv
<1>DeleteExec. ASSUME DeleteExec PROVE CountInv'
  <2>1. \/ inFifo' = inFifo /\ skipped' = skipped
        \/ inFifo' = <<>> /\ skipped' = skipped + Len(inFifo)
    BY <1>DeleteExec DEF DeleteExec, Kept
  <2>2. \/ Len(inFifo') = Len(inFifo) /\ skipped' = skipped
        \/ Len(inFifo') = 0 /\ skipped' = skipped + Len(inFifo)
    BY <2>1, Nothing
  <2>3. got' = got /\ inPipe' = inPipe /\ inBuf' = inBuf /\ inWritten' = inWritten
    BY <1>DeleteExec DEF DeleteExec
  <2>4. Len(got') + Len(inPipe') + Len(inBuf') + Len(inFifo') + skipped' = inWritten'
    BY <2>2, <2>3, Counted
  <2>5. inFifo' = Run(inWritten' - Len(inFifo'), Len(inFifo'))
    BY <2>1, <2>3, EmptyRun DEF CountInv
  <2> QED
    BY <2>4, <2>5 DEF CountInv
<1>ExecDeleted. ASSUME ExecDeleted PROVE CountInv'
  BY <1>ExecDeleted DEF ExecDeleted, inData, CountInv
<1>ContainerdOpens. ASSUME ContainerdOpens PROVE CountInv'
  BY <1>ContainerdOpens DEF ContainerdOpens, inData, CountInv
<1>ContainerdWrites. ASSUME ContainerdWrites PROVE CountInv'
  <2>1. inWritten < MaxInputs /\ inWritten' = inWritten + 1 /\ inFifo' = Append(inFifo, inWritten + 1)
    BY <1>ContainerdWrites DEF ContainerdWrites
  <2>2. inWritten + 1 \in 1..MaxInputs
    BY <2>1, Behind
  <2>3. Len(inFifo') = Len(inFifo) + 1
    BY <2>1, <2>2, AppendProperties DEF Chunks
  <2> DEFINE m == inWritten - Len(inFifo)
             n == Len(inFifo)
  <2>4. m \in Nat /\ n \in Nat /\ m + n + 1 = inWritten + 1 /\ (inWritten + 1) - (n + 1) = m
    BY Counted, Behind, Difference
  <2>5. Append(Run(m, n), m + n + 1) = Run(m, n + 1)
    BY <2>4, RunAppend
  <2>6. got' = got /\ inPipe' = inPipe /\ inBuf' = inBuf /\ skipped' = skipped
    BY <1>ContainerdWrites DEF ContainerdWrites
  <2>7. Len(got') + Len(inPipe') + Len(inBuf') + Len(inFifo') + skipped' = inWritten'
    BY <2>1, <2>3, <2>6, Counted
  <2>8. inFifo' = Run(inWritten' - Len(inFifo'), Len(inFifo'))
    BY <2>1, <2>3, <2>4, <2>5 DEF CountInv
  <2> QED
    BY <2>7, <2>8 DEF CountInv
<1>ContainerdCloses. ASSUME ContainerdCloses PROVE CountInv'
  <2>1. \/ inFifo' = inFifo /\ skipped' = skipped
        \/ inFifo' = <<>> /\ skipped' = skipped + Len(inFifo)
    BY <1>ContainerdCloses DEF ContainerdCloses, Kept
  <2>2. \/ Len(inFifo') = Len(inFifo) /\ skipped' = skipped
        \/ Len(inFifo') = 0 /\ skipped' = skipped + Len(inFifo)
    BY <2>1, Nothing
  <2>3. got' = got /\ inPipe' = inPipe /\ inBuf' = inBuf /\ inWritten' = inWritten
    BY <1>ContainerdCloses DEF ContainerdCloses
  <2>4. Len(got') + Len(inPipe') + Len(inBuf') + Len(inFifo') + skipped' = inWritten'
    BY <2>2, <2>3, Counted
  <2>5. inFifo' = Run(inWritten' - Len(inFifo'), Len(inFifo'))
    BY <2>1, <2>3, EmptyRun DEF CountInv
  <2> QED
    BY <2>4, <2>5 DEF CountInv
<1>Stutter. ASSUME UNCHANGED stdinVars PROVE CountInv'
  BY <1>Stutter DEF stdinVars, CountInv
<1> QED
  BY <1>InCopyReads, <1>InCopyWrites, <1>CopyFails, <1>InCopyEof, <1>InCopyEnds, <1>InCopyCancelled,
     <1>ProcessTakes, <1>ProcessSeesEof, <1>InProcessExits, <1>CloseIO, <1>StartExec,
     <1>StartSucceeds, <1>StartFails, <1>StartAborted, <1>DeleteExec, <1>ExecDeleted,
     <1>ContainerdOpens, <1>ContainerdWrites, <1>ContainerdCloses, <1>Stutter
  DEF InNext, InCopyStep, InProcess, Shim, InContainerd

(* A step moves chunks without losing one in between.                      *)
LEMMA FlowStep ==
  ASSUME InTypeOK, StartInv, CountInv, FlowInv, [InNext]_stdinVars
  PROVE  FlowInv'
<1>InCopyReads. ASSUME InCopyReads PROVE FlowInv'
  <2>1. inFifo # <<>> /\ inFifo' = Tail(inFifo) /\ inBuf = <<>> /\ inBuf' = <<Head(inFifo)>>
    BY <1>InCopyReads DEF InCopyReads
  <2> DEFINE s == got \o inPipe
  <2>2. s \in Seq(1..MaxInputs)
    BY Parts, ConcatProperties DEF Chunks
  <2>3. inFifo \in Seq(1..MaxInputs)
    BY Parts DEF Chunks
  <2> HIDE DEF s
  <2>4. s \o <<>> = s /\ s \o <<Head(inFifo)>> = Append(s, Head(inFifo))
    BY <2>1, <2>2, <2>3, Moved, ConcatEmptySeq, AppendIsConcat
  <2>5. Append(s, Head(inFifo)) \o Tail(inFifo) = s \o inFifo
    BY <2>1, <2>2, <2>3, Moved
  <2>6. got' \o inPipe' \o inBuf' \o inFifo' = got \o inPipe \o inBuf \o inFifo
    BY <1>InCopyReads, <2>1, <2>4, <2>5 DEF InCopyReads, s
  <2> QED
    BY <1>InCopyReads, <2>6 DEF InCopyReads, FlowInv, Flowing
<1>InCopyWrites. ASSUME InCopyWrites PROVE FlowInv'
  <2>1. inBuf # <<>> /\ inPipe' = Append(inPipe, inBuf[1]) /\ inBuf' = <<>>
    BY <1>InCopyWrites DEF InCopyWrites, poll_write
  <2>2. inBuf[1] \in 1..MaxInputs /\ inBuf = <<inBuf[1]>>
    BY <2>1, Parts, Single DEF Chunks
  <2>3. got \o Append(inPipe, inBuf[1]) = (got \o inPipe) \o <<inBuf[1]>>
    BY <2>2, Joined DEF Chunks
  <2>4. got \o Append(inPipe, inBuf[1]) \in Seq(1..MaxInputs)
    BY <2>2, AppendProperties, Parts, ConcatProperties DEF Chunks
  <2>5. (got \o Append(inPipe, inBuf[1])) \o <<>> = (got \o inPipe) \o inBuf
    BY <2>2, <2>3, <2>4, ConcatEmptySeq
  <2>6. got' \o inPipe' \o inBuf' \o inFifo' = got \o inPipe \o inBuf \o inFifo
    BY <1>InCopyWrites, <2>1, <2>5 DEF InCopyWrites
  <2> QED
    BY <1>InCopyWrites, <2>6 DEF InCopyWrites, FlowInv, Flowing
<1>CopyFails. ASSUME CopyFails PROVE FlowInv'
  BY <1>CopyFails DEF CopyFails, ProcessReads, FlowInv, Flowing
<1>InCopyEof. ASSUME InCopyEof PROVE FlowInv'
  BY <1>InCopyEof DEF InCopyEof, FlowInv, Flowing
<1>InCopyEnds. ASSUME InCopyEnds PROVE FlowInv'
  BY <1>InCopyEnds DEF InCopyEnds, FlowInv, Flowing
<1>InCopyCancelled. ASSUME InCopyCancelled PROVE FlowInv'
  BY <1>InCopyCancelled DEF InCopyCancelled, FlowInv, Flowing
<1>ProcessTakes. ASSUME ProcessTakes PROVE FlowInv'
  <2>1. inPipe # <<>> /\ inPipe' = Tail(inPipe) /\ got' = Append(got, Head(inPipe))
    BY <1>ProcessTakes DEF ProcessTakes
  <2>2. Append(got, Head(inPipe)) \o Tail(inPipe) = got \o inPipe
    BY <2>1, Moved, SMTT(30) DEF Chunks
  <2>3. got' \o inPipe' \o inBuf' \o inFifo' = got \o inPipe \o inBuf \o inFifo
    BY <1>ProcessTakes, <2>1, <2>2 DEF ProcessTakes
  <2> QED
    BY <1>ProcessTakes, <2>3 DEF ProcessTakes, FlowInv, Flowing
<1>ProcessSeesEof. ASSUME ProcessSeesEof PROVE FlowInv'
  BY <1>ProcessSeesEof DEF ProcessSeesEof, FlowInv, Flowing
<1>InProcessExits. ASSUME InProcessExits PROVE FlowInv'
  BY <1>InProcessExits DEF InProcessExits, FlowInv, Flowing
<1>CloseIO. ASSUME CloseIO PROVE FlowInv'
  <2>1. CASE inFifo' = inFifo /\ skipped' = skipped
    BY <1>CloseIO, <2>1 DEF CloseIO, FlowInv, Flowing
  <2>2. CASE inFifo' = <<>> /\ skipped' = skipped + Len(inFifo)
    <3>1. CASE inCopy = "none"
      <4>1. got = <<>> /\ inPipe = <<>> /\ inBuf = <<>>
        BY <3>1 DEF StartInv
      <4>2. skipped' = inWritten
        BY <2>2, <4>1, Counted
      <4> QED
        BY <1>CloseIO, <2>2, <4>1, <4>2, EmptyRun DEF CloseIO, FlowInv
    <3>2. CASE inCopy # "none"
      BY <1>CloseIO, <2>1, <3>2 DEF CloseIO, Kept, FlowInv, Flowing
    <3> QED
      BY <3>1, <3>2
  <2> QED
    BY <1>CloseIO, <2>1, <2>2 DEF CloseIO, Kept
<1>StartExec. ASSUME StartExec PROVE FlowInv'
  BY <1>StartExec DEF StartExec, inData, StartInv, FlowInv, Flowing
<1>StartSucceeds. ASSUME StartSucceeds PROVE FlowInv'
  BY <1>StartSucceeds DEF StartSucceeds, inData, FlowInv, Flowing
<1>StartFails. ASSUME StartFails PROVE FlowInv'
  BY <1>StartFails DEF StartFails, Renewed, FlowInv, Flowing
<1>StartAborted. ASSUME StartAborted PROVE FlowInv'
  <2>1. /\ got = <<>> /\ inPipe' = <<>> /\ inBuf' = <<>> /\ inFifo' = inFifo
        /\ skipped' = skipped + Len(inPipe) + Len(inBuf) /\ inWritten' = inWritten /\ got' = got
    BY <1>StartAborted DEF StartAborted, StartInv
  <2>2. Len(got) = 0
    BY <2>1
  <2>3. inFifo = Run(skipped', inWritten - skipped')
    BY <2>1, <2>2, Counted DEF CountInv
  <2>4. <<>> \o <<>> \o <<>> \o inFifo = inFifo
    BY ConcatEmptySeq DEF Chunks
  <2> QED
    BY <2>1, <2>3, <2>4 DEF FlowInv
<1>DeleteExec. ASSUME DeleteExec PROVE FlowInv'
  BY <1>DeleteExec DEF DeleteExec, FlowInv, Flowing
<1>ExecDeleted. ASSUME ExecDeleted PROVE FlowInv'
  BY <1>ExecDeleted DEF ExecDeleted, FlowInv, Flowing
<1>ContainerdOpens. ASSUME ContainerdOpens PROVE FlowInv'
  BY <1>ContainerdOpens DEF ContainerdOpens, inData, FlowInv, Flowing
<1>ContainerdWrites. ASSUME ContainerdWrites PROVE FlowInv'
  <2>1. inFifo' = Append(inFifo, inWritten + 1) /\ inWritten' = inWritten + 1 /\ inWritten + 1 \in 1..MaxInputs
    BY <1>ContainerdWrites, Behind DEF ContainerdWrites
  <2>2. got \o inPipe \o inBuf \in Seq(1..MaxInputs)
    BY Parts, ConcatProperties DEF Chunks
  <2> DEFINE s == got \o inPipe \o inBuf
  <2>3. s \in Seq(1..MaxInputs) /\ inFifo \in Seq(1..MaxInputs)
    BY <2>2, Parts DEF Chunks
  <2> HIDE DEF s
  <2>4. s \o Append(inFifo, inWritten + 1) = Append(s \o inFifo, inWritten + 1)
    BY <2>1, <2>3, Joined
  <2> DEFINE n == inWritten - skipped
  <2>5. skipped \in Nat /\ n \in Nat /\ skipped + n + 1 = inWritten + 1 /\ n + 1 = inWritten + 1 - skipped
    BY Counted, Behind, Difference
  <2>6. Append(Run(skipped, n), skipped + n + 1) = Run(skipped, n + 1)
    BY <2>5, RunAppend
  <2>7. Append(Run(skipped, inWritten - skipped), inWritten + 1) = Run(skipped, inWritten + 1 - skipped)
    BY <2>5, <2>6
  <2>8. got' \o inPipe' \o inBuf' \o inFifo' = Append(got \o inPipe \o inBuf \o inFifo, inWritten + 1)
    BY <1>ContainerdWrites, <2>1, <2>4 DEF ContainerdWrites, s
  <2>9. skipped' = skipped /\ (Flowing' => Flowing)
    BY <1>ContainerdWrites DEF ContainerdWrites, Flowing
  <2>10. Run(skipped', inWritten' - skipped') = Run(skipped, inWritten + 1 - skipped)
    <3>1. inWritten' = inWritten + 1 /\ skipped' = skipped
      BY <2>1, <2>9
    <3>2. inWritten' - skipped' = inWritten + 1 - skipped
      BY <3>1, Counted
    <3> QED
      BY <3>1, <3>2
  <2> QED
    BY <2>7, <2>8, <2>9, <2>10, Zenon DEF FlowInv
<1>ContainerdCloses. ASSUME ContainerdCloses PROVE FlowInv'
  <2>1. CASE inFifo' = inFifo /\ skipped' = skipped
    BY <1>ContainerdCloses, <2>1 DEF ContainerdCloses, FlowInv, Flowing
  <2>2. CASE inFifo' = <<>> /\ skipped' = skipped + Len(inFifo)
    <3>1. CASE inCopy = "none"
      <4>1. got = <<>> /\ inPipe = <<>> /\ inBuf = <<>>
        BY <3>1 DEF StartInv
      <4>2. skipped' = inWritten
        BY <2>2, <4>1, Counted
      <4> QED
        BY <1>ContainerdCloses, <2>2, <4>1, <4>2, EmptyRun DEF ContainerdCloses, FlowInv
    <3>2. CASE inCopy # "none"
      BY <1>ContainerdCloses, <2>1, <3>2 DEF ContainerdCloses, Kept, FlowInv, Flowing
    <3> QED
      BY <3>1, <3>2
  <2> QED
    BY <1>ContainerdCloses, <2>1, <2>2 DEF ContainerdCloses, Kept
<1>Stutter. ASSUME UNCHANGED stdinVars PROVE FlowInv'
  BY <1>Stutter DEF stdinVars, FlowInv, Flowing
<1> QED
  BY <1>InCopyReads, <1>InCopyWrites, <1>CopyFails, <1>InCopyEof, <1>InCopyEnds, <1>InCopyCancelled,
     <1>ProcessTakes, <1>ProcessSeesEof, <1>InProcessExits, <1>CloseIO, <1>StartExec,
     <1>StartSucceeds, <1>StartFails, <1>StartAborted, <1>DeleteExec, <1>ExecDeleted,
     <1>ContainerdOpens, <1>ContainerdWrites, <1>ContainerdCloses, <1>Stutter
  DEF InNext, InCopyStep, InProcess, Shim, InContainerd

(* The first state satisfies the invariant: nothing is written yet.        *)
LEMMA InitInv == InInit => IInv
<1> SUFFICES ASSUME InInit PROVE IInv
  OBVIOUS
<1>1. /\ got = <<>> /\ inPipe = <<>> /\ inBuf = <<>> /\ inFifo = <<>> /\ inWritten = 0 /\ skipped = 0
      /\ Len(<<>>) = 0 /\ <<>> \in Seq(1..MaxInputs)
  BY EmptySeq DEF InInit
<1>2. InTypeOK
  <2>1. 0 \in 0..MaxInputs /\ 0 \in 0..MaxFails /\ 0 <= InFifoSize /\ 0 <= InPipeSize
    BY InConstantsAssumption
  <2>2. /\ {hold, fresh} \subseteq {"Pending", "Open", "Released"}
        /\ {inCancel, writer, eof, closed} \subseteq BOOLEAN
    BY DEF InInit
  <2> QED
    BY <1>1, <2>1, <2>2 DEF InInit, InTypeOK
<1>3. StartInv /\ HoldInv
  BY DEF InInit, StartInv, HoldInv
<1>4. CountInv /\ FlowInv
  BY <1>1, EmptyRun DEF CountInv, FlowInv
<1> QED
  BY <1>2, <1>3, <1>4 DEF IInv

(* Where the chunks are and what the hold stands for is as IInv has it.    *)
THEOREM Invariant == InSpec => []IInv
<1>1. InInit => IInv
  BY InitInv
<1>2. IInv /\ [InNext]_stdinVars => IInv'
  BY TypeStep, StartStep, HoldStep, CountStep, FlowStep DEF IInv
<1> QED
  BY <1>1, <1>2, PTL DEF InSpec

(* Input reaches the process whole and in order, and EOF comes only after  *)
(* CloseIO, whoever opens and closes the fifo and whatever start fails.    *)
THEOREM InputIsKept == InSpec => []InputKept
<1>1. IInv => InputKept
  BY DEF IInv, HoldInv, FlowInv, Flowing, Run, InputKept
<1> QED
  BY <1>1, Invariant, PTL
============================================================================

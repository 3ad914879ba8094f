--------------------------- MODULE PublisherProofs ---------------------------
(***************************************************************************)
(* Theorems about Publisher, for any events, any capacity of the queue and *)
(* any number of retries, restarts and timeouts: where an event is, and    *)
(* that the publisher implements EventDelivery.                            *)
(***************************************************************************)
EXTENDS Publisher, SequenceTheorems, FiniteSetTheorems, TLAPS

Distinct(s) == \A i, j \in DOMAIN s : s[i] = s[j] => i = j

(* An event is in one place at most, and in one as long as its end is open.*)
PlaceInv ==
  /\ Distinct(queue) /\ Distinct(waiting)
  /\ \A e \in Events :
       /\ In(e, queue) => ~ In(e, waiting) /\ hand # e /\ e \notin asleep
       /\ In(e, waiting) => hand # e /\ e \notin asleep
       /\ hand = e => e \notin asleep
       /\ (In(e, queue) \/ In(e, waiting) \/ hand = e \/ e \in asleep)
            <=> (e \in published /\ outcome[e] = "none")

(* Its item is counted up for each attempt that failed; it was accepted    *)
(* when it got into the channel, and it is before it is counted.           *)
CountInv ==
  \A e \in Events :
    /\ e \notin published => count[e] = 0 /\ outcome[e] = "none"
    /\ hand = e \/ outcome[e] = "forwarded" => count[e] <= MAX_REQUEUE
    /\ e \in asleep \/ outcome[e] \in {"exhausted", "overflowed"} => count[e] > 0
    /\ In(e, accepted) <=>
         /\ e \in published /\ outcome[e] # "refused"
         /\ ~ (In(e, waiting) /\ count[e] = 0)
    /\ outcome[e] = "refused" => count[e] = 0

WorkInv ==
  /\ work = "recv" <=> hand = NoEvent
  /\ work = "answer" => In(hand, received)
  /\ \A e \in Events : outcome[e] = "forwarded" => In(e, received)

IInv == TypeOK /\ PlaceInv /\ CountInv /\ WorkInv

(* The fault that broke the connection is charged to the event that meets  *)
(* it, when the worker has tried to reconnect; it is still owed until then.*)
FaultInv ==
  /\ work = "reconnect" => conn = "broken"
  /\ IsFiniteSet(Failed)
  /\ Cardinality(Failed) + (IF conn = "broken" THEN 1 ELSE 0) <= crashes + lapses
------------------------------------------------------------------------------
(* What the operations of a channel do to who is in it.                    *)
LEMMA AppendFacts ==
  ASSUME NEW s \in Seq(Events), NEW f \in Events
  PROVE  /\ Append(s, f) \in Seq(Events) /\ Len(Append(s, f)) = Len(s) + 1
         /\ \A e : In(e, Append(s, f)) <=> In(e, s) \/ e = f
         /\ Distinct(s) /\ ~ In(f, s) => Distinct(Append(s, f))
<1>1. /\ Append(s, f) \in Seq(Events) /\ Len(Append(s, f)) = Len(s) + 1
      /\ DOMAIN Append(s, f) = 1..Len(s) + 1 /\ DOMAIN s = 1..Len(s)
      /\ \A i \in 1..Len(s) : Append(s, f)[i] = s[i]
      /\ Append(s, f)[Len(s) + 1] = f /\ Len(s) \in Nat
  BY AppendProperties
<1>2. ASSUME NEW e PROVE In(e, Append(s, f)) <=> In(e, s) \/ e = f
  BY <1>1 DEF In
<1>3. Distinct(s) /\ ~ In(f, s) => Distinct(Append(s, f))
  BY <1>1 DEF In, Distinct
<1> QED
  BY <1>1, <1>2, <1>3

(* A receive takes the head, and nobody else, out of a channel.            *)
LEMMA TailFacts ==
  ASSUME NEW s \in Seq(Events), s # <<>>
  PROVE  /\ Tail(s) \in Seq(Events) /\ Head(s) \in Events /\ In(Head(s), s)
         /\ Len(s) \in Nat \ {0} /\ Len(Tail(s)) = Len(s) - 1
         /\ Distinct(s) => /\ Distinct(Tail(s))
                           /\ \A e : In(e, Tail(s)) <=> In(e, s) /\ e # Head(s)
<1>1. /\ Tail(s) \in Seq(Events) /\ Head(s) = s[1] /\ Len(s) \in Nat \ {0}
      /\ Len(Tail(s)) = Len(s) - 1
      /\ DOMAIN Tail(s) = 1..Len(s) - 1 /\ DOMAIN s = 1..Len(s)
      /\ \A i \in 1..Len(s) - 1 : Tail(s)[i] = s[i + 1]
  BY HeadTailProperties
<1>2. Head(s) \in Events /\ In(Head(s), s)
  BY <1>1, ElementOfSeq DEF In
<1>3. Distinct(s) => Distinct(Tail(s))
  BY <1>1 DEF Distinct
<1>4. ASSUME Distinct(s), NEW e PROVE In(e, Tail(s)) <=> In(e, s) /\ e # Head(s)
  <2>1. ASSUME In(e, s), e # Head(s) PROVE In(e, Tail(s))
    <3>1. PICK i \in 1..Len(s) : s[i] = e
      BY <1>1, <2>1 DEF In
    <3>2. i - 1 \in 1..Len(s) - 1 /\ Tail(s)[i - 1] = e
      BY <1>1, <2>1, <3>1
    <3> QED
      BY <1>1, <3>2 DEF In
  <2>2. ASSUME In(e, Tail(s)) PROVE In(e, s) /\ e # Head(s)
    <3>1. PICK i \in 1..Len(s) - 1 : Tail(s)[i] = e
      BY <1>1, <2>2 DEF In
    <3>2. i + 1 \in 1..Len(s) /\ s[i + 1] = e /\ i + 1 # 1
      BY <1>1, <3>1
    <3> QED
      BY <1>1, <1>4, <3>2 DEF In, Distinct
  <2> QED
    BY <2>1, <2>2
<1> QED
  BY <1>1, <1>2, <1>3, <1>4

(* A sender that gives up leaves the line of those that wait, nobody else.  *)
LEMMA RemoveFacts ==
  ASSUME NEW s \in Seq(Events), Distinct(s), NEW i \in DOMAIN s
  PROVE  /\ RemoveAt(s, i) \in Seq(Events) /\ Distinct(RemoveAt(s, i))
         /\ \A e : In(e, RemoveAt(s, i)) <=> In(e, s) /\ e # s[i]
<1> DEFINE r == RemoveAt(s, i)
<1>1. /\ Len(s) \in Nat /\ DOMAIN s = 1..Len(s) /\ i \in 1..Len(s)
      /\ r \in Seq(Events) /\ DOMAIN r = 1..Len(s) - 1
      /\ \A j \in 1..Len(s) - 1 : r[j] = IF j < i THEN s[j] ELSE s[j + 1]
  <2>1. /\ Len(s) \in Nat /\ DOMAIN s = 1..Len(s) /\ i \in 1..Len(s)
    BY LenProperties
  <2> DEFINE a == SubSeq(s, 1, i - 1)
             b == SubSeq(s, i + 1, Len(s))
  <2>2. a \in Seq(Events) /\ Len(a) = i - 1 /\ \A j \in 1..i - 1 : a[j] = s[j]
    BY <2>1, SubSeqProperties
  <2>3. b \in Seq(Events) /\ Len(b) = Len(s) - i /\ \A j \in 1..Len(s) - i : b[j] = s[i + j]
    BY <2>1, SubSeqProperties
  <2>4. /\ a \o b \in Seq(Events) /\ Len(a \o b) = Len(a) + Len(b)
        /\ \A j \in 1..Len(a) + Len(b) :
             (a \o b)[j] = IF j <= Len(a) THEN a[j] ELSE b[j - Len(a)]
    BY <2>2, <2>3, ConcatProperties
  <2>5. r = a \o b
    BY DEF RemoveAt
  <2>6. DOMAIN r = 1..Len(s) - 1
    BY <2>1, <2>2, <2>3, <2>4, <2>5, LenProperties
  <2>7. ASSUME NEW j \in 1..Len(s) - 1 PROVE r[j] = IF j < i THEN s[j] ELSE s[j + 1]
    <3>1. j \in 1..Len(a) + Len(b)
      BY <2>1, <2>2, <2>3
    <3>2. CASE j < i
      BY <2>1, <2>2, <2>4, <2>5, <3>1, <3>2
    <3>3. CASE ~ (j < i)
      <4>1. j - Len(a) \in 1..Len(s) - i /\ ~ (j <= Len(a)) /\ i + (j - Len(a)) = j + 1
        BY <2>1, <2>2, <3>3
      <4> QED
        BY <2>3, <2>4, <2>5, <3>1, <3>3, <4>1, SMTT(30)
    <3> QED
      BY <3>2, <3>3
  <2> QED
    BY <2>1, <2>4, <2>5, <2>6, <2>7
<1> DEFINE at(j) == IF j < i THEN j ELSE j + 1
<1> HIDE DEF r
<1>2. \A j \in DOMAIN r : at(j) \in DOMAIN s /\ r[j] = s[at(j)] /\ at(j) # i
  BY <1>1
<1>3. \A j, k \in DOMAIN r : at(j) = at(k) => j = k
  BY <1>1
<1>4. Distinct(r)
  BY <1>2, <1>3 DEF Distinct
<1>5. ASSUME NEW e PROVE In(e, r) <=> In(e, s) /\ e # s[i]
  <2>1. ASSUME In(e, s), e # s[i] PROVE In(e, r)
    <3>1. PICK j \in 1..Len(s) : s[j] = e
      BY <1>1, <2>1 DEF In
    <3>2. CASE j < i
      BY <1>1, <3>1, <3>2 DEF In
    <3>3. CASE j > i
      <4>1. j - 1 \in 1..Len(s) - 1 /\ r[j - 1] = e
        BY <1>1, <3>1, <3>3
      <4> QED
        BY <1>1, <4>1 DEF In
    <3> QED
      BY <1>1, <2>1, <3>1, <3>2, <3>3
  <2>2. ASSUME In(e, r) PROVE In(e, s) /\ e # s[i]
    <3>1. PICK j \in DOMAIN r : r[j] = e
      BY <2>2 DEF In
    <3>2. at(j) \in DOMAIN s /\ s[at(j)] = e /\ at(j) # i
      BY <1>2, <3>1
    <3> QED
      BY <3>2 DEF In, Distinct
  <2> QED
    BY <2>1, <2>2
<1> QED
  BY <1>1, <1>4, <1>5 DEF r

(* The first item of an event enters the record of what was accepted.      *)
LEMMA FreshFacts ==
  ASSUME NEW s \in Seq(Events), NEW f \in Events
  PROVE  /\ s \o Fresh(f) \in Seq(Events)
         /\ \A e : In(e, s \o Fresh(f)) <=> In(e, s) \/ (e = f /\ count[f] = 0)
<1>1. CASE count[f] = 0
  <2>1. s \o Fresh(f) = Append(s, f)
    BY <1>1, AppendIsConcat DEF Fresh
  <2> QED
    BY <1>1, <2>1, AppendFacts
<1>2. CASE count[f] # 0
  <2>1. s \o Fresh(f) = s
    BY <1>2, ConcatEmptySeq DEF Fresh
  <2> QED
    BY <1>2, <2>1
<1> QED
  BY <1>1, <1>2
------------------------------------------------------------------------------
(* A send puts an event into the queue or, without room, among those that  *)
(* wait for it.                                                            *)
Sent(e) ==
  \/ /\ waiting' = waiting
     /\ \A f \in Events : In(f, queue') <=> In(f, queue) \/ f = e
     /\ \A f \in Events : In(f, accepted') <=> In(f, accepted) \/ (f = e /\ count[f] = 0)
  \/ /\ queue' = queue /\ accepted' = accepted
     /\ \A f \in Events : In(f, waiting') <=> In(f, waiting) \/ f = e

(* That is what Send does, and it keeps the channel within its capacity.   *)
LEMMA SendFacts ==
  ASSUME TypeOK, PlaceInv, NEW e \in Events, Send(e), ~ In(e, queue), ~ In(e, waiting)
  PROVE  /\ queue' \in Seq(Events) /\ waiting' \in Seq(Events) /\ accepted' \in Seq(Events)
         /\ Len(queue') <= QUEUE_SIZE
         /\ Distinct(queue') /\ Distinct(waiting')
         /\ Sent(e)
<1>1. /\ queue \in Seq(Events) /\ waiting \in Seq(Events) /\ accepted \in Seq(Events)
      /\ Len(queue) <= QUEUE_SIZE /\ Distinct(queue) /\ Distinct(waiting)
      /\ Len(queue) \in Nat /\ QUEUE_SIZE \in Nat
  BY ConstantsAssumption, LenProperties DEF TypeOK, PlaceInv
<1>2. CASE Len(queue) < QUEUE_SIZE
  <2>1. queue' = Append(queue, e) /\ waiting' = waiting /\ accepted' = accepted \o Fresh(e)
    BY <1>2 DEF Send
  <2>2. Len(queue) + 1 <= QUEUE_SIZE
    BY <1>1, <1>2
  <2> QED
    BY <1>1, <2>1, <2>2, AppendFacts, FreshFacts DEF Sent
<1>3. CASE ~ (Len(queue) < QUEUE_SIZE)
  <2>1. queue' = queue /\ waiting' = Append(waiting, e) /\ accepted' = accepted
    BY <1>3 DEF Send
  <2> QED
    BY <1>1, <2>1, AppendFacts DEF Sent
<1> QED
  BY <1>2, <1>3

(* A receive takes the first event of the queue and lets in w, who waited  *)
(* longest, if anybody did.                                                *)
Received(h, w) ==
  /\ h \in Events /\ In(h, queue)
  /\ w # NoEvent => w \in Events /\ In(w, waiting)
  /\ \A f \in Events :
       /\ In(f, queue') <=> (In(f, queue) /\ f # h) \/ f = w
       /\ In(f, waiting') <=> In(f, waiting) /\ f # w
       /\ In(f, accepted') <=> In(f, accepted) \/ (f = w /\ count[f] = 0)

(* That is what Recv does, and it keeps the channel within its capacity.   *)
LEMMA RecvFacts ==
  ASSUME TypeOK, PlaceInv, Recv
  PROVE  /\ queue' \in Seq(Events) /\ waiting' \in Seq(Events) /\ accepted' \in Seq(Events)
         /\ Len(queue') <= QUEUE_SIZE
         /\ Distinct(queue') /\ Distinct(waiting')
         /\ \E w : Received(Head(queue), w)
<1>1. /\ queue \in Seq(Events) /\ waiting \in Seq(Events) /\ accepted \in Seq(Events)
      /\ Len(queue) <= QUEUE_SIZE /\ Distinct(queue) /\ Distinct(waiting)
      /\ QUEUE_SIZE \in Nat /\ queue # <<>>
  BY ConstantsAssumption DEF TypeOK, PlaceInv, Recv
<1>2. /\ Tail(queue) \in Seq(Events) /\ Distinct(Tail(queue)) /\ Head(queue) \in Events
      /\ In(Head(queue), queue) /\ Len(queue) \in Nat /\ Len(Tail(queue)) + 1 = Len(queue)
      /\ \A f : In(f, Tail(queue)) <=> In(f, queue) /\ f # Head(queue)
  BY <1>1, TailFacts
<1>3. CASE waiting = <<>>
  <2>1. queue' = Tail(queue) /\ waiting' = waiting /\ accepted' = accepted
    BY <1>3 DEF Recv
  <2>2. Len(queue') <= QUEUE_SIZE
    BY <1>1, <1>2, <2>1
  <2>3. Received(Head(queue), NoEvent)
    BY <1>2, <2>1, ConstantsAssumption DEF Received
  <2> QED
    BY <1>1, <1>2, <2>1, <2>2, <2>3
<1>4. CASE waiting # <<>>
  <2> DEFINE w == Head(waiting)
  <2>1. /\ queue' = Append(Tail(queue), w) /\ waiting' = Tail(waiting)
        /\ accepted' = accepted \o Fresh(w)
    BY <1>4 DEF Recv
  <2>2. /\ w \in Events /\ In(w, waiting) /\ Tail(waiting) \in Seq(Events) /\ Distinct(Tail(waiting))
        /\ \A f : In(f, Tail(waiting)) <=> In(f, waiting) /\ f # w
    BY <1>1, <1>4, TailFacts
  <2>3. ~ In(w, Tail(queue))
    BY <1>2, <2>2 DEF PlaceInv
  <2>4. /\ queue' \in Seq(Events) /\ Len(queue') = Len(queue) /\ Distinct(queue')
        /\ \A f : In(f, queue') <=> In(f, Tail(queue)) \/ f = w
    BY <1>2, <2>1, <2>2, <2>3, AppendFacts
  <2>5. /\ accepted' \in Seq(Events)
        /\ \A f : In(f, accepted') <=> In(f, accepted) \/ (f = w /\ count[f] = 0)
    BY <1>1, <2>1, <2>2, FreshFacts
  <2>6. Received(Head(queue), w)
    BY <1>2, <2>1, <2>2, <2>4, <2>5 DEF Received
  <2> QED
    BY <1>1, <2>1, <2>2, <2>4, <2>5, <2>6
<1> QED
  BY <1>3, <1>4

(* A sender that times out is no longer among those that wait.             *)
LEMMA TimesOutFacts ==
  ASSUME TypeOK, PlaceInv, NEW e \in Events, SendTimesOut(e)
  PROVE  /\ waiting' \in Seq(Events) /\ Distinct(waiting') /\ In(e, waiting)
         /\ \A f \in Events : In(f, waiting') <=> In(f, waiting) /\ f # e
<1>1. PICK i \in DOMAIN waiting : waiting[i] = e /\ waiting' = RemoveAt(waiting, i)
  BY DEF SendTimesOut
<1>2. waiting \in Seq(Events) /\ Distinct(waiting)
  BY DEF TypeOK, PlaceInv
<1>3. In(e, waiting)
  BY <1>1 DEF In
<1> QED
  BY <1>1, <1>2, <1>3, RemoveFacts

(* An event that is published or sent again is in no place a send fills.   *)
LEMMA SenderIsNowhere ==
  ASSUME PlaceInv, NEW e \in Events, e \notin published \/ e \in asleep
  PROVE  ~ In(e, queue) /\ ~ In(e, waiting)
  BY DEF PlaceInv

(* A step keeps the types, the capacity of the queue and the bound on the  *)
(* count of an item.                                                       *)
LEMMA TypeStep ==
  ASSUME TypeOK, PlaceInv, CountInv, WorkInv, [Next]_vars
  PROVE  TypeOK'
<1>Publish. ASSUME NEW e \in Events, Publish(e) PROVE TypeOK'
  <2>1. ~ In(e, queue) /\ ~ In(e, waiting) /\ Send(e)
    BY <1>Publish, SenderIsNowhere DEF Publish
  <2>2. Sent(e) /\ Distinct(queue') /\ Distinct(waiting')
    BY <2>1, SendFacts
  <2> QED
    BY <1>Publish, <2>1, <2>2, SendFacts DEF Publish, worker, items, containerd, client, TypeOK
<1>Requeue. ASSUME NEW e \in Events, Requeue(e) PROVE TypeOK'
  <2>1. ~ In(e, queue) /\ ~ In(e, waiting) /\ Send(e)
    BY <1>Requeue, SenderIsNowhere DEF Requeue
  <2>2. Sent(e) /\ Distinct(queue') /\ Distinct(waiting')
    BY <2>1, SendFacts
  <2> QED
    BY <1>Requeue, <2>1, <2>2, SendFacts DEF Requeue, worker, containerd, client, TypeOK
<1>SendTimesOut. ASSUME NEW e \in Events, SendTimesOut(e) PROVE TypeOK'
  BY <1>SendTimesOut, TimesOutFacts DEF SendTimesOut, worker, containerd, client, TypeOK
<1>Drop. ASSUME Drop PROVE TypeOK'
  <2>1. PICK w : Received(Head(queue), w)
    BY <1>Drop, RecvFacts DEF Drop
  <2> QED
    BY <1>Drop, <2>1, RecvFacts DEF Drop, worker, containerd, client, TypeOK
<1>Take. ASSUME Take PROVE TypeOK'
  <2>1. PICK w : Received(Head(queue), w)
    BY <1>Take, RecvFacts DEF Take
  <2> QED
    BY <1>Take, <2>1, RecvFacts DEF Take, Received, items, containerd, client, TypeOK
<1>ServerReceives. ASSUME ServerReceives PROVE TypeOK'
  BY <1>ServerReceives, AppendFacts DEF ServerReceives, channel, items, client, TypeOK, WorkInv
<1>Forwarded. ASSUME Forwarded PROVE TypeOK'
  BY <1>Forwarded DEF Forwarded, channel, containerd, client, TypeOK
<1>OtherError. ASSUME OtherError PROVE TypeOK'
  BY <1>OtherError, ConstantsAssumption DEF OtherError, SpawnRetry, channel, containerd, TypeOK,
     CountInv, WorkInv
<1>Closed. ASSUME Closed PROVE TypeOK'
  BY <1>Closed DEF Closed, channel, items, containerd, client, TypeOK
<1>Reconnect. ASSUME Reconnect PROVE TypeOK'
  BY <1>Reconnect, ConstantsAssumption, SMTT(30) DEF Reconnect, SpawnRetry, connect, channel, containerd,
     TypeOK, CountInv, WorkInv
<1>Crash. ASSUME Crash PROVE TypeOK'
  BY <1>Crash, ConstantsAssumption DEF Crash, channel, worker, items, TypeOK
<1>Restart. ASSUME Restart PROVE TypeOK'
  BY <1>Restart DEF Restart, channel, worker, items, client, TypeOK
<1>Stutter. ASSUME UNCHANGED vars PROVE TypeOK'
  BY <1>Stutter DEF vars, TypeOK
<1> QED
  BY <1>Publish, <1>Requeue, <1>SendTimesOut, <1>Drop, <1>Take, <1>ServerReceives, <1>Forwarded,
     <1>OtherError, <1>Closed, <1>Reconnect, <1>Crash, <1>Restart, <1>Stutter
  DEF Next, Worker

(* A step keeps an event in one place, or in none once it has ended.       *)
LEMMA PlaceStep ==
  ASSUME TypeOK, PlaceInv, CountInv, WorkInv, [Next]_vars
  PROVE  PlaceInv'
<1>Publish. ASSUME NEW e \in Events, Publish(e) PROVE PlaceInv'
  <2>1. ~ In(e, queue) /\ ~ In(e, waiting) /\ Send(e)
    BY <1>Publish, SenderIsNowhere DEF Publish
  <2>2. Sent(e) /\ Distinct(queue') /\ Distinct(waiting')
    BY <2>1, SendFacts
  <2> QED
    BY <1>Publish, <2>1, <2>2 DEF Publish, Sent, worker, items, PlaceInv, CountInv
<1>Requeue. ASSUME NEW e \in Events, Requeue(e) PROVE PlaceInv'
  <2>1. ~ In(e, queue) /\ ~ In(e, waiting) /\ Send(e)
    BY <1>Requeue, SenderIsNowhere DEF Requeue
  <2>2. Sent(e) /\ Distinct(queue') /\ Distinct(waiting')
    BY <2>1, SendFacts
  <2> QED
    BY <1>Requeue, <2>1, <2>2 DEF Requeue, Sent, worker, PlaceInv
<1>SendTimesOut. ASSUME NEW e \in Events, SendTimesOut(e) PROVE PlaceInv'
  BY <1>SendTimesOut, TimesOutFacts DEF SendTimesOut, worker, TypeOK, PlaceInv
<1>Drop. ASSUME Drop PROVE PlaceInv'
  <2>1. PICK w : Received(Head(queue), w)
    BY <1>Drop, RecvFacts DEF Drop
  <2> QED
    BY <1>Drop, <2>1, RecvFacts, ConstantsAssumption DEF Drop, Received, worker, TypeOK, PlaceInv
<1>Take. ASSUME Take PROVE PlaceInv'
  <2>1. Distinct(queue') /\ Distinct(waiting')
    BY <1>Take, RecvFacts DEF Take
  <2>2. PICK w : Received(Head(queue), w)
    BY <1>Take, RecvFacts DEF Take
  <2>3. /\ hand = NoEvent /\ hand' = Head(queue) /\ asleep' = asleep
        /\ published' = published /\ outcome' = outcome
    BY <1>Take DEF Take, Recv, items, WorkInv
  <2>4. w # Head(queue)
    BY <2>2, ConstantsAssumption DEF Received, PlaceInv
  <2> QED
    BY <2>1, <2>2, <2>3, <2>4, ConstantsAssumption DEF Received, PlaceInv
<1>ServerReceives. ASSUME ServerReceives PROVE PlaceInv'
  BY <1>ServerReceives, AppendFacts DEF ServerReceives, channel, items, PlaceInv
<1>Forwarded. ASSUME Forwarded PROVE PlaceInv'
  BY <1>Forwarded, ConstantsAssumption DEF Forwarded, channel, TypeOK, PlaceInv
<1>OtherError. ASSUME OtherError PROVE PlaceInv'
  BY <1>OtherError, ConstantsAssumption DEF OtherError, SpawnRetry, channel, PlaceInv
<1>Closed. ASSUME Closed PROVE PlaceInv'
  BY <1>Closed DEF Closed, channel, items, PlaceInv
<1>Reconnect. ASSUME Reconnect PROVE PlaceInv'
  BY <1>Reconnect, ConstantsAssumption DEF Reconnect, SpawnRetry, connect, channel, PlaceInv
<1>Crash. ASSUME Crash PROVE PlaceInv'
  BY <1>Crash DEF Crash, channel, worker, items, PlaceInv
<1>Restart. ASSUME Restart PROVE PlaceInv'
  BY <1>Restart DEF Restart, channel, worker, items, PlaceInv
<1>Stutter. ASSUME UNCHANGED vars PROVE PlaceInv'
  BY <1>Stutter DEF vars, PlaceInv
<1> QED
  BY <1>Publish, <1>Requeue, <1>SendTimesOut, <1>Drop, <1>Take, <1>ServerReceives, <1>Forwarded,
     <1>OtherError, <1>Closed, <1>Reconnect, <1>Crash, <1>Restart, <1>Stutter
  DEF Next, Worker

(* A step keeps what the count of an item and its end say of each other,   *)
(* and that exactly what got past the first send was accepted.             *)
LEMMA CountStep ==
  ASSUME TypeOK, PlaceInv, CountInv, WorkInv, [Next]_vars
  PROVE  CountInv'
<1>Publish. ASSUME NEW e \in Events, Publish(e) PROVE CountInv'
  <2>1. ~ In(e, queue) /\ ~ In(e, waiting) /\ Send(e)
    BY <1>Publish, SenderIsNowhere DEF Publish
  <2>2. Sent(e) /\ Distinct(queue') /\ Distinct(waiting')
    BY <2>1, SendFacts
  <2> QED
    BY <1>Publish, <2>1, <2>2 DEF Publish, Sent, worker, items, CountInv
<1>Requeue. ASSUME NEW e \in Events, Requeue(e) PROVE CountInv'
  <2>1. ~ In(e, queue) /\ ~ In(e, waiting) /\ Send(e)
    BY <1>Requeue, SenderIsNowhere DEF Requeue
  <2>2. Sent(e) /\ Distinct(queue') /\ Distinct(waiting')
    BY <2>1, SendFacts
  <2> QED
    BY <1>Requeue, <2>1, <2>2 DEF Requeue, Sent, worker, CountInv
<1>SendTimesOut. ASSUME NEW e \in Events, SendTimesOut(e) PROVE CountInv'
  <2>1. In(e, waiting) /\ e \in published /\ outcome[e] = "none"
    BY <1>SendTimesOut, TimesOutFacts DEF PlaceInv
  <2>2. /\ accepted' = accepted /\ published' = published /\ hand' = hand /\ asleep' = asleep
        /\ count' = count
        /\ outcome' = [outcome EXCEPT ![e] = IF count[e] = 0 THEN "refused" ELSE "overflowed"]
    BY <1>SendTimesOut DEF SendTimesOut, worker
  <2>3. \A f \in Events : In(f, waiting') <=> In(f, waiting) /\ f # e
    BY <1>SendTimesOut, TimesOutFacts
  <2>4. count[e] \in Nat
    BY ConstantsAssumption DEF TypeOK
  <2> QED
    BY <2>1, <2>2, <2>3, <2>4 DEF TypeOK, CountInv
<1>Drop. ASSUME Drop PROVE CountInv'
  <2>1. PICK w : Received(Head(queue), w)
    BY <1>Drop, RecvFacts DEF Drop
  <2> QED
    BY <1>Drop, <2>1, ConstantsAssumption DEF Drop, Received, worker, TypeOK, PlaceInv, CountInv
<1>Take. ASSUME Take PROVE CountInv'
  <2>1. PICK w : Received(Head(queue), w)
    BY <1>Take, RecvFacts DEF Take
  <2> QED
    BY <1>Take, <2>1, ConstantsAssumption DEF Take, Received, items, PlaceInv, CountInv
<1>ServerReceives. ASSUME ServerReceives PROVE CountInv'
  BY <1>ServerReceives, AppendFacts DEF ServerReceives, channel, items, CountInv
<1>Forwarded. ASSUME Forwarded PROVE CountInv'
  BY <1>Forwarded, ConstantsAssumption DEF Forwarded, channel, PlaceInv, CountInv
<1>OtherError. ASSUME OtherError PROVE CountInv'
  BY <1>OtherError, ConstantsAssumption DEF OtherError, SpawnRetry, channel, TypeOK, PlaceInv,
     CountInv
<1>Closed. ASSUME Closed PROVE CountInv'
  BY <1>Closed DEF Closed, channel, items, CountInv
<1>Reconnect. ASSUME Reconnect PROVE CountInv'
  BY <1>Reconnect, ConstantsAssumption DEF Reconnect, SpawnRetry, connect, channel, TypeOK,
     PlaceInv, CountInv
<1>Crash. ASSUME Crash PROVE CountInv'
  BY <1>Crash DEF Crash, channel, worker, items, CountInv
<1>Restart. ASSUME Restart PROVE CountInv'
  BY <1>Restart DEF Restart, channel, worker, items, CountInv
<1>Stutter. ASSUME UNCHANGED vars PROVE CountInv'
  BY <1>Stutter DEF vars, CountInv
<1> QED
  BY <1>Publish, <1>Requeue, <1>SendTimesOut, <1>Drop, <1>Take, <1>ServerReceives, <1>Forwarded,
     <1>OtherError, <1>Closed, <1>Reconnect, <1>Crash, <1>Restart, <1>Stutter
  DEF Next, Worker

(* A step keeps what the worker does, what it holds and what it has        *)
(* forwarded in line with what containerd received.                        *)
LEMMA WorkStep ==
  ASSUME TypeOK, PlaceInv, CountInv, WorkInv, [Next]_vars
  PROVE  WorkInv'
<1>Publish. ASSUME NEW e \in Events, Publish(e) PROVE WorkInv'
  <2>1. ~ In(e, queue) /\ ~ In(e, waiting) /\ Send(e)
    BY <1>Publish, SenderIsNowhere DEF Publish
  <2>2. Sent(e) /\ Distinct(queue') /\ Distinct(waiting')
    BY <2>1, SendFacts
  <2> QED
    BY <1>Publish, <2>1, <2>2 DEF Publish, worker, items, containerd, WorkInv
<1>Requeue. ASSUME NEW e \in Events, Requeue(e) PROVE WorkInv'
  <2>1. ~ In(e, queue) /\ ~ In(e, waiting) /\ Send(e)
    BY <1>Requeue, SenderIsNowhere DEF Requeue
  <2>2. Sent(e) /\ Distinct(queue') /\ Distinct(waiting')
    BY <2>1, SendFacts
  <2> QED
    BY <1>Requeue, <2>1, <2>2 DEF Requeue, worker, containerd, WorkInv
<1>SendTimesOut. ASSUME NEW e \in Events, SendTimesOut(e) PROVE WorkInv'
  BY <1>SendTimesOut, TimesOutFacts DEF SendTimesOut, worker, containerd, WorkInv
<1>Drop. ASSUME Drop PROVE WorkInv'
  <2>1. PICK w : Received(Head(queue), w)
    BY <1>Drop, RecvFacts DEF Drop
  <2> QED
    BY <1>Drop, <2>1 DEF Drop, worker, containerd, WorkInv
<1>Take. ASSUME Take PROVE WorkInv'
  <2>1. PICK w : Received(Head(queue), w)
    BY <1>Take, RecvFacts DEF Take
  <2> QED
    BY <1>Take, <2>1, ConstantsAssumption DEF Take, Received, items, containerd, WorkInv
<1>ServerReceives. ASSUME ServerReceives PROVE WorkInv'
  BY <1>ServerReceives, AppendFacts DEF ServerReceives, items, TypeOK, WorkInv
<1>Forwarded. ASSUME Forwarded PROVE WorkInv'
  BY <1>Forwarded DEF Forwarded, containerd, WorkInv
<1>OtherError. ASSUME OtherError PROVE WorkInv'
  BY <1>OtherError DEF OtherError, SpawnRetry, containerd, WorkInv
<1>Closed. ASSUME Closed PROVE WorkInv'
  BY <1>Closed DEF Closed, items, containerd, WorkInv
<1>Reconnect. ASSUME Reconnect PROVE WorkInv'
  BY <1>Reconnect DEF Reconnect, SpawnRetry, connect, containerd, WorkInv
<1>Crash. ASSUME Crash PROVE WorkInv'
  BY <1>Crash DEF Crash, worker, items, WorkInv
<1>Restart. ASSUME Restart PROVE WorkInv'
  BY <1>Restart DEF Restart, worker, items, WorkInv
<1>Stutter. ASSUME UNCHANGED vars PROVE WorkInv'
  BY <1>Stutter DEF vars, WorkInv
<1> QED
  BY <1>Publish, <1>Requeue, <1>SendTimesOut, <1>Drop, <1>Take, <1>ServerReceives, <1>Forwarded,
     <1>OtherError, <1>Closed, <1>Reconnect, <1>Crash, <1>Restart, <1>Stutter
  DEF Next, Worker

(* A retry is one more failed attempt, and nothing else is.                *)
LEMMA RetryFails ==
  ASSUME TypeOK, CountInv, WorkInv, IsFiniteSet(Failed), SpawnRetry, work # "recv"
  PROVE  IsFiniteSet(Failed') /\ Cardinality(Failed') = Cardinality(Failed) + 1
<1>1. /\ hand \in Events /\ count[hand] \in Nat /\ count[hand] <= MAX_REQUEUE
      /\ MAX_REQUEUE \in Nat
  BY ConstantsAssumption DEF TypeOK, WorkInv, CountInv
<1>2. PICK a \in Events \X (1..MAX_REQUEUE + 1) : a = <<hand, count[hand] + 1>>
  <2>1. count[hand] + 1 \in 1..MAX_REQUEUE + 1
    BY <1>1
  <2> QED
    BY <1>1, <2>1, Zenon
<1>3. a \notin Failed
  BY <1>1, <1>2 DEF Failed
<1>4. Failed' = Failed \cup {a}
  <2>1. ASSUME NEW b \in Events \X (1..MAX_REQUEUE + 1)
        PROVE  b[2] <= count'[b[1]] <=> b[2] <= count[b[1]] \/ b = a
    <3>1. b[1] \in Events /\ b[2] \in Nat /\ count[b[1]] \in Nat /\ b = <<b[1], b[2]>>
      BY DEF TypeOK
    <3>2. CASE b[1] = hand
      <4>1. count'[b[1]] = count[hand] + 1
        BY <1>1, <3>2 DEF SpawnRetry, TypeOK
      <4>2. b = a <=> b[2] = count[hand] + 1
        BY <1>2, <3>1, <3>2
      <4> QED
        BY <1>1, <3>1, <3>2, <4>1, <4>2
    <3>3. CASE b[1] # hand
      <4>1. count'[b[1]] = count[b[1]] /\ b # a
        BY <1>2, <3>1, <3>3 DEF SpawnRetry, TypeOK
      <4> QED
        BY <4>1
    <3> QED
      BY <3>2, <3>3
  <2> QED
    BY <1>2, <2>1 DEF Failed
<1> QED
  BY <1>3, <1>4, FS_AddElement

(* A step fails one attempt at most, and only for a fault of its own or    *)
(* the one that is owed.                                                   *)
LEMMA FaultStep ==
  ASSUME TypeOK, PlaceInv, CountInv, WorkInv, FaultInv, [Next]_vars
  PROVE  FaultInv'
<1>1. crashes \in Nat /\ lapses \in Nat /\ Cardinality(Failed) \in Nat
  BY FS_CardinalityType, ConstantsAssumption DEF TypeOK, FaultInv
<1>2. ASSUME count' = count PROVE Failed' = Failed
  BY <1>2 DEF Failed
<1>Others. ASSUME count' = count, UNCHANGED <<conn, crashes, lapses>>,
                  work' = "reconnect" => work = "reconnect" \/ conn = "broken"
           PROVE  FaultInv'
  BY <1>2, <1>Others DEF FaultInv
<1>Sends. ASSUME NEW e \in Events, Publish(e) \/ Requeue(e) \/ SendTimesOut(e) PROVE FaultInv'
  BY <1>Others, <1>Sends DEF Publish, Requeue, SendTimesOut, worker, items, containerd, client
<1>Receives. ASSUME Drop \/ Take PROVE FaultInv'
  BY <1>Others, <1>Receives DEF Drop, Take, worker, items, containerd, client
<1>Forwards. ASSUME ServerReceives \/ Forwarded \/ Closed PROVE FaultInv'
  BY <1>Others, <1>Forwards DEF ServerReceives, Forwarded, Closed, items, containerd, client
<1>OtherError. ASSUME OtherError PROVE FaultInv'
  <2>1. /\ work # "recv" /\ SpawnRetry /\ conn = "live" /\ conn' = "live" /\ work' = "recv"
        /\ lapses' = lapses + 1 /\ crashes' = crashes
    BY <1>OtherError DEF OtherError, SpawnRetry, containerd
  <2>2. IsFiniteSet(Failed') /\ Cardinality(Failed') = Cardinality(Failed) + 1
    BY <2>1, RetryFails DEF FaultInv
  <2> QED
    BY <1>1, <2>1, <2>2 DEF FaultInv
<1>Reconnect. ASSUME Reconnect PROVE FaultInv'
  <2>1. work # "recv" /\ SpawnRetry /\ conn = "broken" /\ work' = "recv" /\ crashes' = crashes
    BY <1>Reconnect DEF Reconnect, SpawnRetry, containerd, FaultInv
  <2>2. IsFiniteSet(Failed') /\ Cardinality(Failed') = Cardinality(Failed) + 1
    BY <2>1, RetryFails DEF FaultInv
  <2>3. (conn' = "live" /\ lapses' = lapses) \/ (conn' = "broken" /\ lapses' = lapses + 1)
    BY <1>Reconnect, <2>1 DEF Reconnect
  <2> QED
    BY <1>1, <2>1, <2>2, <2>3 DEF FaultInv
<1>Crash. ASSUME Crash PROVE FaultInv'
  <2>1. conn' = "broken" /\ crashes' = crashes + 1 /\ lapses' = lapses /\ count' = count /\ work' = work
    BY <1>Crash DEF Crash, items, worker
  <2> QED
    BY <1>1, <1>2, <2>1 DEF FaultInv
<1>Idle. ASSUME Restart \/ UNCHANGED vars PROVE FaultInv'
  BY <1>Others, <1>Idle DEF Restart, worker, items, client, vars
<1> QED
  BY <1>Sends, <1>Receives, <1>Forwards, <1>OtherError, <1>Reconnect, <1>Crash, <1>Idle
  DEF Next, Worker

(* The first state satisfies the invariant.                                *)
LEMMA InitInv == Init => IInv
  BY ConstantsAssumption, EmptySeq DEF Init, IInv, TypeOK, PlaceInv, CountInv, WorkInv,
     Distinct, In

(* Where the events are and what their items say is as IInv has it.        *)
THEOREM Invariant == Spec => []IInv
<1>1. Init => IInv
  BY InitInv
<1>2. IInv /\ [Next]_vars => IInv'
  BY TypeStep, PlaceStep, CountStep, WorkStep DEF IInv
<1> QED
  BY <1>1, <1>2, PTL DEF Spec

(* In a channel without repetitions an event occurs once or not at all.    *)
LEMMA Occurrences ==
  ASSUME NEW s \in Seq(Events), Distinct(s), NEW e
  PROVE  Cardinality({i \in DOMAIN s : s[i] = e}) = IF In(e, s) THEN 1 ELSE 0
<1>1. CASE In(e, s)
  <2>1. PICK k \in DOMAIN s : s[k] = e
    BY <1>1 DEF In
  <2>2. {i \in DOMAIN s : s[i] = e} = {k}
    BY <2>1 DEF Distinct
  <2> QED
    BY <1>1, <2>2, FS_Singleton
<1>2. CASE ~ In(e, s)
  <2>1. {i \in DOMAIN s : s[i] = e} = {}
    BY <1>2 DEF In
  <2> QED
    BY <1>2, <2>1, FS_EmptySet
<1> QED
  BY <1>1, <1>2

(* A published event whose end is open is in exactly one place, and one    *)
(* that has ended in none, however many events, retries and faults.        *)
THEOREM EventsInOnePlace == Spec => []InOnePlace
<1>1. IInv => InOnePlace
  <2> SUFFICES ASSUME IInv, NEW e \in Events
               PROVE  Places(e) = IF e \in published /\ outcome[e] = "none" THEN 1 ELSE 0
    BY DEF InOnePlace, IInv
  <2>1. /\ Cardinality({i \in DOMAIN queue : queue[i] = e}) = IF In(e, queue) THEN 1 ELSE 0
        /\ Cardinality({i \in DOMAIN waiting : waiting[i] = e}) = IF In(e, waiting) THEN 1 ELSE 0
    BY Occurrences DEF IInv, TypeOK, PlaceInv
  <2> QED
    BY <2>1 DEF Places, IInv, PlaceInv
<1> QED
  BY <1>1, Invariant, PTL

(* One fault costs one attempt of one event (forward and its reconnect).   *)
THEOREM AFaultCostsOneAttempt == Spec => []OneFaultOneAttempt
<1>1. Init => IInv /\ FaultInv
  <2> SUFFICES ASSUME Init PROVE FaultInv
    BY InitInv
  <2>1. Failed = {}
    BY DEF Init, Failed
  <2> QED
    BY <2>1, FS_EmptySet DEF Init, FaultInv
<1>2. IInv /\ FaultInv /\ [Next]_vars => (IInv /\ FaultInv)'
  BY TypeStep, PlaceStep, CountStep, WorkStep, FaultStep DEF IInv
<1>3. IInv /\ FaultInv => OneFaultOneAttempt
  <2> SUFFICES ASSUME IInv, FaultInv PROVE OneFaultOneAttempt
    OBVIOUS
  <2>1. crashes \in Nat /\ lapses \in Nat /\ Cardinality(Failed) \in Nat
    BY FS_CardinalityType, ConstantsAssumption DEF IInv, TypeOK, FaultInv
  <2> QED
    BY <2>1 DEF FaultInv, OneFaultOneAttempt
<1> QED
  BY <1>1, <1>2, <1>3, PTL DEF Spec
------------------------------------------------------------------------------
(* What a step may do to an event, in the terms of EventDelivery.          *)
Abstract(e) == [status |-> Status(e), offers |-> Attempts(e), arrived |-> In(e, received)]

Moves(e) ==
  \/ /\ Attempts(e)' = Attempts(e) /\ (In(e, received)' <=> In(e, received))
     /\ \/ Status(e)' = Status(e)
        \/ Status(e) = "new" /\ Status(e)' \in {"pending", "refused"}
        \/ Status(e) = "pending" /\ In(e, received) /\ Status(e)' = "done"
        \/ Status(e) = "pending" /\ Attempts(e) > 0 /\ Status(e)' = "lost"
  \/ /\ Status(e) = "pending" /\ Status(e)' = "pending"
     /\ \/ /\ Attempts(e) <= MAX_REQUEUE /\ Attempts(e)' = Attempts(e) + 1
           /\ In(e, received)' <=> In(e, received)
        \/ Attempts(e) > 0 /\ Attempts(e)' = Attempts(e) /\ In(e, received)'

(* Every step moves each event as EventDelivery allows.                    *)
LEMMA StepMoves ==
  ASSUME TypeOK, PlaceInv, CountInv, WorkInv, [Next]_vars, NEW x \in Events
  PROVE  Moves(x)
<1>Publish. ASSUME NEW e \in Events, Publish(e) PROVE Moves(x)
  <2>1. ~ In(e, queue) /\ ~ In(e, waiting) /\ Send(e)
    BY <1>Publish, SenderIsNowhere DEF Publish
  <2>2. Sent(e)
    BY <2>1, SendFacts
  <2> QED
    BY <1>Publish, <2>1, <2>2 DEF Publish, Sent, worker, items, containerd, Moves, Status,
       Attempts
<1>Requeue. ASSUME NEW e \in Events, Requeue(e) PROVE Moves(x)
  <2>1. ~ In(e, queue) /\ ~ In(e, waiting) /\ Send(e)
    BY <1>Requeue, SenderIsNowhere DEF Requeue
  <2>2. Sent(e)
    BY <2>1, SendFacts
  <2> QED
    BY <1>Requeue, <2>1, <2>2 DEF Requeue, Sent, worker, containerd, Moves, Status, Attempts
<1>SendTimesOut. ASSUME NEW e \in Events, SendTimesOut(e) PROVE Moves(x)
  <2>1. /\ In(e, waiting) /\ outcome[e] = "none" /\ hand # e /\ e \in published
        /\ outcome' = [outcome EXCEPT ![e] = IF count[e] = 0 THEN "refused" ELSE "overflowed"]
        /\ hand' = hand /\ count' = count /\ accepted' = accepted /\ received' = received
    BY <1>SendTimesOut, TimesOutFacts DEF SendTimesOut, worker, containerd, PlaceInv
  <2>2. CASE x = e /\ count[e] = 0
    BY <2>1, <2>2 DEF CountInv, Moves, Status, Attempts
  <2>3. CASE x = e /\ count[e] # 0
    BY <2>1, <2>3 DEF TypeOK, CountInv, Moves, Status, Attempts
  <2>4. CASE x # e
    BY <2>1, <2>4 DEF Moves, Status, Attempts
  <2> QED
    BY <2>2, <2>3, <2>4
<1>Drop. ASSUME Drop PROVE Moves(x)
  <2>1. PICK w : Received(Head(queue), w)
    BY <1>Drop, RecvFacts DEF Drop
  <2> QED
    BY <1>Drop, <2>1, ConstantsAssumption DEF Drop, Received, worker, containerd, TypeOK,
       PlaceInv, CountInv, Moves, Status, Attempts
<1>Take. ASSUME Take PROVE Moves(x)
  <2>1. PICK w : Received(Head(queue), w)
    BY <1>Take, RecvFacts DEF Take
  <2>2. /\ Head(queue) \in Events /\ In(Head(queue), queue) /\ count[Head(queue)] <= MAX_REQUEUE
        /\ hand = NoEvent /\ hand' = Head(queue) /\ work = "recv"
        /\ count' = count /\ outcome' = outcome /\ received' = received
    BY <1>Take, <2>1 DEF Take, Recv, Received, items, containerd, WorkInv
  <2>3. CASE x = Head(queue)
    <3>1. /\ outcome[x] = "none" /\ In(x, accepted) /\ x # w
      BY <2>1, <2>2, <2>3 DEF Received, PlaceInv, CountInv
    <3> QED
      BY <2>1, <2>2, <2>3, <3>1 DEF Received, TypeOK, Moves, Status, Attempts
  <2>4. CASE x # Head(queue)
    <3>1. In(x, accepted') <=> In(x, accepted) \/ (x = w /\ count[x] = 0 /\ In(w, waiting))
      BY <2>1, ConstantsAssumption DEF Received
    <3>2. Attempts(x)' = Attempts(x) /\ (In(x, received)' <=> In(x, received))
      BY <2>2, <2>4, ConstantsAssumption DEF Attempts
    <3> QED
      BY <2>2, <3>1, <3>2 DEF Moves, Status
  <2> QED
    BY <2>3, <2>4
<1>ServerReceives. ASSUME ServerReceives PROVE Moves(x)
  <2>1. hand \in Events /\ received' = Append(received, hand) /\ received \in Seq(Events)
    BY <1>ServerReceives DEF ServerReceives, TypeOK, WorkInv
  <2>2. In(x, received') <=> In(x, received) \/ x = hand
    BY <2>1, AppendFacts
  <2>3. Status(x)' = Status(x) /\ Attempts(x)' = Attempts(x)
    BY <1>ServerReceives DEF ServerReceives, channel, items, Status, Attempts
  <2>4. CASE x = hand
    <3>1. Status(x) = "pending" /\ Attempts(x) > 0
      BY <2>1, <2>4 DEF TypeOK, PlaceInv, CountInv, Status, Attempts
    <3> QED
      BY <2>2, <2>3, <2>4, <3>1 DEF Moves
  <2> QED
    BY <2>2, <2>3, <2>4 DEF Moves
<1>Forwarded. ASSUME Forwarded PROVE Moves(x)
  BY <1>Forwarded, ConstantsAssumption DEF Forwarded, channel, containerd, TypeOK, PlaceInv,
     CountInv, WorkInv, Moves, Status, Attempts
<1>OtherError. ASSUME OtherError PROVE Moves(x)
  BY <1>OtherError, ConstantsAssumption DEF OtherError, SpawnRetry, channel, containerd, TypeOK,
     PlaceInv, Moves, Status, Attempts
<1>Closed. ASSUME Closed PROVE Moves(x)
  BY <1>Closed DEF Closed, channel, items, containerd, Moves, Status, Attempts
<1>Reconnect. ASSUME Reconnect PROVE Moves(x)
  BY <1>Reconnect, ConstantsAssumption DEF Reconnect, SpawnRetry, connect, channel, containerd,
     TypeOK, PlaceInv, Moves, Status, Attempts
<1>Crash. ASSUME Crash PROVE Moves(x)
  BY <1>Crash DEF Crash, channel, worker, items, Moves, Status, Attempts
<1>Restart. ASSUME Restart PROVE Moves(x)
  BY <1>Restart DEF Restart, channel, worker, items, Moves, Status, Attempts
<1>Stutter. ASSUME UNCHANGED vars PROVE Moves(x)
  BY <1>Stutter DEF vars, Moves, Status, Attempts
<1> QED
  BY <1>Publish, <1>Requeue, <1>SendTimesOut, <1>Drop, <1>Take, <1>ServerReceives, <1>Forwarded,
     <1>OtherError, <1>Closed, <1>Reconnect, <1>Crash, <1>Restart, <1>Stutter
  DEF Next, Worker

(* What an event maps to is a state of EventDelivery.                      *)
LEMMA AbstractType ==
  ASSUME IInv, NEW e \in Events
  PROVE  Abstract(e) \in Delivery!States
<1>1. Attempts(e) \in 0..MAX_REQUEUE + 1
  BY ConstantsAssumption DEF IInv, TypeOK, CountInv, Attempts
<1>2. Status(e) \in {"new", "refused", "pending", "done", "lost"}
  BY DEF Status
<1>3. In(e, received) \in BOOLEAN
  BY DEF In
<1> QED
  BY <1>1, <1>2, <1>3 DEF Abstract, Delivery!States

(* Such a move is a step of EventDelivery or leaves the event as it is.    *)
LEMMA AbstractStep ==
  ASSUME NEW e \in Events, Moves(e), Attempts(e) \in Int,
         Abstract(e) \in Delivery!States, Abstract(e)' \in Delivery!States
  PROVE  Abstract(e)' = Abstract(e) \/ Delivery!Step(Abstract(e), Abstract(e)')
<1> SUFFICES ASSUME NEW s \in Delivery!States, NEW t \in Delivery!States,
                    s = Abstract(e), t = Abstract(e)'
             PROVE  t = s \/ Delivery!Step(s, t)
  OBVIOUS
<1>1. /\ s.status = Status(e) /\ s.offers = Attempts(e) /\ s.arrived = In(e, received)
      /\ t.status = Status(e)' /\ t.offers = Attempts(e)' /\ t.arrived = In(e, received)'
  BY DEF Abstract
<1>2. /\ s = [status |-> s.status, offers |-> s.offers, arrived |-> s.arrived]
      /\ t = [status |-> t.status, offers |-> t.offers, arrived |-> t.arrived]
      /\ s.arrived \in BOOLEAN /\ t.arrived \in BOOLEAN
  BY DEF Delivery!States
<1>3. MAX_REQUEUE \in Nat
  BY ConstantsAssumption
<1> HIDE DEF Abstract
<1> QED
  BY <1>1, <1>2, <1>3
  DEF Moves, Delivery!Step, Delivery!Accept, Delivery!Refuse, Delivery!Offer,
      Delivery!Arrive, Delivery!Settle, Delivery!GiveUp, Delivery!States

(* The publisher implements EventDelivery: each of its behaviours is one   *)
(* in which every event moves only as the abstract specification allows.   *)
THEOREM Implements == Spec => Delivery!Spec
<1> DEFINE state == [e \in Events |->
                       [status |-> Status(e), offers |-> Attempts(e), arrived |-> In(e, received)]]
           Typed == \A e \in Events : Abstract(e) \in Delivery!States
<1>1. Init => Delivery!Init
  <2> SUFFICES ASSUME Init PROVE Delivery!Init
    OBVIOUS
  <2>1. ASSUME NEW e \in Events
        PROVE  Status(e) = "new" /\ Attempts(e) = 0 /\ In(e, received) = FALSE
    <3>1. /\ outcome[e] = "none" /\ count[e] = 0 /\ hand # e
          /\ accepted = <<>> /\ received = <<>>
      BY ConstantsAssumption DEF Init
    <3>2. In(e, <<>>) = FALSE
      BY DEF In
    <3> QED
      BY <3>1, <3>2 DEF Status, Attempts
  <2> QED
    BY <2>1 DEF Delivery!Init
<1>2. IInv => Typed
  BY AbstractType
<1>3. IInv /\ Typed /\ Typed' /\ [Next]_vars => [Delivery!Next]_state
  <2> SUFFICES ASSUME IInv, Typed, Typed', [Next]_vars PROVE Delivery!Next
    OBVIOUS
  <2>1. state' = [e \in Events |-> Abstract(e)'] /\ state = [e \in Events |-> Abstract(e)]
    BY DEF Abstract
  <2>2. \A e \in Events : Abstract(e)' = Abstract(e) \/ Delivery!Step(Abstract(e), Abstract(e)')
    <3>1. \A e \in Events : Attempts(e) \in Int
      BY ConstantsAssumption DEF IInv, TypeOK, Attempts
    <3> QED
      BY StepMoves, AbstractStep, <3>1 DEF IInv
  <2>3. \A e \in Events : Abstract(e)' \in Delivery!States
    OBVIOUS
  <2> HIDE DEF Typed
  <2> QED
    BY <2>1, <2>2, <2>3 DEF Delivery!Next
<1> QED
  BY <1>1, <1>2, <1>3, Invariant, PTL DEF Spec, Delivery!Spec
==============================================================================

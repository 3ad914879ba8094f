------------------------------ MODULE Publisher -------------------------------
(***************************************************************************)
(* RemotePublisher: events wait in a bounded channel for one worker, which *)
(* forwards them to containerd over a connection that may break; a failed  *)
(* event sleeps in a task of its own and is sent to the channel again.     *)
(*                                                                         *)
(* A permit of the channel freed by a receive goes to the sender that has  *)
(* waited longest, in the same step.  An event is one publish call.        *)
(***************************************************************************)
EXTENDS Naturals, Sequences, FiniteSets, SequencesExt

CONSTANTS
  Events,       \* the events that may be published
  NoEvent,
  QUEUE_SIZE,   \* the channel's capacity
  MAX_REQUEUE,
  Timeouts,     \* TRUE: a request may time out
  MaxCrashes    \* bound on containerd's restarts

ASSUME ConstantsAssumption ==
  /\ NoEvent \notin Events
  /\ QUEUE_SIZE \in Nat \ {0}
  /\ MAX_REQUEUE \in Nat
  /\ Timeouts \in BOOLEAN
  /\ MaxCrashes \in Nat

VARIABLES
  queue,      \* the channel, oldest first
  waiting,    \* the senders that wait for room, oldest first
  count,      \* the count of each event's item
  work,       \* the worker: "recv", "forward", "answer" or "reconnect"
  hand,       \* the event in the worker's hand
  asleep,     \* the events whose retry task sleeps
  outcome,    \* how an event ended, "none" before
  server,     \* containerd: "up" or "down"
  conn,       \* the client's connection: "live" or "broken"
  published,  \* the events publish was called for
  received,   \* history: what containerd received, in order
  accepted,   \* history: what entered the channel first, in order
  crashes,    \* history: connections lost
  lapses      \* history: requests timed out and reconnects failed

vars == <<queue, waiting, count, work, hand, asleep, outcome, server, conn, published,
          received, accepted, crashes, lapses>>
channel == <<queue, waiting, accepted>>
worker == <<work, hand>>
items == <<count, asleep, outcome>>
containerd == <<server, received, crashes>>
client == <<conn, lapses>>

Init ==
  /\ queue = <<>> /\ waiting = <<>>
  /\ count = [e \in Events |-> 0]
  /\ work = "recv" /\ hand = NoEvent
  /\ asleep = {}
  /\ outcome = [e \in Events |-> "none"]
  /\ server = "up" /\ conn = "live"
  /\ published = {}
  /\ received = <<>> /\ accepted = <<>>
  /\ crashes = 0 /\ lapses = 0

In(e, s) == \E i \in DOMAIN s : s[i] = e
Fresh(e) == IF count[e] = 0 THEN <<e>> ELSE <<>>

------------------------------------------------------------------------------
(* send_timeout, of publish and forward: into the channel if there is      *)
(* room, else to wait for it.                                              *)
Send(e) ==
  IF Len(queue) < QUEUE_SIZE
  THEN /\ queue' = Append(queue, e)
       /\ accepted' = accepted \o Fresh(e)
       /\ UNCHANGED waiting
  ELSE /\ waiting' = Append(waiting, e)
       /\ UNCHANGED <<queue, accepted>>

Publish(e) ==
  /\ e \notin published
  /\ published' = published \cup {e}
  /\ Send(e)
  /\ UNCHANGED <<worker, items, containerd, client>>

(* A retry task wakes.                                                     *)
Requeue(e) ==
  /\ e \in asleep
  /\ asleep' = asleep \ {e}
  /\ Send(e)
  /\ UNCHANGED <<worker, containerd, client, count, outcome, published>>

(* Three seconds without room: publish fails, a retry is given up.         *)
SendTimesOut(e) ==
  /\ \E i \in DOMAIN waiting : waiting[i] = e /\ waiting' = RemoveAt(waiting, i)
  /\ outcome' = [outcome EXCEPT ![e] = IF count[e] = 0 THEN "refused" ELSE "overflowed"]
  /\ UNCHANGED <<worker, containerd, client, queue, count, asleep, published, accepted>>

------------------------------------------------------------------------------
(* The worker.  recv frees a permit for the longest waiting sender.        *)
Recv ==
  /\ work = "recv" /\ queue # <<>>
  /\ IF waiting = <<>>
     THEN queue' = Tail(queue) /\ UNCHANGED <<waiting, accepted>>
     ELSE /\ queue' = Append(Tail(queue), Head(waiting))
          /\ waiting' = Tail(waiting)
          /\ accepted' = accepted \o Fresh(Head(waiting))

Drop ==
  /\ Recv
  /\ count[Head(queue)] > MAX_REQUEUE
  /\ outcome' = [outcome EXCEPT ![Head(queue)] = "exhausted"]
  /\ UNCHANGED <<worker, containerd, client, count, asleep, published>>

(* Mutant: a retry that is due is forwarded whatever its count.            *)
Mut_Take ==
  /\ Recv
  /\ hand' = Head(queue) /\ work' = "forward"
  /\ UNCHANGED <<items, containerd, client, published>>

Take ==
  /\ Recv
  /\ count[Head(queue)] <= MAX_REQUEUE
  /\ hand' = Head(queue) /\ work' = "forward"
  /\ UNCHANGED <<items, containerd, client, published>>

(* containerd reads the request; its answer is under way.                  *)
ServerReceives ==
  /\ work = "forward" /\ conn = "live"
  /\ received' = Append(received, hand)
  /\ work' = "answer"
  /\ UNCHANGED <<channel, items, client, hand, server, published, crashes>>

Forwarded ==
  /\ work = "answer" /\ conn = "live"
  /\ work' = "recv" /\ hand' = NoEvent
  /\ outcome' = [outcome EXCEPT ![hand] = "forwarded"]
  /\ UNCHANGED <<channel, containerd, client, count, asleep, published>>

(* Mutant: the event is not retried.                                       *)
Mut_SpawnRetryNone ==
  /\ work' = "recv" /\ hand' = NoEvent
  /\ UNCHANGED <<channel, items, containerd, published>>

(* The item with the next count goes to a task that sleeps first.          *)
SpawnRetry ==
  /\ work' = "recv" /\ hand' = NoEvent
  /\ asleep' = asleep \cup {hand}
  /\ count' = [count EXCEPT ![hand] = @ + 1]
  /\ UNCHANGED <<channel, containerd, outcome, published>>

(* Any other error, before or after containerd read the request.           *)
OtherError ==
  /\ Timeouts
  /\ work \in {"forward", "answer"} /\ conn = "live"
  /\ lapses' = lapses + 1
  /\ SpawnRetry
  /\ UNCHANGED conn

Closed ==
  /\ work \in {"forward", "answer"} /\ conn = "broken"
  /\ work' = "reconnect"
  /\ UNCHANGED <<channel, items, containerd, client, hand, published>>

(* Mutant: the new connection is not used.                                 *)
Mut_Reconnect ==
  /\ work = "reconnect"
  /\ UNCHANGED client
  /\ SpawnRetry

connect == server = "up"

Reconnect ==
  /\ work = "reconnect"
  /\ IF connect THEN conn' = "live" /\ UNCHANGED lapses
     ELSE lapses' = lapses + 1 /\ UNCHANGED conn
  /\ SpawnRetry

Worker ==
  Drop \/ Take \/ Forwarded \/ OtherError \/ Closed \/ Reconnect \/ ServerReceives

------------------------------------------------------------------------------
(* containerd goes away, with the connection, and comes back.              *)
Crash ==
  /\ server = "up" /\ crashes < MaxCrashes
  /\ server' = "down" /\ conn' = "broken"
  /\ crashes' = crashes + 1
  /\ UNCHANGED <<channel, worker, items, published, received, lapses>>

Restart ==
  /\ server = "down"
  /\ server' = "up"
  /\ UNCHANGED <<channel, worker, items, client, published, received, crashes>>

Next ==
  \/ \E e \in Events : Publish(e) \/ Requeue(e) \/ SendTimesOut(e)
  \/ Worker \/ Crash \/ Restart

Spec == Init /\ [][Next]_vars

(* The worker and the retry tasks are scheduled, a timer fires, and a      *)
(* request ends, if only by its timeout.  containerd may stay away.        *)
Fairness ==
  /\ WF_vars(Worker)
  /\ \A e \in Events : WF_vars(Requeue(e)) /\ WF_vars(SendTimesOut(e))

FairSpec == Spec /\ Fairness

------------------------------------------------------------------------------
(***************************************************************************)
(* Properties                                                              *)
(***************************************************************************)
TypeOK ==
  /\ queue \in Seq(Events) /\ waiting \in Seq(Events)
  /\ Len(queue) <= QUEUE_SIZE
  /\ count \in [Events -> 0..MAX_REQUEUE + 1]
  /\ work \in {"recv", "forward", "answer", "reconnect"}
  /\ hand \in Events \cup {NoEvent}
  /\ asleep \in SUBSET Events
  /\ outcome \in [Events -> {"none", "refused", "overflowed", "exhausted", "forwarded"}]
  /\ server \in {"up", "down"} /\ conn \in {"live", "broken"}
  /\ published \in SUBSET Events
  /\ received \in Seq(Events) /\ accepted \in Seq(Events)
  /\ crashes \in 0..MaxCrashes /\ lapses \in Nat

(* How often an event was offered to containerd.                           *)
Attempts(e) == count[e] + (IF hand = e \/ outcome[e] = "forwarded" THEN 1 ELSE 0)

Places(e) ==
  Cardinality({i \in DOMAIN queue : queue[i] = e})
  + Cardinality({i \in DOMAIN waiting : waiting[i] = e})
  + (IF hand = e THEN 1 ELSE 0) + (IF e \in asleep THEN 1 ELSE 0)

(* A published event whose end is open is in exactly one place, whatever   *)
(* fails and whoever is full; an event that has ended is in none.          *)
InOnePlace ==
  /\ TypeOK
  /\ \A e \in Events :
       Places(e) = IF e \in published /\ outcome[e] = "none" THEN 1 ELSE 0

(* The attempts that failed, of all events.                                *)
Failed == {a \in Events \X (1..MAX_REQUEUE + 1) : a[2] <= count[a[1]]}

(* One fault costs one attempt of one event: a restart of containerd never *)
(* uses up the attempts of the events queued behind the one that met it.   *)
OneFaultOneAttempt == Cardinality(Failed) <= crashes + lapses

(* What the comments say: an event is reported at most MAX_REQUEUE times,  *)
(* which is five.  The code gives up one attempt later.                    *)
AttemptsAsDocumented == \A e \in Events : Attempts(e) <= MAX_REQUEUE

(* The publisher keeps the promise of EventDelivery, that every event ends *)
(* included, with the attempts that the code makes: the first and          *)
(* MAX_REQUEUE more.                                                       *)
Status(e) ==
  IF outcome[e] = "forwarded" THEN "done"
  ELSE IF outcome[e] \in {"exhausted", "overflowed"} THEN "lost"
  ELSE IF outcome[e] = "refused" THEN "refused"
  ELSE IF In(e, accepted) THEN "pending" ELSE "new"

Delivery == INSTANCE EventDelivery WITH
  MaxOffers <- MAX_REQUEUE + 1,
  state <- [e \in Events |->
              [status |-> Status(e), offers |-> Attempts(e), arrived |-> In(e, received)]]

Promise == Delivery!FairSpec
==============================================================================

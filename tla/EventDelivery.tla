---------------------------- MODULE EventDelivery -----------------------------
(***************************************************************************)
(* What the publisher promises of an event: once accepted, it is offered   *)
(* to containerd a bounded number of times, until one offer is known to    *)
(* have arrived; it is lost only after an offer has failed.  It may arrive *)
(* more than once, never unaccepted.  Events move side by side.            *)
(***************************************************************************)
EXTENDS Naturals

CONSTANTS Events, MaxOffers

VARIABLE state   \* of each event: its status, its offers, whether it arrived

States == [status : {"new", "refused", "pending", "done", "lost"},
           offers : 0..MaxOffers, arrived : BOOLEAN]

Init == state = [e \in Events |-> [status |-> "new", offers |-> 0, arrived |-> FALSE]]

Accept(s, t) == s.status = "new" /\ t = [s EXCEPT !.status = "pending"]
Refuse(s, t) == s.status = "new" /\ t = [s EXCEPT !.status = "refused"]
Offer(s, t) ==
  s.status = "pending" /\ s.offers < MaxOffers /\ t = [s EXCEPT !.offers = @ + 1]
Arrive(s, t) ==
  s.status = "pending" /\ s.offers > 0 /\ t = [s EXCEPT !.arrived = TRUE]
Settle(s, t) == s.status = "pending" /\ s.arrived /\ t = [s EXCEPT !.status = "done"]
GiveUp(s, t) == s.status = "pending" /\ s.offers > 0 /\ t = [s EXCEPT !.status = "lost"]

Step(s, t) ==
  Accept(s, t) \/ Refuse(s, t) \/ Offer(s, t) \/ Arrive(s, t) \/ Settle(s, t) \/ GiveUp(s, t)

Next ==
  /\ state' \in [Events -> States]
  /\ \A e \in Events : state'[e] = state[e] \/ Step(state[e], state'[e])

Spec == Init /\ [][Next]_state

(* And every event that was accepted ends, though containerd stays away.   *)
Ends == \A e \in Events : state[e].status = "pending" ~> state[e].status # "pending"
FairSpec == Spec /\ Ends
==============================================================================

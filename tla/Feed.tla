-------------------------------- MODULE Feed --------------------------------
(***************************************************************************)
(* What the outbound side promises, with nothing of how: the engine        *)
(* publishes one stream of numbered messages, a subscriber that joins gets *)
(* the messages published from then on, one after the other, until it is   *)
(* cut off, and once cut off it gets nothing more.  Gateway implements     *)
(* this; Client assumes it of its server.                                  *)
(***************************************************************************)
EXTENDS Integers, Sequences

CONSTANT Subscriber

VARIABLES
  published,   \* how many messages there are, numbered from 1
  phase,       \* of each subscriber: "new", "live" or "over"
  next,        \* the message each live subscriber gets next, 0 for others
  got          \* the messages each subscriber got

vars == <<published, phase, next, got>>

Init ==
  /\ published = 0
  /\ phase = [s \in Subscriber |-> "new"]
  /\ next = [s \in Subscriber |-> 0]
  /\ got = [s \in Subscriber |-> <<>>]

Publish ==
  /\ published' = published + 1
  /\ UNCHANGED <<phase, next, got>>

Join(s) ==
  /\ phase[s] = "new"
  /\ phase' = [phase EXCEPT ![s] = "live"]
  /\ next' = [next EXCEPT ![s] = published + 1]
  /\ UNCHANGED <<published, got>>

Deliver(s) ==
  /\ phase[s] = "live"
  /\ next[s] <= published
  /\ got' = [got EXCEPT ![s] = Append(@, next[s])]
  /\ next' = [next EXCEPT ![s] = @ + 1]
  /\ UNCHANGED <<published, phase>>

Cut(s) ==
  /\ phase[s] = "live"
  /\ phase' = [phase EXCEPT ![s] = "over"]
  /\ next' = [next EXCEPT ![s] = 0]
  /\ UNCHANGED <<published, got>>

Next == Publish \/ \E s \in Subscriber : Join(s) \/ Deliver(s) \/ Cut(s)

Spec == Init /\ [][Next]_vars

=============================================================================

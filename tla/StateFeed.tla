------------------------------ MODULE StateFeed ------------------------------
(***************************************************************************)
(* What the state watcher promises those who read its channel: each state  *)
(* is offered under a version, which is a new one exactly if the state is  *)
(* not the one offered before, and an offer is settled before the next one *)
(* is made.  A reader sees the offer if somebody listens at that moment;   *)
(* otherwise the offer is missed, though its version has been announced.   *)
(***************************************************************************)
EXTENDS Integers

CONSTANTS States, None

VARIABLES
  version,    \* the number of announced changes
  announced,  \* the state of the newest version
  due,        \* whether an offer is open
  shown,      \* the state readers see
  listening   \* whether somebody listens

feedVars == <<version, announced, due, shown, listening>>

Init ==
  /\ version = 0 /\ announced = None
  /\ due = FALSE /\ shown = None /\ listening \in BOOLEAN

Offer(s) ==
  /\ ~due /\ due' = TRUE
  /\ announced' = s
  /\ version' = IF s = announced THEN version ELSE version + 1
  /\ UNCHANGED <<shown, listening>>

Show ==
  /\ due /\ listening
  /\ due' = FALSE /\ shown' = announced
  /\ UNCHANGED <<version, announced, listening>>

Miss ==
  /\ due /\ ~listening
  /\ due' = FALSE
  /\ UNCHANGED <<version, announced, shown, listening>>

ComeOrGo ==
  /\ listening' = ~listening
  /\ UNCHANGED <<version, announced, due, shown>>

Next == Show \/ Miss \/ ComeOrGo \/ \E s \in States : Offer(s)

Spec == Init /\ [][Next]_feedVars
=============================================================================

----------------------------- MODULE SolutionLog -----------------------------
(***************************************************************************)
(* What a coordinator promises the wallet that pays for its transactions,  *)
(* whatever workers post, repeat or time out on: a solution is sent only   *)
(* for a state the coordinator published in this life, and each time it is *)
(* sent the coordinator has taken up its challenge anew, which it does     *)
(* only while the contract, or an endpoint that lags, still answers with   *)
(* it.  A restart forgets what was sent.                                   *)
(***************************************************************************)
EXTENDS Integers

CONSTANTS
  States,      \* [epoch, challenge]
  Challenges,  \* a challenge is named by the epoch it belongs to
  Solutions,
  StateOf,     \* Solutions -> the state it was found for
  Lag          \* how many epochs an endpoint that answers may be behind

VARIABLES
  head,     \* the contract's epoch
  states,   \* what was published since the start
  chances,  \* how often each challenge was taken up since then
  sent      \* how often each solution was sent since then

logVars == <<head, states, chances, sent>>

Copies(x) == IF x \in DOMAIN sent THEN sent[x] ELSE 0
Untaken == [c \in Challenges |-> 0]

Init == head = 0 /\ states = {} /\ chances = Untaken /\ sent = [x \in {} |-> 0]

NewEpoch ==
  /\ head' = head + 1
  /\ UNCHANGED <<states, chances, sent>>

Publish(s) ==
  /\ s.epoch <= head /\ s.challenge <= head
  /\ states' = states \cup {s}
  /\ UNCHANGED <<head, chances, sent>>

TakeUp(C) ==
  /\ \A c \in C : c <= head /\ head <= c + Lag
  /\ chances' = [c \in Challenges |-> IF c \in C THEN chances[c] + 1 ELSE chances[c]]
  /\ UNCHANGED <<head, states, sent>>

Send(x) ==
  /\ StateOf[x] \in states
  /\ Copies(x) < chances[StateOf[x].challenge]
  /\ sent' = [y \in DOMAIN sent \cup {x} |-> IF y = x THEN Copies(x) + 1 ELSE sent[y]]
  /\ UNCHANGED <<head, states, chances>>

Restart ==
  /\ states' = {} /\ chances' = Untaken /\ sent' = [x \in {} |-> 0]
  /\ UNCHANGED head

Next ==
  \/ NewEpoch \/ Restart
  \/ \E s \in States : Publish(s)
  \/ \E C \in SUBSET Challenges : TakeUp(C)
  \/ \E x \in Solutions : Send(x)

Spec == Init /\ [][Next]_logVars
=============================================================================

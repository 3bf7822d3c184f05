------------------------------ MODULE WalletLog ------------------------------
(***************************************************************************)
(* What the submitter promises about the wallet: a nonce is bound to one   *)
(* solution, for good, before anything signed with it leaves the process;  *)
(* whatever the network holds or mines with a nonce of ours carries that   *)
(* solution; nonces are settled in order and once.                         *)
(***************************************************************************)
EXTENDS Integers

CONSTANTS Sols, Nonces, None, Foreign

VARIABLES
  bound,    \* nonce -> the solution it is bound to, durable
  live,     \* [nonce, sol]: what the network holds
  settled   \* nonce -> the solution mined with it, or Foreign

walletVars == <<bound, live, settled>>

Init ==
  /\ bound = [n \in Nonces |-> None]
  /\ live = {}
  /\ settled = [n \in Nonces |-> None]

Bind(n, s) ==
  /\ bound[n] = None
  /\ bound' = [bound EXCEPT ![n] = s]
  /\ UNCHANGED <<live, settled>>

\* Sending, resending or bumping: always the bound solution.
Send(n) ==
  /\ bound[n] # None /\ settled[n] = None
  /\ live' = live \cup {[nonce |-> n, sol |-> bound[n]]}
  /\ UNCHANGED <<bound, settled>>

Drop(t) == live' = live \ {t} /\ UNCHANGED <<bound, settled>>

Settle(n, by) ==
  /\ settled[n] = None
  /\ \A m \in Nonces : m < n => settled[m] # None
  /\ by = Foreign \/ [nonce |-> n, sol |-> by] \in live
  /\ settled' = [settled EXCEPT ![n] = by]
  /\ live' = {t \in live : t.nonce # n}
  /\ UNCHANGED bound

Next ==
  \/ \E n \in Nonces, s \in Sols : Bind(n, s)
  \/ \E n \in Nonces : Send(n)
  \/ \E t \in live : Drop(t)
  \/ \E n \in Nonces, by \in Sols \cup {Foreign} : Settle(n, by)

Spec == Init /\ [][Next]_walletVars
=============================================================================

-------------------------------- MODULE Chain --------------------------------
(***************************************************************************)
(* External: the Ethereum network as submitter.rs and rpc_pool.rs use it.  *)
(* The contract accepts one solution per challenge of the current epoch;   *)
(* the wallet's transactions are mined in nonce order.  The mempool is the *)
(* union of the pools of all endpoints, so several versions of one nonce   *)
(* (an original and its fee bumps) may be known and any may be mined.      *)
(***************************************************************************)
EXTENDS Integers, FiniteSets

CONSTANTS
  Sols,      \* solutions, each for the challenge of one epoch
  EpochOf,   \* Sols -> the epoch of its challenge
  MaxEpoch,  \* bound on epochs
  MaxNonce,  \* bound: the wallet uses nonces 0 .. MaxNonce-1
  MaxFee,    \* bound: a transaction's fee is bumped at most MaxFee times
  Faults,    \* what may go wrong, a subset of FaultKinds
  Foreign,   \* what another process put at a nonce of the wallet
  None       \* nothing

FaultKinds ==
  {"refuse",   \* every endpoint is down or rejects a transaction it should take
   "ghost",    \* the node took the transaction, the answer was lost
   "lag",      \* an endpoint behind the head answers
   "evict",    \* a mempool drops a transaction
   "foreign",  \* another process uses a nonce of the wallet
   "cancel"}   \* the HTTP client of a submit handler hangs up

VARIABLES
  epoch,   \* the contract's current epoch, which determines the challenge
  count,   \* the wallet's nonce on chain
  pool,    \* signed transactions of the wallet some endpoint still holds
  ledger   \* nonce -> what was mined with it

chain == <<epoch, count, pool, ledger>>

Nonces == 0..(MaxNonce - 1)
Fees == 0..MaxFee
Tx == [nonce : Nonces, fee : Fees, sol : Sols]
Mined == [fee : Fees, sol : Sols, ok : BOOLEAN]

ASSUME ChainAssumption ==
  /\ MaxEpoch \in Nat /\ MaxNonce \in Nat /\ MaxFee \in Nat
  /\ EpochOf \in [Sols -> 0..MaxEpoch]
  /\ Faults \subseteq FaultKinds
  /\ None \notin Sols \cup Nonces \cup Mined
  /\ Foreign \notin Mined \cup {None}

ChainTypeOK ==
  /\ epoch \in 0..MaxEpoch
  /\ count \in 0..MaxNonce
  /\ pool \subseteq Tx
  /\ ledger \in [Nonces -> Mined \cup {None, Foreign}]

ChainInit ==
  /\ epoch = 0 /\ count = 0 /\ pool = {}
  /\ ledger = [n \in Nonces |-> None]

\* Own transactions in the ledger.
Own(n) == ledger[n] \notin {None, Foreign}

\* The call mine(nonce) succeeds: the challenge is current and unclaimed.
Valid(s) ==
  /\ EpochOf[s] = epoch
  /\ \A n \in Nonces : Own(n) => ~(ledger[n].ok /\ ledger[n].sol = s)

Mine ==
  \E tx \in pool :
    /\ tx.nonce = count
    /\ ledger' = [ledger EXCEPT ![count] =
                    [fee |-> tx.fee, sol |-> tx.sol, ok |-> Valid(tx.sol)]]
    /\ pool' = {t \in pool : t.nonce # count}
    /\ count' = count + 1
    /\ UNCHANGED epoch

MineForeign ==
  /\ "foreign" \in Faults /\ count < MaxNonce
  /\ ledger' = [ledger EXCEPT ![count] = Foreign]
  /\ pool' = {t \in pool : t.nonce # count}
  /\ count' = count + 1
  /\ UNCHANGED epoch

Evict ==
  /\ "evict" \in Faults
  /\ \E tx \in pool : pool' = pool \ {tx}
  /\ UNCHANGED <<epoch, count, ledger>>

NextEpoch ==
  /\ epoch < MaxEpoch
  /\ epoch' = epoch + 1
  /\ UNCHANGED <<count, pool, ledger>>

\* RpcPool::broadcast_raw_tx as its caller sees it.  Some endpoint takes the
\* transaction, or has it already ("ok"); or all fail and their errors are
\* joined, with "nonce too low" among them ("tooLow") or not ("err").
Broadcast(tx, answer) ==
  LET taken == IF tx.nonce >= count THEN pool \cup {tx} ELSE pool
  IN /\ \/ answer = "ok" /\ tx.nonce >= count /\ pool' = taken
        \/ answer = "ok" /\ "lag" \in Faults /\ pool' = taken
        \/ answer = "err" /\ "refuse" \in Faults /\ UNCHANGED pool
        \/ answer = "err" /\ "ghost" \in Faults /\ pool' = taken
        \/ answer = "tooLow" /\ tx.nonce < count /\ UNCHANGED pool
     /\ UNCHANGED <<epoch, count, ledger>>

\* A receipt exists for this very transaction (receipts are asked by hash).
HasReceipt(n, fee, s) == Own(n) /\ ledger[n].fee = fee /\ ledger[n].sol = s

\* eth_getTransactionCount(.., "pending"): the first nonce no endpoint holds a
\* transaction for.
PendingCounts ==
  {n \in count..MaxNonce :
     /\ \A m \in count..(n - 1) : \E tx \in pool : tx.nonce = m
     /\ \A tx \in pool : tx.nonce # n}
=============================================================================

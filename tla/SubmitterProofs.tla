--------------------------- MODULE SubmitterProofs ---------------------------
(***************************************************************************)
(* For every set of solutions, every bound and every combination of        *)
(* faults: the table txs is a write-ahead log of the wallet.  The argument *)
(* rests on three facts about the interleaving of handlers, watcher and    *)
(* replacement loop: rows exist only below the stored counter, so allocate *)
(* never meets an old row; no write changes a row's solution; and only the *)
(* replacement loop changes a fee, so its stale snapshot still has it.     *)
(***************************************************************************)
EXTENDS Submitter, FiniteSetTheorems, TLAPS

USE ChainAssumption, SubmitterAssumption

LEMMA InitEstablishes == Init => IInv
<1> SUFFICES ASSUME Init PROVE IInv
  OBVIOUS
<1>1. TypeOK
  <2>1. ChainTypeOK
    BY DEF Init, ChainInit, ChainTypeOK
  <2>2. /\ nextNonce \in 0..MaxNonce /\ dbNext \in 0..MaxNonce
        /\ confirmations \in Nat /\ dbErrors \in 0..MaxDbErrors
        /\ restarts \in 0..MaxRestarts
    BY DEF Init
  <2>3. /\ pc \in [Sols -> {"new", "checked", "entered", "ready", "allocated", "sent", "done"}]
        /\ ticket \in [Sols -> Nonces \cup {None}]
        /\ answer \in [Sols -> Answers \cup {None}]
        /\ rows \in [Nonces -> Row \cup {None}]
    BY DEF Init
  <2> QED BY <2>1, <2>2, <2>3 DEF Init, TypeOK
<1>2. RowsBelowCounter /\ TicketsHaveRows /\ WatcherInv /\ ReplacerInv
  BY DEF Init, RowsBelowCounter, TicketsHaveRows, WatcherInv, ReplacerInv, HasRow, Nonces
<1>3. LedgerInv /\ WriteAhead /\ OneBumpAhead /\ SuccessIsOnChain /\ ReplacedIsSettled
  BY DEF Init, ChainInit, LedgerInv, WriteAhead, OneBumpAhead, SuccessIsOnChain,
         ReplacedIsSettled, HasRow, Own, Nonces
<1> QED BY <1>1, <1>2, <1>3 DEF IInv

-----------------------------------------------------------------------------
(* Steps that touch neither the network nor the rows.                       *)

\* Whatever the limit of the list, only pending rows are on it.
LEMMA ListedArePending == \A n \in Nonces : Listed(n) => IsPending(n)
BY DEF Listed

\* The parts of IInv that only speak of the network, the rows and the counters.
LEMMA Settled0 ==
  ASSUME IInv, UNCHANGED <<chain, rows>>, dbNext' = dbNext, nextNonce' = nextNonce
  PROVE  /\ RowsBelowCounter' /\ LedgerInv' /\ WriteAhead' /\ OneBumpAhead'
         /\ SuccessIsOnChain' /\ ReplacedIsSettled' /\ ChainTypeOK'
BY DEF IInv, TypeOK, ChainTypeOK, chain, RowsBelowCounter, LedgerInv, WriteAhead,
       OneBumpAhead, SuccessIsOnChain, ReplacedIsSettled, HasRow, Own

LEMMA QuietHandler ==
  ASSUME IInv, NEW s \in Sols, Recheck(s) \/ Enter(s) \/ Simulate(s) \/ Cancel(s)
  PROVE  IInv'
<1> USE DEF Goto, Finish, db, watcher, replacer
<1>1. /\ UNCHANGED <<chain, rows, dbNext, nextNonce, aged, dbErrors, restarts>>
      /\ UNCHANGED <<watchTodo, watchHit, confirmations, replTodo, replSent, hadSuccess>>
  BY DEF Recheck, Enter, Simulate, Cancel
<1>2. /\ pc' \in [Sols -> {"new", "checked", "entered", "ready", "allocated", "sent", "done"}]
      /\ ticket' \in [Sols -> Nonces \cup {None}]
      /\ answer' \in [Sols -> Answers \cup {None}]
      /\ lock' \in Sols \cup {None}
  BY DEF Recheck, Enter, Simulate, Cancel, IInv, TypeOK
<1>3. \A t \in Sols : pc'[t] \in {"allocated", "sent"} =>
         pc[t] = pc'[t] /\ ticket'[t] = ticket[t] /\ answer'[t] = answer[t]
  BY DEF Recheck, Enter, Simulate, Cancel, IInv, TypeOK
<1>4. TypeOK'
  BY <1>1, <1>2, Settled0 DEF IInv, TypeOK
<1>5. TicketsHaveRows'
  BY <1>1, <1>3 DEF IInv, TicketsHaveRows, HasRow
<1>6. WatcherInv' /\ ReplacerInv'
  BY <1>1 DEF IInv, WatcherInv, ReplacerInv, HasRow, Own, chain
<1> QED BY <1>1, <1>4, <1>5, <1>6, Settled0 DEF IInv

LEMMA QuietLoops ==
  ASSUME IInv, WatchList \/ WatchQuery \/ ReplList \/ Age
  PROVE  IInv'
<1> USE DEF handlers, db, watcher, replacer
<1>1. /\ UNCHANGED <<chain, rows, dbNext, nextNonce, dbErrors, restarts>>
      /\ UNCHANGED <<pc, ticket, answer, lock, hadSuccess, confirmations, replSent>>
  BY DEF WatchList, WatchQuery, ReplList, Age
<1>2. /\ aged' \subseteq Nonces
      /\ watchTodo' \subseteq [nonce : Nonces, hash : Fees, sol : Sols]
      /\ watchHit' \in [nonce : Nonces, ok : BOOLEAN] \cup {None}
      /\ replTodo' \subseteq Tx
  <2>1. CASE WatchList
    BY <2>1, ListedArePending DEF WatchList, IInv, TypeOK, IsPending, HasRow, Row
  <2>2. CASE WatchQuery
    BY <2>2 DEF WatchQuery, IInv, TypeOK, HasReceipt, Own, ChainTypeOK, Mined
  <2>3. CASE ReplList
    BY <2>3, ListedArePending DEF ReplList, IInv, TypeOK, IsPending, HasRow, Row, Tx
  <2>4. CASE Age
    BY <2>4 DEF Age, IInv, TypeOK
  <2> QED BY <2>1, <2>2, <2>3, <2>4
<1>3. TypeOK'
  BY <1>1, <1>2, Settled0 DEF IInv, TypeOK
<1>4. TicketsHaveRows'
  BY <1>1 DEF IInv, TicketsHaveRows, HasRow
<1>5. WatcherInv'
  <2>1. CASE WatchList
    BY <1>1, <2>1, ListedArePending DEF WatchList, IInv, WatcherInv, IsPending, HasRow, Own, chain
  <2>2. CASE WatchQuery
    BY <1>1, <2>2 DEF WatchQuery, IInv, WatcherInv, HasReceipt, HasRow, Own, chain
  <2>3. CASE ReplList \/ Age
    BY <1>1, <2>3 DEF ReplList, Age, IInv, WatcherInv, HasRow, Own, chain
  <2> QED BY <2>1, <2>2, <2>3
<1>6. ReplacerInv'
  <2>1. CASE ReplList
    <3>1. /\ aged \subseteq Nonces /\ UNCHANGED <<rows, replSent>> /\ replSent = None
          /\ replTodo' = {[nonce |-> n, fee |-> rows[n].fee, sol |-> rows[n].sol] :
                            n \in {m \in aged : Listed(m)}}
      BY <2>1 DEF ReplList, IInv, TypeOK, handlers, db
    <3>2. \A i \in replTodo' : \E n \in Nonces :
             i = [nonce |-> n, fee |-> rows[n].fee, sol |-> rows[n].sol] /\ HasRow(n)
      BY <3>1, ListedArePending DEF IsPending
    <3> QED BY <3>1, <3>2 DEF ReplacerInv, HasRow
  <2>2. CASE WatchList \/ WatchQuery \/ Age
    BY <1>1, <2>2 DEF WatchList, WatchQuery, Age, IInv, ReplacerInv, HasRow, chain
  <2> QED BY <2>1, <2>2
<1> QED BY <1>1, <1>3, <1>4, <1>5, <1>6, Settled0 DEF IInv

-----------------------------------------------------------------------------
(* Steps that rewrite one row, keeping its solution.                        *)

\* One row changes, keeps its solution and its fee, and its new status is true of
\* the chain.
LEMMA RowRewritten ==
  ASSUME IInv, NEW n \in Nonces, NEW r \in Row, HasRow(n),
         rows' = [rows EXCEPT ![n] = r], r.sol = rows[n].sol, r.fee = rows[n].fee,
         r.status = "success" => r.status = rows[n].status \/ (Own(n) /\ ledger[n].ok),
         r.status = "replaced" => r.status = rows[n].status \/ n < count,
         UNCHANGED chain, dbNext' = dbNext, nextNonce' = nextNonce
  PROVE  /\ rows' \in [Nonces -> Row \cup {None}]
         /\ \A m \in Nonces : HasRow(m)' <=> HasRow(m)
         /\ \A m \in Nonces : HasRow(m) => rows'[m].sol = rows[m].sol /\ rows'[m].fee = rows[m].fee
         /\ RowsBelowCounter' /\ LedgerInv' /\ WriteAhead' /\ OneBumpAhead'
         /\ SuccessIsOnChain' /\ ReplacedIsSettled' /\ ChainTypeOK'
<1> USE DEF HasRow
<1>0. /\ rows \in [Nonces -> Row \cup {None}] /\ None \notin Row
      /\ pool \subseteq Tx /\ \A tx \in pool : tx.nonce \in Nonces
  BY NoneIsNoRow DEF IInv, TypeOK, ChainTypeOK, Tx
<1>1. /\ rows' \in [Nonces -> Row \cup {None}]
      /\ \A m \in Nonces : HasRow(m)' <=> HasRow(m)
      /\ \A m \in Nonces : HasRow(m) => rows'[m].sol = rows[m].sol /\ rows'[m].fee = rows[m].fee
      /\ rows'[n] = r /\ \A m \in Nonces : m # n => rows'[m] = rows[m]
  BY <1>0
<1>2. RowsBelowCounter' /\ LedgerInv' /\ ChainTypeOK'
  BY <1>1 DEF IInv, TypeOK, ChainTypeOK, RowsBelowCounter, LedgerInv, chain
<1>3. WriteAhead' /\ OneBumpAhead'
  BY <1>0, <1>1 DEF IInv, WriteAhead, OneBumpAhead, Own, chain
<1>4. SuccessIsOnChain' /\ ReplacedIsSettled'
  BY <1>0, <1>1 DEF IInv, SuccessIsOnChain, ReplacedIsSettled, Own, chain
<1> QED BY <1>1, <1>2, <1>3, <1>4


\* Handlers in flight and the loops' snapshots survive such a step.
LEMMA OthersKept ==
  ASSUME IInv, UNCHANGED <<chain, watchTodo, replTodo, replSent>>,
         \A m \in Nonces : HasRow(m)' <=> HasRow(m),
         \A m \in Nonces : HasRow(m) => rows'[m].sol = rows[m].sol /\ rows'[m].fee = rows[m].fee,
         watchHit' \in {watchHit, None},
         \A t \in Sols : pc'[t] \in {"allocated", "sent"} =>
            pc[t] = pc'[t] /\ ticket'[t] = ticket[t] /\ answer'[t] = answer[t]
  PROVE  TicketsHaveRows' /\ WatcherInv' /\ ReplacerInv'
<1>1. /\ \A i \in watchTodo : i.nonce \in Nonces
      /\ \A i \in replTodo : i.nonce \in Nonces
      /\ watchHit # None => watchHit.nonce \in Nonces
      /\ replSent # None => replSent.tx.nonce \in Nonces
  BY DEF IInv, TypeOK, Tx
<1>2. TicketsHaveRows'
  BY DEF IInv, TicketsHaveRows
<1>3. WatcherInv'
  BY <1>1 DEF IInv, WatcherInv, Own, chain
<1>4. ReplacerInv'
  BY <1>1 DEF IInv, ReplacerInv, chain
<1> QED BY <1>2, <1>3, <1>4

\* The end of a handler, as far as types and other handlers are concerned.
LEMMA FinishTyped ==
  ASSUME TypeOK, NEW s \in Sols, Finish(s)
  PROVE  /\ pc' \in [Sols -> {"new", "checked", "entered", "ready", "allocated", "sent", "done"}]
         /\ ticket' \in [Sols -> Nonces \cup {None}]
         /\ answer' \in [Sols -> Answers \cup {None}]
         /\ lock' \in Sols \cup {None}
         /\ \A t \in Sols : pc'[t] \in {"allocated", "sent"} =>
               pc[t] = pc'[t] /\ ticket'[t] = ticket[t] /\ answer'[t] = answer[t]
BY DEF Finish, Goto, TypeOK

LEMMA RecordPreserves ==
  ASSUME IInv, NEW s \in Sols, RecordHash(s) \/ RecordFailure(s)
  PROVE  IInv'
<1> DEFINE n == ticket[s]
<1>1. /\ n \in Nonces /\ HasRow(n) /\ rows[n] \in Row /\ Finish(s)
      /\ UNCHANGED <<chain, dbNext, nextNonce, aged, restarts>>
      /\ UNCHANGED <<watchTodo, watchHit, confirmations, replTodo, replSent>>
      /\ hadSuccess' \in BOOLEAN
  <2>1. n \in Nonces /\ HasRow(n) /\ TypeOK
    BY DEF RecordHash, RecordFailure, IInv, TicketsHaveRows
  <2>2. rows[n] \in Row
    BY <2>1 DEF TypeOK, HasRow
  <2>3. CASE RecordHash(s)
    BY <2>1, <2>2, <2>3 DEF RecordHash, TypeOK, watcher, replacer
  <2>4. CASE RecordFailure(s)
    BY <2>1, <2>2, <2>4 DEF RecordFailure, TryUpdateStatus, TypeOK, watcher, replacer
  <2> QED BY <2>3, <2>4
<1>2. /\ dbErrors' \in 0..MaxDbErrors
      /\ \/ UNCHANGED rows
         \/ \E r \in Row :
              /\ rows' = [rows EXCEPT ![n] = r]
              /\ r.sol = rows[n].sol /\ r.fee = rows[n].fee
              /\ r.status \in {rows[n].status, "failed"}
  <2>1. CASE RecordHash(s)
    <3>1. [rows[n] EXCEPT !.hash = 0] \in Row
      BY <1>1 DEF Row, Fees
    <3>2. /\ dbErrors' \in 0..MaxDbErrors
          /\ UNCHANGED rows \/ rows' = [rows EXCEPT ![n] = [rows[n] EXCEPT !.hash = 0]]
      BY <1>1, <2>1 DEF RecordHash, DbFails, IInv, TypeOK
    <3> QED BY <1>1, <3>1, <3>2 DEF Row
  <2>2. CASE RecordFailure(s)
    <3>1. [rows[n] EXCEPT !.status = "failed"] \in Row
      BY <1>1 DEF Row, Status
    <3>2. /\ dbErrors' \in 0..MaxDbErrors
          /\ UNCHANGED rows \/ rows' = [rows EXCEPT ![n] = [rows[n] EXCEPT !.status = "failed"]]
      BY <1>1, <2>2 DEF RecordFailure, TryUpdateStatus, UpdateStatus, DbFails, IInv, TypeOK
    <3> QED BY <1>1, <3>1, <3>2 DEF Row
  <2> QED BY <2>1, <2>2
<1>3. TypeOK
  BY DEF IInv
<1>4. CASE UNCHANGED rows
  <2>1. TicketsHaveRows' /\ WatcherInv' /\ ReplacerInv'
    BY <1>1, <1>3, <1>4, FinishTyped, OthersKept DEF HasRow
  <2>2. TypeOK'
    BY <1>1, <1>2, <1>3, <1>4, FinishTyped, Settled0 DEF TypeOK
  <2> QED BY <1>1, <1>4, <2>1, <2>2, Settled0 DEF IInv
<1>5. CASE \E r \in Row :
              /\ rows' = [rows EXCEPT ![n] = r]
              /\ r.sol = rows[n].sol /\ r.fee = rows[n].fee
              /\ r.status \in {rows[n].status, "failed"}
  <2>1. /\ rows' \in [Nonces -> Row \cup {None}]
        /\ \A m \in Nonces : HasRow(m)' <=> HasRow(m)
        /\ \A m \in Nonces : HasRow(m) => rows'[m].sol = rows[m].sol /\ rows'[m].fee = rows[m].fee
        /\ RowsBelowCounter' /\ LedgerInv' /\ WriteAhead' /\ OneBumpAhead'
        /\ SuccessIsOnChain' /\ ReplacedIsSettled' /\ ChainTypeOK'
    <3>1. PICK r \in Row : /\ rows' = [rows EXCEPT ![n] = r]
                           /\ r.sol = rows[n].sol /\ r.fee = rows[n].fee
                           /\ r.status \in {rows[n].status, "failed"}
      BY <1>5
    <3>2. /\ r.status = "success" => r.status = rows[n].status \/ (Own(n) /\ ledger[n].ok)
          /\ r.status = "replaced" => r.status = rows[n].status \/ n < count
      BY ONLY <3>1
    <3>3. /\ n \in Nonces /\ HasRow(n) /\ r \in Row /\ rows' = [rows EXCEPT ![n] = r]
          /\ r.sol = rows[n].sol /\ r.fee = rows[n].fee
          /\ UNCHANGED chain /\ dbNext' = dbNext /\ nextNonce' = nextNonce
      BY <1>1, <3>1
    <3> QED BY <3>2, <3>3, RowRewritten
  <2>2. TicketsHaveRows' /\ WatcherInv' /\ ReplacerInv'
    <3>1. \A t \in Sols : pc'[t] \in {"allocated", "sent"} =>
             pc[t] = pc'[t] /\ ticket'[t] = ticket[t] /\ answer'[t] = answer[t]
      BY <1>1, <1>3, FinishTyped
    <3> QED BY <1>1, <2>1, <3>1, OthersKept
  <2>3. TypeOK'
    BY <1>1, <1>2, <1>3, <2>1, FinishTyped DEF TypeOK
  <2> QED BY <2>1, <2>2, <2>3 DEF IInv
<1> QED BY <1>2, <1>4, <1>5

LEMMA WatchWritePreserves ==
  ASSUME IInv, WatchWrite
  PROVE  IInv'
<1> DEFINE n == watchHit.nonce
           st == IF watchHit.ok THEN "success" ELSE "failed"
           r == [rows[n] EXCEPT !.status = st]
<1>1. /\ n \in Nonces /\ HasRow(n) /\ rows[n] \in Row
      /\ watchHit.ok \in BOOLEAN /\ watchHit' = None
      /\ UNCHANGED <<chain, dbNext, nextNonce, aged, restarts>>
      /\ UNCHANGED <<pc, ticket, answer, lock, hadSuccess, watchTodo, replTodo, replSent>>
      /\ confirmations' \in Nat
  BY DEF WatchWrite, TryUpdateStatus, IInv, WatcherInv, HasRow, TypeOK, handlers, replacer
<1>2. /\ dbErrors' \in 0..MaxDbErrors
      /\ UNCHANGED rows \/ rows' = [rows EXCEPT ![n] = r]
  BY <1>1 DEF WatchWrite, TryUpdateStatus, UpdateStatus, DbFails, IInv, TypeOK
<1>3. /\ r \in Row /\ r.sol = rows[n].sol /\ r.fee = rows[n].fee
      /\ r.status = "success" => Own(n) /\ ledger[n].ok
      /\ r.status # "replaced"
  BY <1>1 DEF Row, Status, IInv, WatcherInv, WatchWrite
<1>4. TypeOK
  BY DEF IInv
<1>5. CASE UNCHANGED rows
  <2>1. TicketsHaveRows' /\ WatcherInv' /\ ReplacerInv'
    BY <1>1, <1>5, OthersKept DEF HasRow
  <2>2. TypeOK'
    BY <1>1, <1>2, <1>4, <1>5, Settled0 DEF TypeOK
  <2> QED BY <1>1, <1>5, <2>1, <2>2, Settled0 DEF IInv
<1>6. CASE rows' = [rows EXCEPT ![n] = r]
  <2>1. /\ rows' \in [Nonces -> Row \cup {None}]
        /\ \A m \in Nonces : HasRow(m)' <=> HasRow(m)
        /\ \A m \in Nonces : HasRow(m) => rows'[m].sol = rows[m].sol /\ rows'[m].fee = rows[m].fee
        /\ RowsBelowCounter' /\ LedgerInv' /\ WriteAhead' /\ OneBumpAhead'
        /\ SuccessIsOnChain' /\ ReplacedIsSettled' /\ ChainTypeOK'
    BY <1>1, <1>3, <1>6, RowRewritten
  <2>2. TicketsHaveRows' /\ WatcherInv' /\ ReplacerInv'
    BY <1>1, <2>1, OthersKept
  <2>3. TypeOK'
    BY <1>1, <1>2, <1>4, <2>1 DEF TypeOK
  <2> QED BY <2>1, <2>2, <2>3 DEF IInv
<1> QED BY <1>2, <1>5, <1>6


-----------------------------------------------------------------------------
(* The replacement loop's writes.                                           *)

LEMMA ReplWritePreserves ==
  ASSUME IInv, ReplWrite
  PROVE  IInv'
<1> DEFINE tx == replSent.tx
           n == tx.nonce
           old == rows[n]
<1>1. /\ replSent \in [tx : Tx, answer : Answers] /\ tx \in Tx /\ n \in Nonces
      /\ tx.fee \in Fees /\ HasRow(n) /\ old \in Row /\ old.sol = tx.sol
      /\ tx.fee = old.fee + 1 /\ old.fee \in Fees
      /\ \A i \in replTodo : i.nonce # n
      /\ replSent.answer = "tooLow" => n < count
  BY DEF ReplWrite, IInv, ReplacerInv, TypeOK, HasRow, Tx, Row
<1>2. /\ UNCHANGED <<chain, dbNext, nextNonce, aged, restarts>>
      /\ UNCHANGED <<pc, ticket, answer, lock, hadSuccess, watchTodo, watchHit,
                     confirmations, replTodo>>
      /\ replSent' = None /\ dbErrors' \in 0..MaxDbErrors
  BY DEF ReplWrite, TryUpdateStatus, DbFails, handlers, watcher, db, IInv, TypeOK
<1>3. \/ UNCHANGED rows
      \/ rows' = [rows EXCEPT ![n] = [old EXCEPT !.fee = tx.fee, !.hash = tx.fee]]
      \/ rows' = [rows EXCEPT ![n] = [old EXCEPT !.fee = tx.fee]]
      \/ rows' = [rows EXCEPT ![n] = [old EXCEPT !.hash = tx.fee]]
      \/ /\ rows' = [rows EXCEPT ![n] = [old EXCEPT !.status = "replaced"]]
         /\ n < count
  <2>1. CASE replSent.answer = "tooLow"
    BY <1>1, <2>1 DEF ReplWrite, TryUpdateStatus, UpdateStatus
  <2>2. CASE replSent.answer = "ok"
    BY <1>1, <2>2 DEF ReplWrite
  <2>3. CASE replSent.answer = "err"
    BY <1>1, <2>3 DEF ReplWrite, db
  <2> QED BY <1>1, <2>1, <2>2, <2>3 DEF Answers
<1>4. /\ rows \in [Nonces -> Row \cup {None}] /\ pool \subseteq Tx
      /\ \A t \in pool : t.nonce \in Nonces /\ t.fee \in Fees
  BY DEF IInv, TypeOK, ChainTypeOK, Tx
<1>5. \/ UNCHANGED rows
      \/ \E r \in Row :
            /\ rows' = [rows EXCEPT ![n] = r] /\ r.sol = old.sol
            /\ r.fee \in {old.fee, tx.fee}
            /\ r.status = old.status \/ (r.status = "replaced" /\ n < count)
  <2>1. /\ [old EXCEPT !.fee = tx.fee, !.hash = tx.fee] \in Row
        /\ [old EXCEPT !.fee = tx.fee] \in Row
        /\ [old EXCEPT !.hash = tx.fee] \in Row
        /\ [old EXCEPT !.status = "replaced"] \in Row
    BY <1>1 DEF Row, Status
  <2> QED BY <1>1, <1>3, <2>1 DEF Row
<1>6. /\ rows' \in [Nonces -> Row \cup {None}]
      /\ \A m \in Nonces : HasRow(m)' <=> HasRow(m)
      /\ \A m \in Nonces : m # n => rows'[m] = rows[m]
      /\ rows'[n].sol = old.sol /\ rows'[n].fee \in {old.fee, tx.fee}
      /\ rows'[n].status = old.status \/ (rows'[n].status = "replaced" /\ n < count)
  <2>1. CASE UNCHANGED rows
    BY <1>1, <1>4, <2>1 DEF HasRow
  <2>2. CASE rows' # rows
    <3>1. PICK r \in Row : /\ rows' = [rows EXCEPT ![n] = r] /\ r.sol = old.sol
                           /\ r.fee \in {old.fee, tx.fee}
                           /\ r.status = old.status \/ (r.status = "replaced" /\ n < count)
      BY ONLY <1>5, <2>2
    <3>2. /\ rows' \in [Nonces -> Row \cup {None}] /\ rows'[n] = r
          /\ \A m \in Nonces : m # n => rows'[m] = rows[m]
      BY ONLY <1>1, <1>4, <3>1
    <3>3. r # None /\ old # None
      BY <1>1, NoneIsNoRow
    <3> QED BY ONLY <3>1, <3>2, <3>3 DEF HasRow
  <2> QED BY <2>1, <2>2
<1>7. TypeOK'
  BY <1>2, <1>6 DEF IInv, TypeOK, ChainTypeOK, chain
<1>8. RowsBelowCounter' /\ LedgerInv' /\ TicketsHaveRows'
  BY <1>2, <1>6 DEF IInv, RowsBelowCounter, LedgerInv, TicketsHaveRows, chain
<1>9. WatcherInv'
  <2>1. /\ \A i \in watchTodo : i.nonce \in Nonces
        /\ watchHit # None => watchHit.nonce \in Nonces
    BY DEF IInv, TypeOK
  <2> QED BY <1>2, <1>6, <2>1 DEF IInv, WatcherInv, Own, chain
<1>10. ReplacerInv'
  <2>1. \A i \in replTodo : i.nonce \in Nonces
    BY DEF IInv, TypeOK, Tx
  <2> QED BY <1>1, <1>2, <1>6, <2>1 DEF IInv, ReplacerInv
<1>11. WriteAhead'
  BY <1>2, <1>4, <1>6 DEF IInv, WriteAhead, Own, chain
<1>12. OneBumpAhead'
  <2>1. ASSUME NEW t \in pool
        PROVE  t.fee <= rows'[t.nonce].fee + 1
    <3>1. t.fee <= rows[t.nonce].fee + 1 /\ t.nonce \in Nonces /\ t.fee \in Int
      BY <1>4 DEF IInv, OneBumpAhead, Fees
    <3>2. CASE t.nonce = n
      BY <1>1, <1>6, <3>1, <3>2 DEF Fees
    <3>3. CASE t.nonce # n
      BY <1>6, <3>1, <3>3
    <3> QED BY <3>2, <3>3
  <2> QED BY <1>2, <2>1 DEF OneBumpAhead, chain
<1>13. SuccessIsOnChain' /\ ReplacedIsSettled'
  BY <1>1, <1>2, <1>6 DEF IInv, SuccessIsOnChain, ReplacedIsSettled, Own, HasRow, chain
<1> QED BY <1>7, <1>8, <1>9, <1>10, <1>11, <1>12, <1>13 DEF IInv

-----------------------------------------------------------------------------
(* A new row.                                                               *)

LEMMA AllocatePreserves ==
  ASSUME IInv, NEW s \in Sols, Allocate(s)
  PROVE  IInv'
<1> DEFINE new == [status |-> "pending", hash |-> NoHash, fee |-> 0, sol |-> s]
<1>1. /\ nextNonce \in Nonces /\ nextNonce' = nextNonce + 1 /\ ~HasRow(nextNonce)
      /\ dbNext \in 0..MaxNonce /\ dbNext <= nextNonce /\ new \in Row /\ new # None
      /\ TypeOK
      /\ UNCHANGED <<chain, watchTodo, watchHit, confirmations, replTodo, replSent,
                     hadSuccess, restarts>>
  <2>1. new \in Row /\ new # None
    BY NoneIsNoRow DEF Row, Status, Fees
  <2>2. nextNonce \in Nonces /\ dbNext \in 0..MaxNonce /\ TypeOK /\ dbNext <= nextNonce
    BY DEF Allocate, IInv, RowsBelowCounter, TypeOK, Nonces
  <2>3. ~HasRow(nextNonce)
    BY <2>2 DEF IInv, RowsBelowCounter
  <2> QED BY <2>1, <2>2, <2>3 DEF Allocate, watcher, replacer
<1>2. CASE /\ dbNext' = nextNonce + 1
           /\ rows' = [rows EXCEPT ![nextNonce] = new]
           /\ aged' \in {aged, aged \cup {nextNonce}}
           /\ ticket' = [ticket EXCEPT ![s] = nextNonce]
           /\ Goto(s, "allocated")
           /\ UNCHANGED <<answer, lock, dbErrors>>
  <2>1. /\ rows' \in [Nonces -> Row \cup {None}] /\ rows'[nextNonce] = new
        /\ \A m \in Nonces : m # nextNonce => rows'[m] = rows[m]
        /\ \A m \in Nonces : HasRow(m) => m # nextNonce /\ rows'[m] = rows[m] /\ HasRow(m)'
    BY <1>1, <1>2 DEF TypeOK, HasRow
  <2>2. TypeOK'
    <3>1. /\ pc' \in [Sols -> {"new", "checked", "entered", "ready", "allocated", "sent", "done"}]
          /\ ticket' \in [Sols -> Nonces \cup {None}]
          /\ nextNonce' \in 0..MaxNonce /\ dbNext' \in 0..MaxNonce
      BY <1>1, <1>2 DEF Goto, TypeOK, Nonces
    <3> QED BY <1>1, <1>2, <2>1, <3>1 DEF TypeOK, ChainTypeOK, chain
  <2>3. RowsBelowCounter'
    BY <1>1, <1>2, <2>1 DEF IInv, RowsBelowCounter, HasRow, Nonces
  <2>4. TicketsHaveRows'
    <3>1. ASSUME NEW t \in Sols, t # s
          PROVE  pc'[t] = pc[t] /\ ticket'[t] = ticket[t] /\ answer'[t] = answer[t]
      BY <1>1, <1>2, <3>1 DEF Goto, TypeOK
    <3>2. pc'[s] = "allocated" /\ ticket'[s] = nextNonce
      BY <1>1, <1>2 DEF Goto, TypeOK
    <3> QED BY <1>1, <2>1, <3>1, <3>2 DEF IInv, TicketsHaveRows, HasRow
  <2>5. WatcherInv' /\ ReplacerInv'
    <3>1. /\ \A i \in watchTodo : i.nonce \in Nonces
          /\ \A i \in replTodo : i.nonce \in Nonces
          /\ watchHit # None => watchHit.nonce \in Nonces
          /\ replSent # None => replSent.tx.nonce \in Nonces
      BY <1>1 DEF TypeOK, Tx
    <3>2. WatcherInv'
      BY <1>1, <2>1, <3>1 DEF IInv, WatcherInv, Own, chain
    <3>3. ReplacerInv'
      BY <1>1, <2>1, <3>1 DEF IInv, ReplacerInv, chain
    <3> QED BY <3>2, <3>3
  <2>6. LedgerInv' /\ WriteAhead' /\ OneBumpAhead'
    <3>1. \A tx \in pool : tx.nonce \in Nonces
      BY <1>1 DEF TypeOK, ChainTypeOK, Tx
    <3>2. LedgerInv'
      BY <1>1 DEF IInv, LedgerInv, chain
    <3> QED BY <1>1, <2>1, <3>1, <3>2 DEF IInv, WriteAhead, OneBumpAhead, Own, chain
  <2>7. SuccessIsOnChain' /\ ReplacedIsSettled'
    BY <1>1, <2>1 DEF IInv, SuccessIsOnChain, ReplacedIsSettled, HasRow, Own, chain
  <2> QED BY <2>2, <2>3, <2>4, <2>5, <2>6, <2>7 DEF IInv
<1>3. CASE /\ DbFails /\ dbNext' \in {dbNext, nextNonce + 1}
           /\ Finish(s) /\ UNCHANGED <<rows, aged>>
  <2>1. /\ TicketsHaveRows' /\ WatcherInv' /\ ReplacerInv'
    <3>1. \A t \in Sols : pc'[t] \in {"allocated", "sent"} =>
             pc[t] = pc'[t] /\ ticket'[t] = ticket[t] /\ answer'[t] = answer[t]
      BY <1>1, <1>3, FinishTyped
    <3> QED BY <1>1, <1>3, <3>1, OthersKept DEF HasRow
  <2>2. TypeOK'
    <3>1. /\ nextNonce' \in 0..MaxNonce /\ dbNext' \in 0..MaxNonce
          /\ dbErrors' \in 0..MaxDbErrors
      BY <1>1, <1>3 DEF TypeOK, Nonces, DbFails
    <3> QED BY <1>1, <1>3, <3>1, FinishTyped DEF TypeOK, ChainTypeOK, chain
  <2>3. RowsBelowCounter'
    BY <1>1, <1>3 DEF IInv, RowsBelowCounter, HasRow, Nonces
  <2>4. LedgerInv' /\ WriteAhead' /\ OneBumpAhead' /\ SuccessIsOnChain' /\ ReplacedIsSettled'
    BY <1>1, <1>3 DEF IInv, LedgerInv, WriteAhead, OneBumpAhead, SuccessIsOnChain,
                      ReplacedIsSettled, HasRow, Own, chain
  <2> QED BY <2>1, <2>2, <2>3, <2>4 DEF IInv
<1> QED BY <1>2, <1>3 DEF Allocate


-----------------------------------------------------------------------------
(* The network.                                                             *)

\* Broadcasting a transaction that agrees with its row.
LEMMA BroadcastKeeps ==
  ASSUME IInv, NEW tx \in Tx, NEW a \in Answers, Broadcast(tx, a),
         HasRow(tx.nonce), rows[tx.nonce].sol = tx.sol, tx.fee <= rows[tx.nonce].fee + 1,
         UNCHANGED rows
  PROVE  /\ UNCHANGED <<epoch, count, ledger>>
         /\ pool' = pool \/ (pool' = pool \cup {tx} /\ count <= tx.nonce)
         /\ a = "tooLow" => tx.nonce < count
         /\ ChainTypeOK' /\ LedgerInv' /\ WriteAhead' /\ OneBumpAhead'
         /\ SuccessIsOnChain' /\ ReplacedIsSettled'
<1>1. /\ UNCHANGED <<epoch, count, ledger>>
      /\ pool' = pool \/ (pool' = pool \cup {tx} /\ count <= tx.nonce)
      /\ a = "tooLow" => tx.nonce < count
  BY DEF Broadcast, Tx, Nonces, IInv, TypeOK, ChainTypeOK
<1>2. ChainTypeOK'
  BY <1>1 DEF IInv, TypeOK, ChainTypeOK
<1>3. LedgerInv'
  BY <1>1 DEF IInv, LedgerInv
<1>4. WriteAhead' /\ OneBumpAhead'
  BY <1>1 DEF IInv, WriteAhead, OneBumpAhead, HasRow, Own
<1>5. SuccessIsOnChain' /\ ReplacedIsSettled'
  BY <1>1 DEF IInv, SuccessIsOnChain, ReplacedIsSettled, HasRow, Own
<1> QED BY <1>1, <1>2, <1>3, <1>4, <1>5

LEMMA SendPreserves ==
  ASSUME IInv, NEW s \in Sols, Send(s)
  PROVE  IInv'
<1> DEFINE tx == [nonce |-> ticket[s], fee |-> 0, sol |-> s]
<1>1. PICK a \in Answers : Broadcast(tx, a) /\ answer' = [answer EXCEPT ![s] = a]
  BY DEF Send
<1>2. /\ UNCHANGED <<rows, dbNext, nextNonce, aged, dbErrors, restarts>>
      /\ UNCHANGED <<ticket, lock, hadSuccess, watchTodo, watchHit, confirmations,
                     replTodo, replSent>>
      /\ pc' = [pc EXCEPT ![s] = "sent"] /\ pc[s] = "allocated" /\ TypeOK
  BY DEF Send, Goto, db, watcher, replacer, IInv
<1>3. /\ ticket[s] \in Nonces /\ HasRow(ticket[s]) /\ rows[ticket[s]].sol = s
      /\ rows[ticket[s]] \in Row
  BY <1>2 DEF IInv, TicketsHaveRows, HasRow, TypeOK
<1>4. tx \in Tx /\ tx.nonce = ticket[s] /\ tx.sol = s /\ tx.fee <= rows[tx.nonce].fee + 1
  BY <1>3 DEF Tx, Fees, Row
<1>5. /\ UNCHANGED <<epoch, count, ledger>>
      /\ ChainTypeOK' /\ LedgerInv' /\ WriteAhead' /\ OneBumpAhead'
      /\ SuccessIsOnChain' /\ ReplacedIsSettled'
  BY <1>1, <1>2, <1>3, <1>4, BroadcastKeeps
<1>6. TypeOK'
  BY <1>1, <1>2, <1>5 DEF TypeOK
<1>7. TicketsHaveRows' /\ RowsBelowCounter'
  BY <1>1, <1>2, <1>3 DEF IInv, TypeOK, TicketsHaveRows, RowsBelowCounter, HasRow
<1>8. WatcherInv' /\ ReplacerInv'
  BY <1>2, <1>5 DEF IInv, WatcherInv, ReplacerInv, HasRow, Own
<1> QED BY <1>5, <1>6, <1>7, <1>8 DEF IInv

LEMMA ReplSendPreserves ==
  ASSUME IInv, ReplSend
  PROVE  IInv'
<1>1. PICK i \in replTodo :
         /\ replTodo' = replTodo \ {i}
         /\ \/ i.fee = MaxFee /\ UNCHANGED <<chain, replSent>>
            \/ /\ i.fee < MaxFee
               /\ \E a \in Answers :
                    /\ Broadcast(Bumped(i), a)
                    /\ replSent' = [tx |-> Bumped(i), answer |-> a]
  BY DEF ReplSend
<1>2. /\ UNCHANGED <<rows, dbNext, nextNonce, aged, dbErrors, restarts>>
      /\ UNCHANGED <<pc, ticket, answer, lock, hadSuccess, watchTodo, watchHit, confirmations>>
      /\ replSent = None /\ TypeOK
  BY DEF ReplSend, handlers, db, watcher, IInv
<1>3. /\ i \in Tx /\ HasRow(i.nonce) /\ rows[i.nonce].fee = i.fee /\ rows[i.nonce].sol = i.sol
      /\ \A j \in replTodo : j.nonce = i.nonce => j = i
  BY <1>2 DEF IInv, ReplacerInv, TypeOK
<1>4. CASE i.fee = MaxFee /\ UNCHANGED <<chain, replSent>>
  <2>1. RowsBelowCounter' /\ LedgerInv' /\ WriteAhead' /\ OneBumpAhead'
        /\ SuccessIsOnChain' /\ ReplacedIsSettled' /\ ChainTypeOK'
    BY <1>2, <1>4, Settled0
  <2>2. TypeOK'
    BY <1>1, <1>2, <1>4, <2>1 DEF TypeOK
  <2>3. TicketsHaveRows' /\ WatcherInv'
    BY <1>2, <1>4 DEF IInv, TicketsHaveRows, WatcherInv, HasRow, Own, chain
  <2>4. ReplacerInv'
    BY <1>1, <1>2, <1>4 DEF IInv, ReplacerInv, HasRow
  <2> QED BY <2>1, <2>2, <2>3, <2>4 DEF IInv
<1>5. CASE /\ i.fee < MaxFee
           /\ \E a \in Answers :
                /\ Broadcast(Bumped(i), a)
                /\ replSent' = [tx |-> Bumped(i), answer |-> a]
  <2>1. PICK a \in Answers : /\ Broadcast(Bumped(i), a)
                             /\ replSent' = [tx |-> Bumped(i), answer |-> a]
    BY <1>5
  <2>2. /\ Bumped(i) \in Tx /\ Bumped(i).nonce = i.nonce /\ Bumped(i).sol = i.sol
        /\ Bumped(i).fee = i.fee + 1 /\ i.fee \in Int
    BY <1>3, <1>5 DEF Bumped, Tx, Fees
  <2>3. Bumped(i).fee <= rows[Bumped(i).nonce].fee + 1
    BY <1>3, <2>2
  <2>4. /\ UNCHANGED <<epoch, count, ledger>>
        /\ a = "tooLow" => i.nonce < count
        /\ ChainTypeOK' /\ LedgerInv' /\ WriteAhead' /\ OneBumpAhead'
        /\ SuccessIsOnChain' /\ ReplacedIsSettled'
    BY <1>2, <1>3, <2>1, <2>2, <2>3, BroadcastKeeps
  <2>5. TypeOK'
    BY <1>1, <1>2, <2>1, <2>2, <2>4 DEF TypeOK
  <2>6. TicketsHaveRows' /\ WatcherInv' /\ RowsBelowCounter'
    BY <1>2, <2>4 DEF IInv, TicketsHaveRows, WatcherInv, RowsBelowCounter, HasRow, Own
  <2>7. ReplacerInv'
    BY <1>1, <1>2, <1>3, <2>1, <2>2, <2>4 DEF IInv, ReplacerInv, HasRow
  <2> QED BY <2>4, <2>5, <2>6, <2>7 DEF IInv
<1> QED BY <1>1, <1>4, <1>5

\* Settling the next nonce keeps what is known about settled ones.
LEMMA ChainPreserves ==
  ASSUME IInv, ChainStep
  PROVE  IInv'
<1>1. /\ UNCHANGED <<rows, dbNext, nextNonce, aged, dbErrors, restarts>>
      /\ UNCHANGED <<pc, ticket, answer, lock, hadSuccess, watchTodo, watchHit,
                     confirmations, replTodo, replSent>>
      /\ TypeOK /\ ChainTypeOK
  BY DEF ChainStep, handlers, db, watcher, replacer, IInv, TypeOK
<1>2. /\ pool' \subseteq pool /\ count' \in 0..MaxNonce /\ count <= count'
      /\ epoch' \in 0..MaxEpoch /\ ledger' \in [Nonces -> Mined \cup {None, Foreign}]
      /\ \A n \in Nonces : n < count => ledger'[n] = ledger[n]
      /\ \A n \in Nonces : ledger'[n] # None <=> n < count'
      /\ \A tx \in pool' : count' <= tx.nonce
      /\ \A n \in Nonces : ledger'[n] \notin {None, Foreign} /\ count <= n =>
            \E tx \in pool : tx.nonce = n /\ tx.sol = ledger'[n].sol
  <2>1. CASE Mine
    <3>1. PICK tx \in pool :
            /\ tx.nonce = count
            /\ ledger' = [ledger EXCEPT ![count] =
                            [fee |-> tx.fee, sol |-> tx.sol, ok |-> Valid(tx.sol)]]
            /\ pool' = {t \in pool : t.nonce # count}
            /\ count' = count + 1
            /\ UNCHANGED epoch
      BY <2>1 DEF Mine
    <3>2. /\ tx \in Tx /\ count \in Nonces
          /\ [fee |-> tx.fee, sol |-> tx.sol, ok |-> Valid(tx.sol)] \in Mined
          /\ [fee |-> tx.fee, sol |-> tx.sol, ok |-> Valid(tx.sol)] # None
      <4>1. tx \in Tx /\ count \in Nonces
        BY <1>1, <3>1 DEF ChainTypeOK, Tx
      <4>2. Valid(tx.sol) \in BOOLEAN
        BY DEF Valid
      <4>3. [fee |-> tx.fee, sol |-> tx.sol, ok |-> Valid(tx.sol)] \in Mined
        BY <4>1, <4>2 DEF Tx, Mined
      <4> QED BY <4>1, <4>3
    <3>3. /\ pool' \subseteq pool /\ count' \in 0..MaxNonce /\ count <= count'
          /\ epoch' \in 0..MaxEpoch
          /\ ledger' \in [Nonces -> Mined \cup {None, Foreign}]
      BY <1>1, <3>1, <3>2 DEF ChainTypeOK, Nonces
    <3>4. /\ \A n \in Nonces : n < count => ledger'[n] = ledger[n]
          /\ \A n \in Nonces : ledger'[n] # None <=> n < count'
      BY <1>1, <3>1, <3>2 DEF ChainTypeOK, Nonces, IInv, LedgerInv
    <3>5. \A t \in pool' : count' <= t.nonce
      BY <1>1, <3>1, <3>2 DEF ChainTypeOK, Nonces, Tx, IInv, LedgerInv
    <3>6. \A n \in Nonces : ledger'[n] \notin {None, Foreign} /\ count <= n =>
            \E t \in pool : t.nonce = n /\ t.sol = ledger'[n].sol
      BY <1>1, <3>1, <3>2, <3>4 DEF ChainTypeOK, Nonces
    <3> QED BY <3>3, <3>4, <3>5, <3>6
  <2>2. CASE MineForeign
    <3>1. /\ count \in Nonces /\ count' = count + 1 /\ epoch' = epoch
          /\ ledger' = [ledger EXCEPT ![count] = Foreign]
          /\ pool' = {t \in pool : t.nonce # count}
      BY <1>1, <2>2 DEF MineForeign, ChainTypeOK, Nonces
    <3>2. /\ pool' \subseteq pool /\ count' \in 0..MaxNonce /\ count <= count'
          /\ epoch' \in 0..MaxEpoch
          /\ ledger' \in [Nonces -> Mined \cup {None, Foreign}]
      BY <1>1, <3>1 DEF ChainTypeOK, Nonces
    <3>3. /\ \A n \in Nonces : n < count => ledger'[n] = ledger[n]
          /\ \A n \in Nonces : ledger'[n] # None <=> n < count'
          /\ \A n \in Nonces : ~(ledger'[n] \notin {None, Foreign} /\ count <= n)
      BY <1>1, <3>1 DEF ChainTypeOK, Nonces, IInv, LedgerInv
    <3>4. \A t \in pool' : count' <= t.nonce
      BY <1>1, <3>1 DEF ChainTypeOK, Nonces, Tx, IInv, LedgerInv
    <3> QED BY <3>2, <3>3, <3>4
  <2>3. CASE Evict \/ NextEpoch
    BY <1>1, <2>3 DEF Evict, NextEpoch, ChainTypeOK, IInv, LedgerInv, Nonces
  <2> QED BY <2>1, <2>2, <2>3 DEF ChainStep
<1>3. TypeOK'
  BY <1>1, <1>2 DEF TypeOK, ChainTypeOK
<1>4. \A n \in Nonces : Own(n) => n < count /\ ledger'[n] = ledger[n]
  BY <1>2 DEF Own, IInv, LedgerInv
<1>5. RowsBelowCounter' /\ TicketsHaveRows' /\ LedgerInv'
  BY <1>1, <1>2 DEF IInv, RowsBelowCounter, TicketsHaveRows, LedgerInv, HasRow
<1>6. WatcherInv'
  BY <1>1, <1>4 DEF IInv, TypeOK, WatcherInv, HasRow, Own
<1>7. ReplacerInv'
  <2>1. replSent # None /\ replSent.answer = "tooLow" => replSent.tx.nonce < count'
    BY <1>1, <1>2 DEF IInv, ReplacerInv, TypeOK, Tx, Nonces, ChainTypeOK
  <2> QED BY <1>1, <2>1 DEF IInv, ReplacerInv, HasRow
<1>8. WriteAhead'
  <2>1. ASSUME NEW n \in Nonces, Own(n)'
        PROVE  HasRow(n) /\ rows[n].sol = ledger'[n].sol
    <3>1. CASE n < count
      BY <1>2, <2>1, <3>1 DEF IInv, WriteAhead, Own
    <3>2. CASE count <= n
      BY <1>2, <2>1, <3>2 DEF IInv, WriteAhead, Own
    <3> QED BY <1>1, <3>1, <3>2 DEF ChainTypeOK, Nonces
  <2> QED BY <1>1, <1>2, <2>1 DEF IInv, WriteAhead, HasRow
<1>9. OneBumpAhead' /\ SuccessIsOnChain'
  BY <1>1, <1>2, <1>4 DEF IInv, OneBumpAhead, SuccessIsOnChain, HasRow, Own
<1>10. ReplacedIsSettled'
  BY <1>1, <1>2 DEF IInv, ReplacedIsSettled, HasRow, ChainTypeOK, Nonces
<1> QED BY <1>3, <1>5, <1>6, <1>7, <1>8, <1>9, <1>10 DEF IInv

LEMMA RestartPreserves ==
  ASSUME IInv, Restart
  PROVE  IInv'
<1>1. /\ UNCHANGED <<chain, rows, aged, dbErrors>> /\ TypeOK
      /\ watchTodo' = {} /\ watchHit' = None /\ replTodo' = {} /\ replSent' = None
      /\ pc' = [t \in Sols |-> IF pc[t] = "new" THEN "new" ELSE "done"]
      /\ dbNext' = nextNonce'
  BY DEF Restart, IInv
<1>2. dbNext' \in 0..MaxNonce /\ dbNext <= dbNext'
  <2>1. PICK seen \in {0, count} \cup PendingCounts, stored \in Stored :
          nextNonce' = IF seen > stored THEN seen ELSE stored
    BY DEF Restart, FirstNonce
  <2>2. seen \in 0..MaxNonce
    BY <1>1, <2>1 DEF PendingCounts, TypeOK, ChainTypeOK
  <2>3. stored \in 0..MaxNonce /\ dbNext <= stored
    BY <1>1, <2>1 DEF Stored, TypeOK, IInv, RowsBelowCounter
  <2> QED BY <1>1, <2>1, <2>2, <2>3 DEF TypeOK
<1>3. TypeOK'
  <2>1. ChainTypeOK'
    BY <1>1 DEF TypeOK, ChainTypeOK, chain
  <2>2. /\ pc' \in [Sols -> {"new", "checked", "entered", "ready", "allocated", "sent", "done"}]
        /\ ticket' \in [Sols -> Nonces \cup {None}]
        /\ answer' \in [Sols -> Answers \cup {None}]
        /\ lock' \in Sols \cup {None} /\ hadSuccess' \in BOOLEAN
    BY <1>1 DEF Restart, TypeOK
  <2>3. /\ restarts' \in 0..MaxRestarts /\ confirmations' \in Nat
    BY <1>1 DEF Restart, TypeOK
  <2> QED BY <1>1, <1>2, <2>1, <2>2, <2>3 DEF TypeOK
<1>4. RowsBelowCounter'
  BY <1>1, <1>2 DEF IInv, RowsBelowCounter, HasRow, TypeOK, Nonces
<1>5. TicketsHaveRows' /\ WatcherInv' /\ ReplacerInv'
  BY <1>1 DEF TicketsHaveRows, WatcherInv, ReplacerInv
<1>6. LedgerInv' /\ WriteAhead' /\ OneBumpAhead' /\ SuccessIsOnChain' /\ ReplacedIsSettled'
  BY <1>1 DEF IInv, LedgerInv, WriteAhead, OneBumpAhead, SuccessIsOnChain,
              ReplacedIsSettled, HasRow, Own, chain
<1> QED BY <1>3, <1>4, <1>5, <1>6 DEF IInv


-----------------------------------------------------------------------------
(* Putting the steps together.                                              *)

LEMMA StepPreserves == IInv /\ [Next]_vars => IInv'
<1> SUFFICES ASSUME IInv, [Next]_vars PROVE IInv'
  OBVIOUS
<1>1. ASSUME NEW s \in Sols, HandlerStep(s) \/ Enter(s) \/ Cancel(s)
      PROVE  IInv'
  BY <1>1, QuietHandler, AllocatePreserves, SendPreserves, RecordPreserves DEF HandlerStep
<1>2. CASE Watcher
  BY <1>2, QuietLoops, WatchWritePreserves DEF Watcher
<1>3. CASE Replacer
  BY <1>3, QuietLoops, ReplSendPreserves, ReplWritePreserves DEF Replacer
<1>4. CASE Age \/ ChainStep \/ Restart
  BY <1>4, QuietLoops, ChainPreserves, RestartPreserves
<1>5. CASE UNCHANGED vars
  <2>1. UNCHANGED <<chain, handlers, nextNonce, db, watcher, replacer, restarts>>
    BY <1>5 DEF vars
  <2>2. TypeOK'
    BY <2>1 DEF chain, handlers, db, watcher, replacer, IInv, TypeOK, ChainTypeOK
  <2>3. RowsBelowCounter' /\ TicketsHaveRows' /\ LedgerInv' /\ WriteAhead' /\ OneBumpAhead'
    BY <2>1 DEF chain, handlers, db, IInv, RowsBelowCounter, TicketsHaveRows, LedgerInv,
                WriteAhead, OneBumpAhead, HasRow, Own
  <2>4. WatcherInv' /\ ReplacerInv' /\ SuccessIsOnChain' /\ ReplacedIsSettled'
    BY <2>1 DEF chain, db, watcher, replacer, IInv, WatcherInv, ReplacerInv, SuccessIsOnChain,
                ReplacedIsSettled, HasRow, Own
  <2> QED BY <2>2, <2>3, <2>4 DEF IInv
<1> QED BY <1>1, <1>2, <1>3, <1>4, <1>5 DEF Next

\* The inductive invariant holds throughout.
THEOREM Invariance == Spec => []IInv
BY InitEstablishes, StepPreserves, PTL DEF Spec

\* Every variable keeps its type.
THEOREM TypeCorrectness == Spec => []TypeOK
<1>1. IInv => TypeOK
  BY DEF IInv
<1> QED BY <1>1, Invariance, PTL

\* No transaction is out that the table does not know, after any crash or fault.
THEOREM WriteAheadLogging == Spec => []WriteAhead
<1>1. IInv => WriteAhead
  BY DEF IInv
<1> QED BY <1>1, Invariance, PTL

\* The network never runs more than one fee bump ahead of the table.
THEOREM BumpsAreRecorded == Spec => []OneBumpAhead
<1>1. IInv => OneBumpAhead
  BY DEF IInv
<1> QED BY <1>1, Invariance, PTL

\* A row that says success tells the truth about the chain.
THEOREM SuccessIsTrue == Spec => []SuccessIsOnChain
<1>1. IInv => SuccessIsOnChain
  BY DEF IInv
<1> QED BY <1>1, Invariance, PTL

\* A row that says replaced has a nonce the chain has used.
THEOREM ReplacedIsTrue == Spec => []ReplacedIsSettled
<1>1. IInv => ReplacedIsSettled
  BY DEF IInv
<1> QED BY <1>1, Invariance, PTL

-----------------------------------------------------------------------------
(* The confirmations metric.  A nonce is counted while it may yet be: its   *)
(* row is pending, or the watcher still has it in its hands.  Counting ends *)
(* that, unless the write failed.                                           *)

\* Sets of nonces are finite.
LEMMA NoncesFinite ==
  ASSUME NEW S, S \subseteq Nonces
  PROVE  IsFiniteSet(S) /\ Cardinality(S) \in Nat
<1>1. 0 \in Int /\ MaxNonce - 1 \in Int
  OBVIOUS
<1>2. IsFiniteSet(Nonces)
  BY <1>1, FS_Interval DEF Nonces
<1>3. IsFiniteSet(S)
  BY <1>2, FS_Subset
<1> QED BY <1>3, FS_CardinalityType

\* What was settled and out of the watcher's reach stays so.
LEMMA CountedGrows ==
  ASSUME IInv, CountedInv, VisitsOnce', IInv',
         \A n \in Nonces : Own(n) /\ ledger[n].ok /\ ~Countable(n)
                           => (Own(n) /\ ledger[n].ok /\ ~Countable(n))',
         confirmations' <= confirmations, dbErrors <= dbErrors'
  PROVE  CountedInv'
<1> DEFINE S == {n \in Nonces : Own(n) /\ ledger[n].ok /\ ~Countable(n)}
<1>1. S \subseteq S' /\ S \subseteq Nonces /\ S' \subseteq Nonces
  OBVIOUS
<1>2. Cardinality(S) <= Cardinality(S')
  BY <1>1, NoncesFinite, FS_Subset
<1>3. Cardinality(S) \in Nat /\ Cardinality(S') \in Nat
  BY <1>1, NoncesFinite
<1>4. /\ confirmations \in Nat /\ confirmations' \in Nat
      /\ dbErrors \in Nat /\ dbErrors' \in Nat
  BY DEF IInv, TypeOK
<1>5. confirmations <= Cardinality(S) + dbErrors
  BY DEF CountedInv
<1> HIDE DEF S
<1>6. confirmations' <= Cardinality(S') + dbErrors'
  BY <1>2, <1>3, <1>4, <1>5
<1> QED BY <1>6 DEF CountedInv, S

\* Handlers and the replacement loop: rows only leave the status pending, and only a
\* nonce that was never used enters it.
LEMMA StatusMoves ==
  ASSUME IInv, CountedInv, IInv',
         UNCHANGED <<ledger, watchTodo, watchHit, confirmations>>,
         dbErrors <= dbErrors',
         \A n \in Nonces : IsPending(n)' => IsPending(n) \/ ~Own(n)
  PROVE  CountedInv'
<1>1. VisitsOnce'
  BY DEF CountedInv, VisitsOnce
<1>2. \A n \in Nonces : Own(n) /\ ledger[n].ok /\ ~Countable(n)
                          => (Own(n) /\ ledger[n].ok /\ ~Countable(n))'
  BY DEF Own, Countable
<1>3. confirmations' <= confirmations
  BY DEF IInv, TypeOK
<1> QED BY <1>1, <1>2, <1>3, CountedGrows

\* A write that may fail leaves no row pending that was not.
LEMMA TriedStatus ==
  ASSUME IInv, NEW m \in Nonces, NEW status \in Status, status # "pending",
         HasRow(m), TryUpdateStatus(m, status)
  PROVE  /\ dbErrors <= dbErrors'
         /\ \A n \in Nonces : IsPending(n)' => IsPending(n)
         /\ dbErrors' = dbErrors => ~IsPending(m)'
         /\ dbErrors' = dbErrors \/ dbErrors' = dbErrors + 1
<1>1. rows \in [Nonces -> Row \cup {None}] /\ dbErrors \in Nat
  BY DEF IInv, TypeOK
<1>2. CASE UpdateStatus(m, status) /\ UNCHANGED dbErrors
  <2>1. /\ \A n \in Nonces : n # m => rows'[n] = rows[n]
        /\ rows'[m] = [rows[m] EXCEPT !.status = status]
    BY <1>1, <1>2 DEF UpdateStatus
  <2>2. rows'[m].status = status
    BY <1>1, <2>1 DEF HasRow, Row
  <2>3. ~IsPending(m)'
    BY <2>2 DEF IsPending
  <2>4. \A n \in Nonces : n # m => (IsPending(n)' <=> IsPending(n))
    BY <2>1 DEF IsPending, HasRow
  <2> QED BY <1>1, <1>2, <2>3, <2>4
<1>3. CASE DbFails /\ UNCHANGED rows
  BY <1>1, <1>3 DEF DbFails, IsPending, HasRow
<1> QED BY <1>2, <1>3 DEF TryUpdateStatus

LEMMA HandlerCounts ==
  ASSUME IInv, CountedInv, IInv', NEW s \in Sols, HandlerStep(s) \/ Enter(s) \/ Cancel(s)
  PROVE  CountedInv'
<1>0. dbErrors \in Nat /\ rows \in [Nonces -> Row \cup {None}]
  BY DEF IInv, TypeOK
<1>1. CASE Recheck(s) \/ Simulate(s) \/ Enter(s) \/ Cancel(s)
  <2>1. UNCHANGED <<ledger, watchTodo, watchHit, confirmations, dbErrors, rows>>
    BY <1>1 DEF Recheck, Simulate, Enter, Cancel, chain, watcher, db
  <2>2. dbErrors <= dbErrors' /\ \A n \in Nonces : IsPending(n)' => IsPending(n)
    BY <1>0, <2>1 DEF IsPending, HasRow
  <2> QED BY <2>1, <2>2, StatusMoves
<1>2. CASE Allocate(s)
  <2>1. UNCHANGED <<ledger, watchTodo, watchHit, confirmations>>
    BY <1>2 DEF Allocate, chain, watcher
  <2>2. dbErrors <= dbErrors'
    BY <1>0, <1>2 DEF Allocate, DbFails
  <2>3. \A n \in Nonces : n # nextNonce => rows'[n] = rows[n]
    BY <1>0, <1>2 DEF Allocate
  <2>4. nextNonce \in Nonces => ~HasRow(nextNonce)
    BY DEF IInv, TypeOK, RowsBelowCounter
  <2>5. nextNonce \in Nonces => ~Own(nextNonce)
    BY <2>4 DEF IInv, WriteAhead
  <2>6. \A n \in Nonces : IsPending(n)' => IsPending(n) \/ ~Own(n)
    BY <2>3, <2>5 DEF IsPending, HasRow
  <2> QED BY <2>1, <2>2, <2>6, StatusMoves
<1>3. CASE Send(s)
  <2>1. PICK a \in Answers : Broadcast([nonce |-> ticket[s], fee |-> 0, sol |-> s], a)
    BY <1>3 DEF Send
  <2>2. UNCHANGED <<ledger, watchTodo, watchHit, confirmations, dbErrors, rows>>
    BY <1>3, <2>1 DEF Send, Broadcast, watcher, db
  <2>3. dbErrors <= dbErrors' /\ \A n \in Nonces : IsPending(n)' => IsPending(n)
    BY <1>0, <2>2 DEF IsPending, HasRow
  <2> QED BY <2>2, <2>3, StatusMoves
<1>4. CASE RecordHash(s)
  <2>1. ticket[s] \in Nonces /\ HasRow(ticket[s])
    BY <1>4 DEF RecordHash, IInv, TicketsHaveRows
  <2>2. UNCHANGED <<ledger, watchTodo, watchHit, confirmations>> /\ dbErrors <= dbErrors'
    BY <1>0, <1>4 DEF RecordHash, DbFails, chain, watcher
  <2>3. \A n \in Nonces : HasRow(n) => rows'[n].status = rows[n].status
    BY <1>0, <1>4, <2>1 DEF RecordHash, HasRow, Row
  <2>4. \A n \in Nonces : ~HasRow(n) => rows'[n] = rows[n]
    BY <1>0, <1>4, <2>1 DEF RecordHash, HasRow
  <2>5. \A n \in Nonces : IsPending(n)' => IsPending(n)
    BY <2>3, <2>4 DEF IsPending, HasRow
  <2> QED BY <2>2, <2>5, StatusMoves
<1>5. CASE RecordFailure(s)
  <2>1. ticket[s] \in Nonces /\ HasRow(ticket[s]) /\ TryUpdateStatus(ticket[s], "failed")
    BY <1>5 DEF RecordFailure, IInv, TicketsHaveRows
  <2>2. UNCHANGED <<ledger, watchTodo, watchHit, confirmations>>
    BY <1>5 DEF RecordFailure, chain, watcher
  <2>3. dbErrors <= dbErrors' /\ \A n \in Nonces : IsPending(n)' => IsPending(n)
    BY <2>1, TriedStatus DEF Status
  <2> QED BY <2>2, <2>3, StatusMoves
<1> QED BY <1>1, <1>2, <1>3, <1>4, <1>5 DEF HandlerStep

LEMMA ReplacerCounts ==
  ASSUME IInv, CountedInv, IInv', Replacer
  PROVE  CountedInv'
<1>0. dbErrors \in Nat /\ rows \in [Nonces -> Row \cup {None}]
  BY DEF IInv, TypeOK
<1>1. CASE ReplList \/ ReplSend
  <2>1. UNCHANGED <<ledger, watchTodo, watchHit, confirmations, dbErrors, rows>>
    BY <1>1 DEF ReplList, ReplSend, Broadcast, chain, watcher, db
  <2>2. dbErrors <= dbErrors' /\ \A n \in Nonces : IsPending(n)' => IsPending(n)
    BY <1>0, <2>1 DEF IsPending, HasRow
  <2> QED BY <2>1, <2>2, StatusMoves
<1>2. CASE ReplWrite
  <2> DEFINE m == replSent.tx.nonce
  <2>1. m \in Nonces /\ HasRow(m) /\ replSent.tx.fee \in Fees
    BY <1>2 DEF ReplWrite, IInv, TypeOK, ReplacerInv, Tx
  <2>2. UNCHANGED <<ledger, watchTodo, watchHit, confirmations>>
    BY <1>2 DEF ReplWrite, chain, watcher
  <2>3. CASE replSent.answer = "tooLow"
    <3>1. TryUpdateStatus(m, "replaced")
      BY <1>2, <2>3 DEF ReplWrite
    <3>2. dbErrors <= dbErrors' /\ \A n \in Nonces : IsPending(n)' => IsPending(n)
      BY <2>1, <3>1, TriedStatus DEF Status
    <3> QED BY <2>2, <3>2, StatusMoves
  <2>4. CASE replSent.answer # "tooLow"
    <3>1. dbErrors <= dbErrors'
      BY <1>0, <1>2, <2>4 DEF ReplWrite, DbFails, db
    <3>2. PICK tx \in Tx :
            /\ tx.nonce = m
            /\ \/ rows' = [rows EXCEPT ![m] = [@ EXCEPT !.fee = tx.fee, !.hash = tx.fee]]
               \/ rows' = [rows EXCEPT ![m] = [@ EXCEPT !.fee = tx.fee]]
               \/ rows' = [rows EXCEPT ![m] = [@ EXCEPT !.hash = tx.fee]]
               \/ UNCHANGED rows
      BY <1>2, <2>4 DEF ReplWrite, IInv, TypeOK, db
    <3>3. rows[m] \in Row
      BY <1>0, <2>1 DEF HasRow
    <3>4. /\ \A n \in Nonces : n # m => rows'[n] = rows[n]
          /\ rows'[m].status = rows[m].status
      <4>1. rows[m].status = [rows[m] EXCEPT !.fee = tx.fee, !.hash = tx.fee].status
        BY <3>3 DEF Row
      <4>2. rows[m].status = [rows[m] EXCEPT !.fee = tx.fee].status
        BY <3>3 DEF Row
      <4>3. rows[m].status = [rows[m] EXCEPT !.hash = tx.fee].status
        BY <3>3 DEF Row
      <4> HIDE DEF m
      <4> QED BY <1>0, <2>1, <3>2, <4>1, <4>2, <4>3
    <3>5. \A n \in Nonces : IsPending(n)' => IsPending(n)
      BY <2>1, <3>4 DEF IsPending, HasRow
    <3> QED BY <2>2, <3>1, <3>5, StatusMoves
  <2> QED BY <2>3, <2>4
<1> QED BY <1>1, <1>2 DEF Replacer

\* The chain settles what was open; it does not take back what it settled.
LEMMA ChainCounts ==
  ASSUME IInv, CountedInv, IInv', ChainStep \/ Age
  PROVE  CountedInv'
<1>1. UNCHANGED <<watchTodo, watchHit, confirmations, dbErrors, rows>>
  BY DEF ChainStep, Age, watcher, db
<1>2. ledger \in [Nonces -> Mined \cup {None, Foreign}] /\ count \in 0..MaxNonce
  BY DEF IInv, TypeOK, ChainTypeOK
<1>3. count \in Nonces => ~Own(count)
  BY <1>2 DEF IInv, LedgerInv, Own
<1>4. \A n \in Nonces : n # count => ledger'[n] = ledger[n]
  BY <1>2 DEF ChainStep, Age, Mine, MineForeign, Evict, NextEpoch, chain
<1>5. \A n \in Nonces : Own(n) => ledger'[n] = ledger[n]
  BY <1>3, <1>4
<1>6. \A n \in Nonces : Own(n) /\ ledger[n].ok /\ ~Countable(n)
                          => (Own(n) /\ ledger[n].ok /\ ~Countable(n))'
  BY <1>1, <1>5 DEF Own, Countable, IsPending, HasRow
<1>7. VisitsOnce' /\ confirmations' <= confirmations /\ dbErrors <= dbErrors'
  BY <1>1 DEF CountedInv, VisitsOnce, IInv, TypeOK
<1> QED BY <1>6, <1>7, CountedGrows

\* A receipt that is recorded is counted once and for all.
LEMMA WatchWriteCounts ==
  ASSUME IInv, CountedInv, IInv', WatchWrite
  PROVE  CountedInv'
<1>0. watchHit # None /\ watchHit \in [nonce : Nonces, ok : BOOLEAN]
  BY DEF WatchWrite, IInv, TypeOK
<1> PICK n \in Nonces, status \in Status :
      n = watchHit.nonce /\ status = IF watchHit.ok THEN "success" ELSE "failed"
  BY <1>0 DEF Status
<1> DEFINE S == {m \in Nonces : Own(m) /\ ledger[m].ok /\ ~Countable(m)}
<1>1. HasRow(n) /\ (watchHit.ok => Own(n) /\ ledger[n].ok)
  BY <1>0 DEF IInv, WatcherInv
<1>2. /\ UNCHANGED <<ledger, watchTodo>> /\ watchHit' = None
      /\ confirmations' = confirmations + (IF watchHit.ok THEN 1 ELSE 0)
      /\ TryUpdateStatus(n, status) /\ status # "pending"
  BY DEF WatchWrite, chain
<1>3. /\ dbErrors <= dbErrors'
      /\ \A m \in Nonces : IsPending(m)' => IsPending(m)
      /\ dbErrors' = dbErrors => ~IsPending(n)'
      /\ dbErrors' = dbErrors \/ dbErrors' = dbErrors + 1
  BY <1>1, <1>2, TriedStatus
<1>4. VisitsOnce'
  BY <1>2 DEF CountedInv, VisitsOnce
<1>5. \A m \in Nonces : Countable(m)' => Countable(m)
  BY <1>2, <1>3 DEF Countable
<1>6. \A m \in Nonces : Own(m) /\ ledger[m].ok /\ ~Countable(m)
                          => (Own(m) /\ ledger[m].ok /\ ~Countable(m))'
  BY <1>2, <1>5 DEF Own
<1>7. CASE ~watchHit.ok
  <2>1. confirmations' <= confirmations
    BY <1>2, <1>7 DEF IInv, TypeOK
  <2> QED BY <1>3, <1>4, <1>6, <2>1, CountedGrows
<1>8. CASE watchHit.ok
  <2>1. S \subseteq S' /\ S \subseteq Nonces /\ S' \subseteq Nonces
    BY <1>6
  <2>2. /\ IsFiniteSet(S) /\ IsFiniteSet(S')
        /\ Cardinality(S) \in Nat /\ Cardinality(S') \in Nat
        /\ Cardinality(S) <= Cardinality(S')
    BY <2>1, NoncesFinite, FS_Subset
  <2>3. dbErrors' = dbErrors => Cardinality(S) + 1 <= Cardinality(S')
    <3> SUFFICES ASSUME dbErrors' = dbErrors PROVE Cardinality(S) + 1 <= Cardinality(S')
      OBVIOUS
    <3>1. n \notin S
      BY <1>0 DEF Countable
    <3>2. ~Countable(n)'
      BY <1>0, <1>2, <1>3 DEF Countable, CountedInv, VisitsOnce
    <3> HIDE DEF S
    <3>3. n \in S'
      BY <1>1, <1>2, <1>8, <3>2 DEF Own, S
    <3>4. S \cup {n} \in SUBSET S'
      BY <2>1, <3>3
    <3>5. Cardinality(S \cup {n}) = Cardinality(S) + 1
      BY <2>2, <3>1, FS_AddElement
    <3>6. Cardinality(S \cup {n}) <= Cardinality(S')
      BY <2>2, <3>4, FS_Subset
    <3> QED BY <3>5, <3>6
  <2>4. /\ confirmations \in Nat /\ dbErrors \in Nat /\ confirmations' = confirmations + 1
        /\ confirmations <= Cardinality(S) + dbErrors
    BY <1>2, <1>8 DEF IInv, TypeOK, CountedInv
  <2> HIDE DEF S
  <2>5. confirmations' <= Cardinality(S') + dbErrors'
    BY <1>3, <2>2, <2>3, <2>4
  <2> QED BY <1>4, <2>5 DEF CountedInv, S
<1> QED BY <1>0, <1>7, <1>8

LEMMA WatcherCounts ==
  ASSUME IInv, CountedInv, IInv', Watcher
  PROVE  CountedInv'
<1>1. CASE WatchList \/ WatchQuery
  <2>1. UNCHANGED <<ledger, rows, confirmations, dbErrors>>
    BY <1>1 DEF WatchList, WatchQuery, chain, db
  <2>2. VisitsOnce'
    <3>1. CASE WatchList
      BY <3>1 DEF WatchList, VisitsOnce
    <3>2. CASE WatchQuery
      BY <3>2 DEF WatchQuery, VisitsOnce, CountedInv
    <3> QED BY <1>1, <3>1, <3>2
  <2>3. \A n \in Nonces : Countable(n)' => Countable(n)
    <3>1. CASE WatchList
      BY <2>1, <3>1, ListedArePending DEF WatchList, Countable, IsPending, HasRow
    <3>2. CASE WatchQuery
      BY <2>1, <3>2 DEF WatchQuery, Countable, IsPending, HasRow
    <3> QED BY <1>1, <3>1, <3>2
  <2>4. \A n \in Nonces : Own(n) /\ ledger[n].ok /\ ~Countable(n)
                            => (Own(n) /\ ledger[n].ok /\ ~Countable(n))'
    BY <2>1, <2>3 DEF Own
  <2>5. confirmations' <= confirmations /\ dbErrors <= dbErrors'
    BY <2>1 DEF IInv, TypeOK
  <2> QED BY <2>2, <2>4, <2>5, CountedGrows
<1>2. CASE WatchWrite
  BY <1>2, WatchWriteCounts
<1> QED BY <1>1, <1>2 DEF Watcher

\* At a start the metric is zero again.
LEMMA ZeroCounts ==
  ASSUME TypeOK, confirmations = 0, watchTodo = {}, watchHit = None
  PROVE  CountedInv
<1> DEFINE S == {n \in Nonces : Own(n) /\ ledger[n].ok /\ ~Countable(n)}
<1>1. S \subseteq Nonces
  OBVIOUS
<1>2. Cardinality(S) \in Nat
  BY <1>1, NoncesFinite
<1> HIDE DEF S
<1>3. confirmations <= Cardinality(S) + dbErrors
  BY <1>2 DEF TypeOK
<1> QED BY <1>3 DEF CountedInv, VisitsOnce, S

LEMMA RestartCounts ==
  ASSUME IInv', Restart
  PROVE  CountedInv'
<1> DEFINE S == {n \in Nonces : Own(n) /\ ledger[n].ok /\ ~Countable(n)}
<1>1. confirmations' = 0 /\ watchTodo' = {} /\ watchHit' = None
  BY DEF Restart
<1>2. S' \subseteq Nonces
  OBVIOUS
<1>3. Cardinality(S') \in Nat
  BY <1>2, NoncesFinite
<1>4. dbErrors' \in Nat
  BY DEF IInv, TypeOK
<1> HIDE DEF S
<1>5. confirmations' <= Cardinality(S') + dbErrors'
  BY <1>1, <1>3, <1>4
<1> QED BY <1>1, <1>5 DEF CountedInv, VisitsOnce, S

\* However often the watcher lists, asks and fails to write, the metric counts a mined
\* transaction once, and once more for every failed write.
THEOREM ConfirmationsCounted == Spec => []ConfirmationsBounded
<1>1. Init => CountedInv
  <2>1. Init => TypeOK
    BY InitEstablishes DEF IInv
  <2> QED BY <2>1, ZeroCounts DEF Init
<1>2. IInv /\ IInv' /\ CountedInv /\ [Next]_vars => CountedInv'
  <2> SUFFICES ASSUME IInv, IInv', CountedInv, [Next]_vars PROVE CountedInv'
    OBVIOUS
  <2>1. ASSUME NEW s \in Sols, HandlerStep(s) \/ Enter(s) \/ Cancel(s)
        PROVE  CountedInv'
    BY <2>1, HandlerCounts
  <2>2. CASE Watcher
    BY <2>2, WatcherCounts
  <2>3. CASE Replacer
    BY <2>3, ReplacerCounts
  <2>4. CASE Age \/ ChainStep
    BY <2>4, ChainCounts
  <2>5. CASE Restart
    BY <2>5, RestartCounts
  <2>6. CASE UNCHANGED vars
    BY <2>6 DEF vars, chain, db, watcher, CountedInv, VisitsOnce, Countable, Own,
                IsPending, HasRow
  <2> QED BY <2>1, <2>2, <2>3, <2>4, <2>5, <2>6 DEF Next
<1>3. IInv /\ CountedInv => ConfirmationsBounded
  <2> SUFFICES ASSUME IInv, CountedInv PROVE ConfirmationsBounded
    OBVIOUS
  <2> DEFINE S == {n \in Nonces : Own(n) /\ ledger[n].ok /\ ~Countable(n)}
             M == {n \in Nonces : Own(n) /\ ledger[n].ok}
  <2>1. S \in SUBSET M /\ S \subseteq Nonces /\ M \subseteq Nonces
    OBVIOUS
  <2>2. /\ Cardinality(S) <= Cardinality(M)
        /\ Cardinality(S) \in Nat /\ Cardinality(M) \in Nat
    BY <2>1, NoncesFinite, FS_Subset
  <2>3. confirmations \in Nat /\ dbErrors \in Nat /\ confirmations <= Cardinality(S) + dbErrors
    BY DEF IInv, TypeOK, CountedInv
  <2> HIDE DEF S, M
  <2>4. confirmations <= Cardinality(M) + dbErrors
    BY <2>2, <2>3
  <2> QED BY <2>4 DEF ConfirmationsBounded, M
<1> QED BY <1>1, <1>2, <1>3, Invariance, PTL DEF Spec

-----------------------------------------------------------------------------
(* Refinement of WalletLog.                                                 *)

\* A step that keeps the network and every row's solution is invisible.
LEMMA Invisible ==
  ASSUME UNCHANGED <<pool, ledger>>,
         \A m \in Nonces : HasRow(m)' <=> HasRow(m),
         \A m \in Nonces : HasRow(m) => rows'[m].sol = rows[m].sol
  PROVE  UNCHANGED Wallet!walletVars
<1>1. Bound' = Bound
  BY DEF Bound
<1>2. Live' = Live /\ Settled' = Settled
  BY DEF Live, Settled, Own
<1> QED BY <1>1, <1>2 DEF Wallet!walletVars

\* Handing a transaction that agrees with its row to the network.
LEMMA BroadcastIsSend ==
  ASSUME IInv, NEW tx \in Tx, NEW a \in Answers, Broadcast(tx, a),
         HasRow(tx.nonce), rows[tx.nonce].sol = tx.sol, tx.fee <= rows[tx.nonce].fee + 1,
         UNCHANGED rows
  PROVE  Wallet!Next \/ UNCHANGED Wallet!walletVars
<1>1. /\ UNCHANGED <<epoch, count, ledger>>
      /\ pool' = pool \/ (pool' = pool \cup {tx} /\ count <= tx.nonce)
  BY BroadcastKeeps
<1>2. tx.nonce \in Nonces /\ tx.sol \in Sols
  BY DEF Tx
<1>3. CASE pool' = pool
  BY <1>1, <1>3, Invisible DEF HasRow
<1>4. CASE pool' = pool \cup {tx} /\ count <= tx.nonce
  <2>1. Bound' = Bound /\ Settled' = Settled
    BY <1>1 DEF Bound, Settled, HasRow, Own
  <2>2. Bound[tx.nonce] = tx.sol /\ Bound[tx.nonce] # None
    BY <1>2 DEF Bound
  <2>3. Settled[tx.nonce] = None
    <3>1. ledger[tx.nonce] = None
      BY <1>2, <1>4 DEF IInv, TypeOK, ChainTypeOK, LedgerInv, Nonces
    <3> QED BY <1>2, <3>1 DEF Settled, Own
  <2>4. Live' = Live \cup {[nonce |-> tx.nonce, sol |-> tx.sol]}
    BY <1>4 DEF Live
  <2>5. Wallet!Send(tx.nonce)
    BY <2>1, <2>2, <2>3, <2>4 DEF Wallet!Send
  <2> QED BY <1>2, <2>5 DEF Wallet!Next
<1> QED BY <1>1, <1>3, <1>4

LEMMA AllocateIsBind ==
  ASSUME IInv, NEW s \in Sols, Allocate(s)
  PROVE  Wallet!Next \/ UNCHANGED Wallet!walletVars
<1> DEFINE new == [status |-> "pending", hash |-> NoHash, fee |-> 0, sol |-> s]
<1>1. /\ nextNonce \in Nonces /\ ~HasRow(nextNonce) /\ TypeOK
      /\ UNCHANGED chain
  BY DEF Allocate, IInv, RowsBelowCounter, TypeOK, Nonces
<1>2. CASE UNCHANGED rows
  BY <1>1, <1>2, Invisible DEF HasRow, chain
<1>3. CASE rows' = [rows EXCEPT ![nextNonce] = new]
  <2>1. /\ rows'[nextNonce] = new /\ new \in Row
        /\ \A m \in Nonces : m # nextNonce => rows'[m] = rows[m]
    BY <1>1, <1>3 DEF TypeOK, Row, Status, Fees
  <2>2. new # None
    BY <2>1, NoneIsNoRow
  <2>3. Bound' = [Bound EXCEPT ![nextNonce] = s] /\ Bound[nextNonce] = None
    <3>1. new.sol = s
      OBVIOUS
    <3> HIDE DEF new
    <3>2. Bound'[nextNonce] = s
      BY <1>1, <2>1, <2>2, <3>1 DEF Bound, HasRow
    <3>3. \A m \in Nonces : m # nextNonce => Bound'[m] = Bound[m]
      BY <2>1 DEF Bound, HasRow
    <3>4. Bound[nextNonce] = None
      BY <1>1 DEF Bound
    <3>5. Bound = [m \in Nonces |-> Bound[m]] /\ Bound' = [m \in Nonces |-> Bound'[m]]
      BY DEF Bound
    <3> QED BY <1>1, <3>2, <3>3, <3>4, <3>5
  <2>4. Live' = Live /\ Settled' = Settled
    BY <1>1 DEF Live, Settled, Own, chain
  <2> QED BY <1>1, <2>3, <2>4 DEF Wallet!Next, Wallet!Bind
<1> QED BY <1>2, <1>3 DEF Allocate

LEMMA ChainIsSettle ==
  ASSUME IInv, ChainStep
  PROVE  Wallet!Next \/ UNCHANGED Wallet!walletVars
<1>1. /\ UNCHANGED rows /\ TypeOK /\ ChainTypeOK /\ LedgerInv
      /\ \A m \in Nonces : Settled[m] = None => count <= m
      /\ \A m \in Nonces : m < count => Settled[m] # None
  <2>1. UNCHANGED rows /\ TypeOK /\ ChainTypeOK /\ LedgerInv
    BY DEF ChainStep, db, IInv, TypeOK
  <2>2. \A m \in Nonces : Settled[m] = None <=> ledger[m] = None
    <3>1. \A m \in Nonces : Own(m) => ledger[m] \in Mined /\ ledger[m].sol \in Sols
      BY <2>1 DEF Own, ChainTypeOK, Mined
    <3> QED BY <3>1 DEF Settled, Own
  <2> QED BY <2>1, <2>2 DEF LedgerInv, ChainTypeOK, Nonces
<1>2. Bound' = Bound
  BY <1>1 DEF Bound, HasRow
<1>3. CASE Mine
  <2>1. PICK tx \in pool :
          /\ tx.nonce = count
          /\ ledger' = [ledger EXCEPT ![count] =
                          [fee |-> tx.fee, sol |-> tx.sol, ok |-> Valid(tx.sol)]]
          /\ pool' = {t \in pool : t.nonce # count}
    BY <1>3 DEF Mine
  <2> DEFINE m == [fee |-> tx.fee, sol |-> tx.sol, ok |-> Valid(tx.sol)]
  <2>2. tx \in Tx /\ count \in Nonces /\ tx.sol \in Sols
    BY <1>1, <2>1 DEF ChainTypeOK, Tx
  <2>3. m \in Mined /\ m \notin {None, Foreign} /\ m.sol = tx.sol
    <3>1. Valid(tx.sol) \in BOOLEAN
      BY DEF Valid
    <3>2. m \in Mined
      BY <2>2, <3>1 DEF Mined, Tx
    <3> QED BY <3>2
  <2>4. Settled[count] = None
    <3>1. ledger[count] = None
      BY <1>1, <2>2 DEF LedgerInv, ChainTypeOK
    <3> QED BY <2>2, <3>1 DEF Settled, Own
  <2>5. Settled' = [Settled EXCEPT ![count] = tx.sol]
    <3>1. /\ ledger'[count] = m
          /\ \A n \in Nonces : n # count => ledger'[n] = ledger[n]
      BY <1>1, <2>1, <2>2 DEF ChainTypeOK
    <3> HIDE DEF m
    <3> QED BY <2>2, <2>3, <3>1 DEF Settled, Own
  <2>6. Live' = {t \in Live : t.nonce # count} /\ [nonce |-> count, sol |-> tx.sol] \in Live
    BY <2>1 DEF Live
  <2>7. Wallet!Settle(count, tx.sol)
    BY <1>1, <1>2, <2>2, <2>4, <2>5, <2>6 DEF Wallet!Settle
  <2> QED BY <2>2, <2>7 DEF Wallet!Next
<1>4. CASE MineForeign
  <2>1. /\ count \in Nonces
        /\ ledger' = [ledger EXCEPT ![count] = Foreign]
        /\ pool' = {t \in pool : t.nonce # count}
    BY <1>1, <1>4 DEF MineForeign, ChainTypeOK, Nonces
  <2>2. Settled[count] = None
    <3>1. ledger[count] = None
      BY <1>1, <2>1 DEF LedgerInv, ChainTypeOK
    <3> QED BY <2>1, <3>1 DEF Settled, Own
  <2>3. Settled' = [Settled EXCEPT ![count] = Foreign]
    <3>1. /\ ledger'[count] = Foreign
          /\ \A n \in Nonces : n # count => ledger'[n] = ledger[n]
      BY <1>1, <2>1 DEF ChainTypeOK
    <3>2. Settled'[count] = Foreign
      BY <2>1, <3>1 DEF Settled, Own
    <3>3. \A n \in Nonces : n # count => Settled'[n] = Settled[n]
      BY <3>1 DEF Settled, Own
    <3>4. Settled = [n \in Nonces |-> Settled[n]] /\ Settled' = [n \in Nonces |-> Settled'[n]]
      BY DEF Settled
    <3> QED BY <2>1, <3>2, <3>3, <3>4
  <2>4. Live' = {t \in Live : t.nonce # count}
    BY <2>1 DEF Live
  <2>5. Wallet!Settle(count, Foreign)
    BY <1>1, <1>2, <2>1, <2>2, <2>3, <2>4 DEF Wallet!Settle
  <2> QED BY <2>1, <2>5 DEF Wallet!Next
<1>5. CASE Evict
  <2>1. PICK tx \in pool : pool' = pool \ {tx} /\ UNCHANGED ledger
    BY <1>5 DEF Evict
  <2> DEFINE t == [nonce |-> tx.nonce, sol |-> tx.sol]
  <2>2. Settled' = Settled
    BY <2>1 DEF Settled, Own
  <2>3. t \in Live
    BY DEF Live
  <2>4. CASE \E u \in pool' : u.nonce = tx.nonce /\ u.sol = tx.sol
    <3>1. Live' = Live
      BY <2>1, <2>4 DEF Live
    <3> QED BY <1>2, <2>2, <3>1 DEF Wallet!walletVars
  <2>5. CASE ~\E u \in pool' : u.nonce = tx.nonce /\ u.sol = tx.sol
    <3>1. Live' = Live \ {t}
      BY <2>1, <2>5 DEF Live
    <3>2. Wallet!Drop(t)
      BY <1>2, <2>2, <3>1 DEF Wallet!Drop
    <3> QED BY <2>3, <3>2 DEF Wallet!Next
  <2> QED BY <2>4, <2>5
<1>6. CASE NextEpoch
  BY <1>1, <1>6, Invisible DEF NextEpoch, HasRow
<1> QED BY <1>3, <1>4, <1>5, <1>6 DEF ChainStep


\* Recording an outcome keeps every row's solution.
LEMMA RecordInvisible ==
  ASSUME IInv, (\E s \in Sols : RecordHash(s) \/ RecordFailure(s)) \/ WatchWrite \/ ReplWrite
  PROVE  UNCHANGED Wallet!walletVars
<1>1. UNCHANGED <<pool, ledger>> /\ rows \in [Nonces -> Row \cup {None}]
  BY DEF RecordHash, RecordFailure, WatchWrite, ReplWrite, chain, IInv, TypeOK
<1>2. \/ UNCHANGED rows
      \/ \E n \in Nonces, r \in Row :
            HasRow(n) /\ rows' = [rows EXCEPT ![n] = r] /\ r.sol = rows[n].sol
  <2>1. ASSUME NEW s \in Sols, RecordHash(s) \/ RecordFailure(s)
        PROVE  <1>2!1 \/ <1>2!2
    <3>1. ticket[s] \in Nonces /\ HasRow(ticket[s]) /\ rows[ticket[s]] \in Row
      <4>1. ticket[s] \in Nonces /\ HasRow(ticket[s])
        BY <2>1 DEF RecordHash, RecordFailure, IInv, TicketsHaveRows
      <4> QED BY <1>1, <4>1 DEF HasRow
    <3>2. /\ [rows[ticket[s]] EXCEPT !.hash = 0] \in Row
          /\ [rows[ticket[s]] EXCEPT !.status = "failed"] \in Row
      BY <3>1 DEF Row, Status, Fees
    <3> QED BY <2>1, <3>1, <3>2 DEF RecordHash, RecordFailure, TryUpdateStatus, UpdateStatus, Row
  <2>2. CASE WatchWrite
    <3>1. watchHit.nonce \in Nonces /\ HasRow(watchHit.nonce) /\ rows[watchHit.nonce] \in Row
      <4>1. watchHit.nonce \in Nonces /\ HasRow(watchHit.nonce)
        BY <2>2 DEF WatchWrite, IInv, WatcherInv, TypeOK
      <4> QED BY <1>1, <4>1 DEF HasRow
    <3>2. \A st \in {"success", "failed"} : [rows[watchHit.nonce] EXCEPT !.status = st] \in Row
      BY <3>1 DEF Row, Status
    <3> QED BY <2>2, <3>1, <3>2 DEF WatchWrite, TryUpdateStatus, UpdateStatus, Row
  <2>3. CASE ReplWrite
    <3> DEFINE tx == replSent.tx
               n == tx.nonce
    <3>1. n \in Nonces /\ HasRow(n) /\ rows[n] \in Row /\ tx.fee \in Fees
      <4>1. n \in Nonces /\ HasRow(n) /\ tx.fee \in Fees
        BY <2>3 DEF ReplWrite, IInv, ReplacerInv, TypeOK, Tx
      <4> QED BY <1>1, <4>1 DEF HasRow
    <3>2. /\ [rows[n] EXCEPT !.fee = tx.fee, !.hash = tx.fee] \in Row
          /\ [rows[n] EXCEPT !.fee = tx.fee] \in Row
          /\ [rows[n] EXCEPT !.hash = tx.fee] \in Row
          /\ [rows[n] EXCEPT !.status = "replaced"] \in Row
      BY <3>1 DEF Row, Status
    <3>3. \/ UNCHANGED rows
          \/ rows' = [rows EXCEPT ![n] = [rows[n] EXCEPT !.fee = tx.fee, !.hash = tx.fee]]
          \/ rows' = [rows EXCEPT ![n] = [rows[n] EXCEPT !.fee = tx.fee]]
          \/ rows' = [rows EXCEPT ![n] = [rows[n] EXCEPT !.hash = tx.fee]]
          \/ rows' = [rows EXCEPT ![n] = [rows[n] EXCEPT !.status = "replaced"]]
      BY <2>3 DEF ReplWrite, TryUpdateStatus, UpdateStatus, db
    <3> QED BY <3>1, <3>2, <3>3 DEF Row
  <2> QED BY <2>1, <2>2, <2>3
<1>3. CASE UNCHANGED rows
  BY <1>1, <1>3, Invisible DEF HasRow
<1>4. CASE \E n \in Nonces, r \in Row :
             HasRow(n) /\ rows' = [rows EXCEPT ![n] = r] /\ r.sol = rows[n].sol
  <2>1. PICK n \in Nonces, r \in Row :
          HasRow(n) /\ rows' = [rows EXCEPT ![n] = r] /\ r.sol = rows[n].sol
    BY <1>4
  <2>2. /\ \A m \in Nonces : HasRow(m)' <=> HasRow(m)
        /\ \A m \in Nonces : HasRow(m) => rows'[m].sol = rows[m].sol
    BY <1>1, <2>1, NoneIsNoRow DEF HasRow
  <2> QED BY <1>1, <2>2, Invisible
<1> QED BY <1>2, <1>3, <1>4

\* Handlers, loops, restarts and faults together implement the wallet log: a nonce
\* is bound to one solution before anything signed with it can be out.
THEOREM Refinement == Spec => ImplementsWalletLog
<1>1. Init => Wallet!Init
  BY DEF Init, ChainInit, Wallet!Init, Bound, Live, Settled, HasRow, Own
<1>2. IInv /\ [Next]_vars => [Wallet!Next]_(Wallet!walletVars)
  <2> SUFFICES ASSUME IInv, [Next]_vars
               PROVE  Wallet!Next \/ UNCHANGED Wallet!walletVars
    OBVIOUS
  <2>1. CASE \E s \in Sols : Allocate(s)
    BY <2>1, AllocateIsBind
  <2>2. ASSUME NEW s \in Sols, Send(s)
        PROVE  Wallet!Next \/ UNCHANGED Wallet!walletVars
    <3>1. /\ ticket[s] \in Nonces /\ HasRow(ticket[s]) /\ rows[ticket[s]].sol = s
          /\ rows[ticket[s]] \in Row /\ UNCHANGED rows
      <4>1. ticket[s] \in Nonces /\ HasRow(ticket[s]) /\ rows[ticket[s]].sol = s
        BY <2>2 DEF Send, IInv, TicketsHaveRows
      <4> QED BY <2>2, <4>1 DEF Send, IInv, TypeOK, HasRow, db
    <3> DEFINE tx == [nonce |-> ticket[s], fee |-> 0, sol |-> s]
    <3>2. /\ tx \in Tx /\ tx.nonce = ticket[s] /\ tx.sol = s
          /\ tx.fee <= rows[tx.nonce].fee + 1
      BY <3>1 DEF Tx, Fees, Row
    <3>3. PICK a \in Answers : Broadcast(tx, a)
      BY <2>2 DEF Send
    <3> QED BY <3>1, <3>2, <3>3, BroadcastIsSend
  <2>3. CASE ReplSend
    <3>1. PICK i \in replTodo :
            \/ UNCHANGED chain
            \/ i.fee < MaxFee /\ \E a \in Answers : Broadcast(Bumped(i), a)
      BY <2>3 DEF ReplSend
    <3>2. UNCHANGED rows
      BY <2>3 DEF ReplSend, db
    <3>3. CASE UNCHANGED chain
      BY <3>2, <3>3, Invisible DEF chain, HasRow
    <3>4. CASE i.fee < MaxFee /\ \E a \in Answers : Broadcast(Bumped(i), a)
      <4>1. /\ i \in Tx /\ HasRow(i.nonce) /\ rows[i.nonce].fee = i.fee
            /\ rows[i.nonce].sol = i.sol
        BY DEF IInv, ReplacerInv, TypeOK
      <4>2. /\ Bumped(i) \in Tx /\ Bumped(i).nonce = i.nonce /\ Bumped(i).sol = i.sol
            /\ Bumped(i).fee = i.fee + 1 /\ i.fee \in Int
        BY <3>4, <4>1 DEF Bumped, Tx, Fees
      <4>3. Bumped(i).fee <= rows[Bumped(i).nonce].fee + 1
        BY <4>1, <4>2
      <4> QED BY <3>2, <3>4, <4>1, <4>2, <4>3, BroadcastIsSend
    <3> QED BY <3>1, <3>3, <3>4
  <2>4. CASE ChainStep
    BY <2>4, ChainIsSettle
  <2>5. CASE (\E s \in Sols : RecordHash(s) \/ RecordFailure(s)) \/ WatchWrite \/ ReplWrite
    BY <2>5, RecordInvisible
  <2>6. CASE \/ \E s \in Sols : Recheck(s) \/ Enter(s) \/ Simulate(s) \/ Cancel(s)
             \/ WatchList \/ WatchQuery \/ ReplList \/ Age \/ Restart
             \/ UNCHANGED vars
    <3>1. UNCHANGED <<rows, pool, ledger>>
      BY <2>6 DEF Recheck, Enter, Simulate, Cancel, WatchList, WatchQuery, ReplList, Age,
                  Restart, vars, chain, db
    <3> QED BY <3>1, Invisible DEF HasRow
  <2> QED BY <2>1, <2>2, <2>3, <2>4, <2>5, <2>6 DEF Next, HandlerStep, Watcher, Replacer
<1> QED BY <1>1, <1>2, Invariance, PTL DEF Spec, ImplementsWalletLog, Wallet!Spec

-----------------------------------------------------------------------------
\* The list that watcher and replacement loop read cuts pending rows off from below only,
\* and cuts nothing off while no more rows are pending than the LIMIT of the query.
THEOREM ListIsComplete ==
  /\ \A m, n \in Nonces : Listed(n) /\ IsPending(m) /\ m > n => Listed(m)
  /\ Cardinality({m \in Nonces : IsPending(m)}) <= ListLimit =>
       \A n \in Nonces : IsPending(n) => Listed(n)
<1> DEFINE P == {m \in Nonces : IsPending(m)}
           Above(n) == {m \in Nonces : m > n /\ IsPending(m)}
<1>1. ASSUME NEW S, S \subseteq Nonces PROVE IsFiniteSet(S) /\ Cardinality(S) \in Nat
  BY <1>1, NoncesFinite
<1>2. ASSUME NEW m \in Nonces, NEW n \in Nonces, Listed(n), IsPending(m), m > n
      PROVE  Listed(m)
  <2>1. Above(m) \subseteq Above(n)
    BY <1>2 DEF Nonces
  <2>2. Cardinality(Above(m)) <= Cardinality(Above(n))
    BY <1>1, <2>1, FS_Subset
  <2>3. Cardinality(Above(n)) < ListLimit
    BY <1>2 DEF Listed
  <2>4. Cardinality(Above(m)) \in Nat /\ Cardinality(Above(n)) \in Nat /\ ListLimit \in Nat
    BY <1>1
  <2>5. Cardinality(Above(m)) < ListLimit
    <3> HIDE DEF Above
    <3> QED BY <2>2, <2>3, <2>4
  <2> QED BY <1>2, <2>5 DEF Listed
<1>3. ASSUME Cardinality(P) <= ListLimit, NEW n \in Nonces, IsPending(n) PROVE Listed(n)
  <2>1. Above(n) \subseteq P \ {n}
    BY DEF Nonces
  <2>2. Cardinality(P \ {n}) = Cardinality(P) - 1
    BY <1>1, <1>3, FS_RemoveElement
  <2>3. Cardinality(Above(n)) <= Cardinality(P \ {n})
    BY <1>1, <2>1, FS_Subset
  <2>4. Cardinality(Above(n)) \in Nat /\ Cardinality(P) \in Nat /\ ListLimit \in Nat
    BY <1>1
  <2>5. Cardinality(Above(n)) < ListLimit
    <3> HIDE DEF Above, P
    <3> QED BY <1>3, <2>2, <2>3, <2>4
  <2> QED BY <1>3, <2>5 DEF Listed
<1> QED BY <1>2, <1>3
=============================================================================

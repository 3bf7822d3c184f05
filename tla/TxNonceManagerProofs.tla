------------------------- MODULE TxNonceManagerProofs -------------------------
(***************************************************************************)
(* For every set of callers and solutions and every bound: the allocator   *)
(* never hands a nonce out twice, never loses the record of one it handed  *)
(* out, never overwrites a row, and implements the abstract NonceLedger.   *)
(* The argument: inside the mutex the counter in memory is exactly one     *)
(* ahead of the holder's nonce n, so storing it makes the database skip    *)
(* past n before n can reach anybody; a restart begins at or above the     *)
(* stored counter; hence everything ever issued lies below dbNext, and     *)
(* every row does too.                                                     *)
(***************************************************************************)
EXTENDS TxNonceManager, TLAPS

USE BoundsAssumption, NoneAssumption

LEMMA InitEstablishes == Init => IInv
BY DEF Init, IInv, TypeOK, HolderInv, RowsInv, CounterInv, NoncesIncrease,
       IssuedIsDurable, IssuedBelowTicket, Counts, Nonces, Booking

\* What was issued is a list of bookings of nonces.
LEMMA IssuedTyped ==
  ASSUME IInv
  PROVE  /\ Len(issued) \in Nat
         /\ \A i \in 1..Len(issued) : issued[i].nonce \in Nonces
<1>1. issued \in Seq(Booking)
  BY DEF IInv, TypeOK
<1>2. \A b \in Booking : b.nonce \in Nonces
  BY DEF Booking
<1>3. Len(issued) \in Nat /\ \A i \in 1..Len(issued) : issued[i] \in Booking
  BY ONLY <1>1
<1> QED BY <1>2, <1>3

\* A larger stored counter never loses what lies below it.
LEMMA DurableUnderGrowth ==
  ASSUME IInv, UNCHANGED <<issued, rows>>, dbNext' \in Counts, dbNext <= dbNext'
  PROVE  IssuedIsDurable' /\ RowsInv'
<1>1. dbNext \in Int /\ dbNext' \in Int
  BY DEF IInv, TypeOK, Counts
<1>2. \A i \in 1..Len(issued) : issued[i].nonce \in Int
  BY IssuedTyped DEF Nonces
<1> QED BY <1>1, <1>2 DEF IInv, IssuedIsDurable, RowsInv, Nonces

\* Steps of the start-up, the crash and the chain leave what was issued alone.
LEMMA BootPreserves ==
  IInv /\ (Start \/ ReadLatest \/ LoadAndStore \/ Crash \/ ChainMoves) => IInv'
<1> SUFFICES ASSUME IInv,
                    Start \/ ReadLatest \/ LoadAndStore \/ Crash \/ ChainMoves
             PROVE  IInv'
  OBVIOUS
<1> USE DEF IInv, TypeOK, HolderInv, RowsInv, CounterInv, NoncesIncrease,
            IssuedIsDurable, IssuedBelowTicket, Counts, Nonces, Larger,
            bootVars, memVars, dbVars, chainVars
<1>1. CASE Start        BY <1>1 DEF Start
<1>2. CASE ReadLatest   BY <1>2 DEF ReadLatest
<1>3. CASE LoadAndStore
  <2>1. /\ UNCHANGED <<issued, rows>> /\ dbNext' \in Counts /\ dbNext <= dbNext'
        /\ TypeOK' /\ CounterInv'
    BY <1>3 DEF LoadAndStore
  <2>2. RowsInv' /\ IssuedIsDurable'
    BY ONLY <2>1, IInv, DurableUnderGrowth
  <2>3. HolderInv' /\ NoncesIncrease' /\ IssuedBelowTicket'
    BY <1>3 DEF LoadAndStore
  <2> QED BY <2>1, <2>2, <2>3
<1>4. CASE Crash        BY <1>4 DEF Crash
<1>5. CASE ChainMoves   BY <1>5 DEF ChainMoves
<1> QED BY <1>1, <1>2, <1>3, <1>4, <1>5

\* Steps of allocate that neither commit a row nor issue a nonce.
LEMMA CallerPreserves ==
  ASSUME IInv, NEW h \in Handlers,
         \/ Call(h) \/ GoAway(h) \/ TakeLock(h)
         \/ StoreNext(h) \/ StoreFails(h) \/ InsertFails(h)
  PROVE  IInv'
<1> USE DEF IInv, TypeOK, HolderInv, RowsInv, CounterInv, NoncesIncrease,
            IssuedIsDurable, IssuedBelowTicket, Counts, Nonces,
            bootVars, dbVars, chainVars
<1>1. CASE Call(h)        BY <1>1 DEF Call
<1>2. CASE GoAway(h)      BY <1>2 DEF GoAway
<1>3. CASE TakeLock(h)    BY <1>3 DEF TakeLock
<1>4. CASE StoreNext(h)
  <2>1. /\ UNCHANGED <<issued, rows>> /\ dbNext' = ticket[h] + 1
        /\ dbNext' \in Counts /\ dbNext <= ticket[h] /\ ticket[h] \in Nonces
        /\ TypeOK' /\ CounterInv' /\ NoncesIncrease' /\ rows[ticket[h]] = None
    BY <1>4 DEF StoreNext
  <2>2. RowsInv' /\ IssuedIsDurable'
    <3>1. dbNext \in Int /\ ticket[h] \in Int
      BY <2>1
    <3>2. dbNext <= dbNext'
      BY ONLY <2>1, <3>1
    <3> QED BY ONLY <2>1, <3>2, IInv, DurableUnderGrowth DEF Counts
  <2>3. HolderInv'
    BY <1>4, <2>1 DEF StoreNext
  <2>4. \A i \in 1..Len(issued) : issued[i].nonce < ticket[h]
    <3>1. ticket[h] \in Int /\ dbNext \in Int
      BY <2>1
    <3>2. \A i \in 1..Len(issued) : issued[i].nonce < dbNext /\ issued[i].nonce \in Int
      BY IssuedTyped
    <3> QED BY ONLY <2>1, <3>1, <3>2
  <2>5. IssuedBelowTicket'
    BY <1>4, <2>4 DEF StoreNext
  <2> QED BY <2>1, <2>2, <2>3, <2>5
<1>5. CASE StoreFails(h)  BY <1>5 DEF StoreFails, Return
<1>6. CASE InsertFails(h) BY <1>6 DEF InsertFails, Return
<1> QED BY <1>1, <1>2, <1>3, <1>4, <1>5, <1>6

LEMMA InsertPreserves ==
  ASSUME IInv, NEW h \in Handlers, InsertRow(h)
  PROVE  IInv'
<1> DEFINE b == [nonce |-> ticket[h], sol |-> job[h]]
<1> USE DEF IInv, TypeOK, HolderInv, RowsInv, CounterInv, NoncesIncrease,
            IssuedIsDurable, IssuedBelowTicket, Counts, Nonces, Booking,
            InsertRow, Return, bootVars, chainVars
<1>1. /\ ticket[h] \in Nonces /\ job[h] \in Solutions
      /\ dbNext = ticket[h] + 1 /\ lock = h /\ b \in Booking
  OBVIOUS
<1>2. /\ issued' = Append(issued, b) /\ issued' \in Seq(Booking)
      /\ Len(issued') = Len(issued) + 1 /\ Len(issued) \in Nat
      /\ issued'[Len(issued) + 1] = b
      /\ \A i \in 1..Len(issued) : issued'[i] = issued[i]
  BY <1>1
<1>3. TypeOK'
  BY <1>1, <1>2
<1>4. \A g \in Handlers : g # h => pc[g] \notin {"store", "insert"}
  BY <1>1
<1>5. HolderInv' /\ IssuedBelowTicket' /\ CounterInv'
  BY <1>1, <1>4
<1>6. RowsInv'
  BY <1>1
<1>7. NoncesIncrease'
  <2>1. /\ b.nonce = ticket[h] /\ NoncesIncrease
        /\ \A i \in 1..Len(issued) : issued[i].nonce < ticket[h]
    BY <1>1
  <2>2. ASSUME NEW i \in 1..Len(issued'), NEW j \in 1..Len(issued'), i < j
        PROVE  issued'[i].nonce < issued'[j].nonce
    <3>1. i \in 1..Len(issued) /\ issued'[i] = issued[i]
      BY ONLY <1>2, <2>2
    <3>2. CASE j = Len(issued) + 1
      BY ONLY <1>2, <2>1, <3>1, <3>2
    <3>3. CASE j # Len(issued) + 1
      <4>1. j \in 1..Len(issued) /\ issued'[j] = issued[j]
        BY ONLY <1>2, <2>2, <3>3
      <4> QED BY ONLY <2>1, <2>2, <3>1, <4>1 DEF NoncesIncrease
    <3> QED BY ONLY <3>2, <3>3
  <2> QED BY ONLY <2>2 DEF NoncesIncrease
<1>8. IssuedIsDurable'
  <2>1. /\ rows' = [rows EXCEPT ![ticket[h]] = job[h]] /\ dbNext' = dbNext
        /\ rows \in [Nonces -> Solutions \cup {None}]
    BY <1>1
  <2>2. \A i \in 1..Len(issued) :
           /\ issued[i].nonce \in Nonces /\ issued[i].nonce # ticket[h]
           /\ issued[i].nonce < dbNext /\ rows[issued[i].nonce] = issued[i].sol
    BY <1>1, IssuedTyped
  <2>3. rows'[b.nonce] = b.sol /\ b.nonce < dbNext
    BY <1>1, <2>1
  <2>4. ASSUME NEW i \in 1..Len(issued')
        PROVE  issued'[i].nonce < dbNext' /\ rows'[issued'[i].nonce] = issued'[i].sol
    <3>1. CASE i = Len(issued) + 1
      BY ONLY <1>2, <2>1, <2>3, <3>1
    <3>2. CASE i # Len(issued) + 1
      <4>1. i \in 1..Len(issued) /\ issued'[i] = issued[i]
        BY ONLY <1>2, <2>4, <3>2
      <4>2. rows'[issued[i].nonce] = rows[issued[i].nonce]
        BY ONLY <2>1, <2>2, <4>1
      <4> QED BY ONLY <2>1, <2>2, <4>1, <4>2
    <3> QED BY ONLY <3>1, <3>2
  <2> QED BY ONLY <2>4 DEF IssuedIsDurable
<1> QED BY <1>3, <1>5, <1>6, <1>7, <1>8

LEMMA StepPreserves == IInv /\ [Next]_vars => IInv'
<1> SUFFICES ASSUME IInv, [Next]_vars PROVE IInv'
  OBVIOUS
<1>1. CASE Start \/ ReadLatest \/ LoadAndStore \/ Crash \/ ChainMoves
  BY <1>1, BootPreserves
<1>2. ASSUME NEW h \in Handlers, Call(h) \/ GoAway(h) \/ TakeLock(h) \/ Step(h)
      PROVE  IInv'
  BY <1>2, CallerPreserves, InsertPreserves DEF Step
<1>3. CASE UNCHANGED vars
  BY <1>3 DEF vars, bootVars, memVars, dbVars, chainVars, IInv, TypeOK, HolderInv,
     RowsInv, CounterInv, NoncesIncrease, IssuedIsDurable, IssuedBelowTicket
<1> QED BY <1>1, <1>2, <1>3 DEF Next

\* A step of allocate that leaves rows and issued alone is invisible in the ledger.
LEMMA Invisible ==
  ASSUME UNCHANGED <<rows, issued>>
  PROVE  UNCHANGED Ledger!ledgerVars
BY DEF Ledger!ledgerVars, Bookings

\* Committing the row is one step of the ledger.
LEMMA InsertBooks ==
  ASSUME IInv, NEW h \in Handlers, InsertRow(h)
  PROVE  Ledger!Next
<1> DEFINE b == [nonce |-> ticket[h], sol |-> job[h]]
<1>1. /\ ticket[h] \in Nonces /\ rows[ticket[h]] = None /\ job[h] \in Solutions
      /\ rows \in [Nonces -> Solutions \cup {None}] /\ job[h] # None
      /\ \A i \in 1..Len(issued) : issued[i].nonce < ticket[h]
  BY DEF InsertRow, IInv, HolderInv, TypeOK, IssuedBelowTicket
<1>2. /\ rows' = [rows EXCEPT ![ticket[h]] = job[h]]
      /\ issued' = Append(issued, b)
  BY DEF InsertRow
<1>3. b \in Booking /\ b.nonce = ticket[h] /\ b.sol = job[h]
  BY <1>1 DEF Booking
<1>4. \A c \in Bookings : c.nonce # b.nonce
  BY <1>1, <1>3 DEF Bookings, Booking
<1>5. Bookings' = Bookings \cup {b}
  <2>1. ASSUME NEW c \in Booking
        PROVE  rows'[c.nonce] = c.sol <=> rows[c.nonce] = c.sol \/ c = b
    <3>1. c.nonce \in Nonces /\ c.sol \in Solutions
          /\ c = [nonce |-> c.nonce, sol |-> c.sol]
      BY DEF Booking
    <3>2. CASE c.nonce = ticket[h]
      BY <1>1, <1>2, <3>1, <3>2
    <3>3. CASE c.nonce # ticket[h]
      BY <1>1, <1>2, <1>3, <3>1, <3>3
    <3> QED BY <3>2, <3>3
  <2> QED BY <1>3, <2>1 DEF Bookings
<1> QED BY <1>1, <1>2, <1>3, <1>4, <1>5 DEF Ledger!Next, Ledger!Book, Ledger!Booking, Booking

\* The inductive invariant holds throughout.
THEOREM Invariance == Spec => []IInv
BY InitEstablishes, StepPreserves, PTL DEF Spec

\* Every variable keeps its type.
THEOREM TypeCorrectness == Spec => []TypeOK
<1>1. IInv => TypeOK
  BY DEF IInv
<1> QED BY <1>1, Invariance, PTL

\* No nonce is handed out twice or out of order, whatever fails or restarts.
THEOREM NoncesNeverReused == Spec => []NoncesIncrease
<1>1. IInv => NoncesIncrease
  BY DEF IInv
<1> QED BY <1>1, Invariance, PTL

\* The mutex belongs to the one caller that works under it, and every way out of allocate
\* gives it back: nobody waits for a holder that is gone.
THEOREM MutexNeverLeaks == Spec => []MutexIsTheCallers
<1>1. Init => MutexIsTheCallers
  BY DEF Init, MutexIsTheCallers
<1>2. IInv /\ MutexIsTheCallers /\ [Next]_vars => MutexIsTheCallers'
  <2> SUFFICES ASSUME IInv, MutexIsTheCallers, [Next]_vars, NEW g \in Handlers
               PROVE  lock' = g <=> pc'[g] \in {"store", "insert"}
    BY DEF MutexIsTheCallers
  <2>0. TypeOK /\ (lock = g <=> pc[g] \in {"store", "insert"})
    BY DEF IInv, MutexIsTheCallers
  <2> USE DEF TypeOK, bootVars, memVars, dbVars, chainVars
  <2>1. CASE Start \/ ReadLatest \/ LoadAndStore \/ Crash \/ ChainMoves \/ UNCHANGED vars
    BY <2>0, <2>1 DEF Start, ReadLatest, LoadAndStore, Crash, ChainMoves, vars
  <2>2. ASSUME NEW h \in Handlers, Call(h) \/ GoAway(h) \/ TakeLock(h) \/ StoreNext(h)
        PROVE  lock' = g <=> pc'[g] \in {"store", "insert"}
    BY <2>0, <2>2 DEF Call, GoAway, TakeLock, StoreNext
  <2>3. ASSUME NEW h \in Handlers, StoreFails(h) \/ InsertFails(h) \/ InsertRow(h)
        PROVE  lock' = g <=> pc'[g] \in {"store", "insert"}
    <3>1. lock = h
      BY <2>3 DEF IInv, HolderInv, StoreFails, InsertFails, InsertRow
    <3>2. lock' = None /\ pc' = [pc EXCEPT ![h] = "idle"]
      BY <2>3 DEF StoreFails, InsertFails, InsertRow, Return
    <3> QED BY <2>0, <3>1, <3>2
  <2> QED BY <2>1, <2>2, <2>3 DEF Next, Step
<1> QED BY <1>1, <1>2, Invariance, PTL DEF Spec

\* INSERT OR REPLACE never replaces a row.
THEOREM RowsNeverOverwritten == Spec => RowsWrittenOnce
<1> DEFINE Kept == \A n \in Nonces : rows[n] # None => rows'[n] = rows[n]
<1>1. IInv /\ [Next]_vars => [Kept]_vars
  <2> SUFFICES ASSUME IInv, Next PROVE Kept
    BY DEF vars
  <2>1. CASE Start \/ ReadLatest \/ LoadAndStore \/ Crash \/ ChainMoves
    BY <2>1 DEF Start, ReadLatest, LoadAndStore, Crash, ChainMoves, dbVars
  <2>2. ASSUME NEW h \in Handlers, InsertRow(h)
        PROVE  Kept
    <3>1. /\ ticket[h] \in Nonces /\ rows[ticket[h]] = None
          /\ rows \in [Nonces -> Solutions \cup {None}]
      BY <2>2 DEF InsertRow, IInv, HolderInv, TypeOK
    <3> QED BY <2>2, <3>1 DEF InsertRow
  <2>3. ASSUME NEW h \in Handlers,
               \/ Call(h) \/ GoAway(h) \/ TakeLock(h)
               \/ StoreNext(h) \/ StoreFails(h) \/ InsertFails(h)
        PROVE  Kept
    BY <2>3 DEF Call, GoAway, TakeLock, StoreNext, StoreFails, InsertFails, dbVars
  <2> QED BY <2>1, <2>2, <2>3 DEF Next, Step
<1> QED BY <1>1, Invariance, PTL DEF Spec, RowsWrittenOnce

\* What allocate handed out is on disk.
THEOREM AllocationDurable == Spec => []IssuedIsDurable
<1>1. IInv => IssuedIsDurable
  BY DEF IInv
<1> QED BY <1>1, Invariance, PTL

\* new and allocate implement the abstract ledger of nonces.
THEOREM Refinement == Spec => ImplementsLedger
<1>1. Init => Ledger!Init
  BY DEF Init, Ledger!Init, Bookings, Booking
<1>2. IInv /\ [Next]_vars => [Ledger!Next]_(Ledger!ledgerVars)
  <2> SUFFICES ASSUME IInv, [Next]_vars
               PROVE  Ledger!Next \/ UNCHANGED Ledger!ledgerVars
    OBVIOUS
  <2>1. CASE \E h \in Handlers : InsertRow(h)
    BY <2>1, InsertBooks
  <2>2. CASE Start \/ ReadLatest \/ LoadAndStore \/ Crash \/ ChainMoves \/ UNCHANGED vars
    <3>1. UNCHANGED <<rows, issued>>
      BY <2>2 DEF Start, ReadLatest, LoadAndStore, Crash, ChainMoves, vars, dbVars
    <3> QED BY <3>1, Invisible
  <2>3. CASE \E h \in Handlers : \/ Call(h) \/ GoAway(h) \/ TakeLock(h)
                               \/ StoreNext(h) \/ StoreFails(h) \/ InsertFails(h)
    <3>1. UNCHANGED <<rows, issued>>
      BY <2>3 DEF Call, GoAway, TakeLock, StoreNext, StoreFails, InsertFails, dbVars
    <3> QED BY <3>1, Invisible
  <2> QED BY <2>1, <2>2, <2>3 DEF Next, Step
<1> QED BY <1>1, <1>2, Invariance, PTL DEF Spec, ImplementsLedger, Ledger!Spec
=============================================================================

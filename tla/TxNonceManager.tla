---------------------------- MODULE TxNonceManager ----------------------------
(***************************************************************************)
(* The allocator of Ethereum account nonces (tx_nonce_manager.rs) over the *)
(* SQLite store it writes through (db.rs).  Submit handlers call allocate  *)
(* concurrently; a tokio mutex serialises them; inside the mutex the code  *)
(* advances the counter in memory, commits the counter, commits the row,   *)
(* and any of the commits may fail.  The process may die between two       *)
(* commits and start again, with or without a reachable RPC endpoint.      *)
(***************************************************************************)
EXTENDS Integers, Sequences

CONSTANTS
  Handlers,   \* concurrent callers of allocate
  Solutions,  \* what a transaction carries: calldata, PoW nonce, challenge
  MaxNonce,   \* bound: nonces are drawn from 0 .. MaxNonce-1
  MaxBoots,   \* bound: how often the process starts
  None        \* no solution, no row, no holder

ASSUME BoundsAssumption == MaxNonce \in Nat /\ MaxBoots \in Nat
ASSUME NoneAssumption == None \notin Solutions /\ None \notin Handlers

VARIABLES
  proc,       \* "down", "started", "counted" (both counts read) or "up"
  boots,      \* starts so far
  floor,      \* TxNonceManager::new: the largest count read so far
  nextNonce,  \* Inner.next_nonce
  lock,       \* who holds the tokio mutex around Inner
  pc,         \* where each caller is in allocate
  job,        \* the solution each caller wants a nonce for
  ticket,     \* the n each caller read under the mutex
  dbNext,     \* SQLite: meta['next_nonce'], 0 when absent
  rows,       \* SQLite: txs, nonce -> the solution of its row
  issued,     \* history: what allocate returned Ok for, in order
  latest,     \* external: eth_getTransactionCount(.., "latest")
  pending     \* external: eth_getTransactionCount(.., "pending")

bootVars == <<proc, boots, floor>>
memVars == <<nextNonce, lock, pc, job, ticket>>
dbVars == <<dbNext, rows>>
chainVars == <<latest, pending>>
vars == <<bootVars, memVars, dbVars, issued, chainVars>>

Nonces == 0..(MaxNonce - 1)
Counts == 0..MaxNonce
Larger(a, b) == IF a >= b THEN a ELSE b

Booking == [nonce : Nonces, sol : Solutions]

TypeOK ==
  /\ proc \in {"down", "started", "counted", "up"}
  /\ boots \in 0..MaxBoots
  /\ floor \in Counts
  /\ nextNonce \in Counts
  /\ lock \in Handlers \cup {None}
  /\ pc \in [Handlers -> {"idle", "waiting", "store", "insert"}]
  /\ job \in [Handlers -> Solutions \cup {None}]
  /\ ticket \in [Handlers -> Counts]
  /\ dbNext \in Counts
  /\ rows \in [Nonces -> Solutions \cup {None}]
  /\ issued \in Seq(Booking)
  /\ latest \in Counts
  /\ pending \in Counts

\* The wallet may have a history: the chain's counts start anywhere, the
\* database is empty.
Init ==
  /\ proc = "down" /\ boots = 0 /\ floor = 0
  /\ nextNonce = 0 /\ lock = None
  /\ pc = [h \in Handlers |-> "idle"]
  /\ job = [h \in Handlers |-> None]
  /\ ticket = [h \in Handlers |-> 0]
  /\ dbNext = 0
  /\ rows = [n \in Nonces |-> None]
  /\ issued = <<>>
  /\ latest \in Counts /\ pending \in latest..MaxNonce

-----------------------------------------------------------------------------
(* TxNonceManager::new.  A count that cannot be read is taken to be 0.      *)

Start ==
  /\ proc = "down" /\ boots < MaxBoots
  /\ boots' = boots + 1
  /\ \E count \in {pending, 0} : floor' = count
  /\ proc' = "started"
  /\ UNCHANGED <<memVars, dbVars, issued, chainVars>>

ReadLatest ==
  /\ proc = "started"
  /\ \E count \in {latest, 0} : floor' = Larger(floor, count)
  /\ proc' = "counted"
  /\ UNCHANGED <<boots, memVars, dbVars, issued, chainVars>>

(* Mutants of new: off by one; the stored counter is forgotten. *)
LoadAndStoreOffByOne ==
  /\ proc = "counted"
  /\ nextNonce' = Larger(floor, dbNext) + 1
  /\ dbNext' = nextNonce'
  /\ proc' = "up"
  /\ UNCHANGED <<boots, floor, lock, pc, job, ticket, rows, issued, chainVars>>

LoadAndStoreChainOnly ==
  /\ proc = "counted"
  /\ nextNonce' = floor
  /\ dbNext' = nextNonce'
  /\ proc' = "up"
  /\ UNCHANGED <<boots, floor, lock, pc, job, ticket, rows, issued, chainVars>>

LoadAndStore ==
  /\ proc = "counted"
  /\ nextNonce' = Larger(floor, dbNext)
  /\ dbNext' = nextNonce'
  /\ proc' = "up"
  /\ UNCHANGED <<boots, floor, lock, pc, job, ticket, rows, issued, chainVars>>

-----------------------------------------------------------------------------
(* allocate.  After the mutex is taken nothing awaits, so a caller that     *)
(* goes away (its HTTP client disconnects) can only do so while waiting.    *)

Call(h) ==
  /\ proc = "up" /\ pc[h] = "idle"
  /\ \E s \in Solutions : job' = [job EXCEPT ![h] = s]
  /\ pc' = [pc EXCEPT ![h] = "waiting"]
  /\ UNCHANGED <<bootVars, nextNonce, lock, ticket, dbVars, issued, chainVars>>

GoAway(h) ==
  /\ pc[h] = "waiting"
  /\ pc' = [pc EXCEPT ![h] = "idle"]
  /\ job' = [job EXCEPT ![h] = None]
  /\ UNCHANGED <<bootVars, nextNonce, lock, ticket, dbVars, issued, chainVars>>

(* Mutant: the mutex is not held while the nonce is stored. *)
TakeLockUnguarded(h) ==
  /\ pc[h] = "waiting" /\ nextNonce < MaxNonce
  /\ lock' = h
  /\ ticket' = [ticket EXCEPT ![h] = nextNonce]
  /\ nextNonce' = nextNonce + 1
  /\ pc' = [pc EXCEPT ![h] = "store"]
  /\ UNCHANGED <<bootVars, job, dbVars, issued, chainVars>>

TakeLock(h) ==
  /\ pc[h] = "waiting" /\ lock = None
  /\ nextNonce < MaxNonce
  /\ lock' = h
  /\ ticket' = [ticket EXCEPT ![h] = nextNonce]
  /\ nextNonce' = nextNonce + 1
  /\ pc' = [pc EXCEPT ![h] = "store"]
  /\ UNCHANGED <<bootVars, job, dbVars, issued, chainVars>>

\* The guard is dropped at the end of allocate, on Ok and on `?` alike.
Return(h) ==
  /\ lock' = None
  /\ pc' = [pc EXCEPT ![h] = "idle"]
  /\ job' = [job EXCEPT ![h] = None]
  /\ ticket' = [ticket EXCEPT ![h] = 0]

(* Mutant: the counter is not stored. *)
StoreNextForgotten(h) ==
  /\ pc[h] = "store"
  /\ pc' = [pc EXCEPT ![h] = "insert"]
  /\ UNCHANGED <<bootVars, nextNonce, lock, job, ticket, dbVars, issued, chainVars>>

StoreNext(h) ==
  /\ pc[h] = "store"
  /\ dbNext' = nextNonce
  /\ pc' = [pc EXCEPT ![h] = "insert"]
  /\ UNCHANGED <<bootVars, nextNonce, lock, job, ticket, rows, issued, chainVars>>

(* Mutant: the error path keeps the mutex. *)
StoreFailsLocked(h) ==
  /\ pc[h] = "store"
  /\ pc' = [pc EXCEPT ![h] = "idle"]
  /\ UNCHANGED <<bootVars, nextNonce, lock, job, ticket, dbVars, issued, chainVars>>

\* The in-memory counter keeps its increment: the nonce is skipped.
StoreFails(h) ==
  /\ pc[h] = "store"
  /\ Return(h)
  /\ UNCHANGED <<bootVars, nextNonce, dbVars, issued, chainVars>>

(* Mutant: an insert that failed is taken for one that worked. *)
InsertRowUnchecked(h) ==
  /\ pc[h] = "insert"
  /\ rows' \in {rows, [rows EXCEPT ![ticket[h]] = job[h]]}
  /\ issued' = Append(issued, [nonce |-> ticket[h], sol |-> job[h]])
  /\ Return(h)
  /\ UNCHANGED <<bootVars, nextNonce, dbNext, chainVars>>

\* INSERT OR REPLACE: a row that is already there would be overwritten.
InsertRow(h) ==
  /\ pc[h] = "insert"
  /\ rows' = [rows EXCEPT ![ticket[h]] = job[h]]
  /\ issued' = Append(issued, [nonce |-> ticket[h], sol |-> job[h]])
  /\ Return(h)
  /\ UNCHANGED <<bootVars, nextNonce, dbNext, chainVars>>

InsertFails(h) ==
  /\ pc[h] = "insert"
  /\ Return(h)
  /\ UNCHANGED <<bootVars, nextNonce, dbVars, issued, chainVars>>

-----------------------------------------------------------------------------
\* The process dies, or new returned an error: memory is gone, commits stay.
\* The counter in memory means nothing until LoadAndStore sets it again.
Crash ==
  /\ proc # "down"
  /\ proc' = "down"
  /\ lock' = None
  /\ pc' = [h \in Handlers |-> "idle"]
  /\ job' = [h \in Handlers |-> None]
  /\ ticket' = [h \in Handlers |-> 0]
  /\ UNCHANGED <<boots, floor, nextNonce, dbVars, issued, chainVars>>

\* External: transactions are mined, enter or leave the mempool.
ChainMoves ==
  /\ latest' \in latest..MaxNonce
  /\ pending' \in latest'..MaxNonce
  /\ UNCHANGED <<bootVars, memVars, dbVars, issued>>

Step(h) == StoreNext(h) \/ StoreFails(h) \/ InsertRow(h) \/ InsertFails(h)

Next ==
  \/ Start \/ ReadLatest \/ LoadAndStore \/ Crash \/ ChainMoves
  \/ \E h \in Handlers : Call(h) \/ GoAway(h) \/ TakeLock(h) \/ Step(h)

\* A running task keeps running; tokio's mutex is fair (FIFO), so a waiter that
\* finds it free again and again gets it.  Nothing is assumed of the clients,
\* the chain, or whoever starts the process.
Fairness == \A h \in Handlers : WF_vars(Step(h)) /\ SF_vars(TakeLock(h))

Spec == Init /\ [][Next]_vars
FairSpec == Spec /\ Fairness

-----------------------------------------------------------------------------
\* The nonces handed out strictly increase over the whole life of the wallet,
\* across restarts, failed commits and unreachable RPC endpoints: no two
\* transactions are ever built for the same nonce.
NoncesIncrease ==
  \A i, j \in 1..Len(issued) : i < j => issued[i].nonce < issued[j].nonce

\* INSERT OR REPLACE in insert_allocated_tx never replaces: once a nonce has a
\* row, allocate never touches that row again.
RowsWrittenOnce ==
  [][\A n \in Nonces : rows[n] # None => rows'[n] = rows[n]]_vars

\* A nonce reaches the caller only when the database already skips past it and
\* holds its row: whatever is signed afterwards survives a crash.
IssuedIsDurable ==
  \A i \in 1..Len(issued) :
     /\ issued[i].nonce < dbNext
     /\ rows[issued[i].nonce] = issued[i].sol

\* Nobody waits for the mutex for ever (unless the bound on nonces is hit).
WaitersAreServed ==
  \A h \in Handlers :
     (pc[h] = "waiting") ~> (pc[h] # "waiting" \/ nextNonce = MaxNonce)

\* The mutex is held by the caller that is between taking it and returning, and by no
\* other: neither a failed commit nor a caller that goes away keeps it.
MutexIsTheCallers == \A h \in Handlers : lock = h <=> pc[h] \in {"store", "insert"}

\* The bookings of the abstract ledger are the rows of the database.
Bookings == {b \in Booking : rows[b.nonce] = b.sol}

Ledger == INSTANCE NonceLedger WITH book <- Bookings

\* new and allocate implement the ledger of NonceLedger: every step of theirs
\* books a fresh nonce and hands it out, or changes nothing the ledger sees.
ImplementsLedger == Ledger!Spec

-----------------------------------------------------------------------------
\* Strengthening that makes the above inductive.
HolderInv ==
  \A h \in Handlers :
     /\ pc[h] \in {"store", "insert"} =>
          /\ lock = h /\ proc = "up"
          /\ nextNonce = ticket[h] + 1
          /\ ticket[h] \in Nonces
     /\ pc[h] = "store" => dbNext <= ticket[h]
     /\ pc[h] = "insert" => dbNext = ticket[h] + 1 /\ rows[ticket[h]] = None
     /\ pc[h] # "idle" => job[h] \in Solutions /\ proc = "up"

RowsInv == \A n \in Nonces : dbNext <= n => rows[n] = None

CounterInv == proc = "up" => dbNext <= nextNonce

\* While a row is being inserted, everything handed out has a lower nonce.
IssuedBelowTicket ==
  \A h \in Handlers : pc[h] = "insert" =>
     \A i \in 1..Len(issued) : issued[i].nonce < ticket[h]

IInv ==
  /\ TypeOK /\ HolderInv /\ RowsInv /\ CounterInv
  /\ NoncesIncrease /\ IssuedIsDurable /\ IssuedBelowTicket
=============================================================================

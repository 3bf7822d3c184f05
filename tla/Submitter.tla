------------------------------ MODULE Submitter ------------------------------
(***************************************************************************)
(* submitter.rs: the handlers that turn solutions into transactions, the   *)
(* receipt watcher and the fee-bumping replacement loop.  They share the   *)
(* SQLite table txs (db.rs), the nonce counter (tx_nonce_manager.rs) and   *)
(* the network, and run interleaved at every await.  A transaction's hash  *)
(* is determined by its nonce, fee level and solution, so a row's          *)
(* raw_tx_hash is modelled by the fee level that was signed.               *)
(***************************************************************************)
EXTENDS Chain

CONSTANTS
  Parallel,      \* AppConfig.enable_parallel_pending_tx
  SkipSim,       \* AppConfig.skip_simulate_after_success
  ListLimit,     \* the LIMIT of list_filtered, 500
  MaxDbErrors,   \* bound: how many SQLite writes fail
  MaxRestarts    \* bound: how often the process dies and starts again

ASSUME SubmitterAssumption ==
  /\ Parallel \in BOOLEAN /\ SkipSim \in BOOLEAN
  /\ ListLimit \in Nat \ {0}
  /\ MaxDbErrors \in Nat /\ MaxRestarts \in Nat

VARIABLES
  pc,            \* one submit_solution per solution: where it is
  ticket,        \* the nonce it allocated
  answer,        \* what its broadcast returned
  lock,          \* holder of Submitter.pending_lock
  hadSuccess,    \* Submitter.had_success
  nextNonce,     \* Inner.next_nonce of the nonce manager
  dbNext,        \* SQLite: meta['next_nonce']
  rows,          \* SQLite: txs
  aged,          \* nonces of rows at least pending_replace_after_blocks old
  watchTodo,     \* receipt watcher: rest of its list_pending snapshot
  watchHit,      \* receipt watcher: the receipt it is about to record
  replTodo,      \* replacement loop: rest of its list_pending snapshot
  replSent,      \* replacement loop: the replacement it broadcast
  confirmations, \* Metrics.confirmations
  dbErrors,      \* failed writes so far
  restarts       \* restarts so far

handlers == <<pc, ticket, answer, lock, hadSuccess>>
db == <<dbNext, rows, aged, dbErrors>>
watcher == <<watchTodo, watchHit, confirmations>>
replacer == <<replTodo, replSent>>
vars == <<chain, handlers, nextNonce, db, watcher, replacer, restarts>>

NoHash == -1    \* raw_tx_hash = ''
Status == {"pending", "success", "failed", "replaced"}
Row == [status : Status, hash : Fees \cup {NoHash}, fee : Fees, sol : Sols]
Answers == {"ok", "err", "tooLow"}
ASSUME NoneIsNoRow == None \notin Row
HasRow(n) == rows[n] # None
IsPending(n) == HasRow(n) /\ rows[n].status = "pending"

\* list_pending returns the highest nonces only; the columns are looked at afterwards.
Listed(n) ==
  IsPending(n) /\ Cardinality({m \in Nonces : m > n /\ IsPending(m)}) < ListLimit

TypeOK ==
  /\ ChainTypeOK
  /\ pc \in [Sols -> {"new", "checked", "entered", "ready", "allocated", "sent", "done"}]
  /\ ticket \in [Sols -> Nonces \cup {None}]
  /\ answer \in [Sols -> Answers \cup {None}]
  /\ lock \in Sols \cup {None}
  /\ hadSuccess \in BOOLEAN
  /\ nextNonce \in 0..MaxNonce /\ dbNext \in 0..MaxNonce
  /\ rows \in [Nonces -> Row \cup {None}]
  /\ aged \subseteq Nonces
  /\ watchTodo \subseteq [nonce : Nonces, hash : Fees, sol : Sols]
  /\ watchHit \in [nonce : Nonces, ok : BOOLEAN] \cup {None}
  /\ replTodo \subseteq Tx
  /\ replSent \in [tx : Tx, answer : Answers] \cup {None}
  /\ confirmations \in Nat
  /\ dbErrors \in 0..MaxDbErrors
  /\ restarts \in 0..MaxRestarts

Init ==
  /\ ChainInit
  /\ pc = [s \in Sols |-> "new"]
  /\ ticket = [s \in Sols |-> None]
  /\ answer = [s \in Sols |-> None]
  /\ lock = None /\ hadSuccess = FALSE
  /\ nextNonce = 0 /\ dbNext = 0
  /\ rows = [n \in Nonces |-> None]
  /\ aged = {}
  /\ watchTodo = {} /\ watchHit = None
  /\ replTodo = {} /\ replSent = None
  /\ confirmations = 0 /\ dbErrors = 0 /\ restarts = 0

-----------------------------------------------------------------------------
(* db.rs *)

DbFails == dbErrors < MaxDbErrors /\ dbErrors' = dbErrors + 1

\* update_status: the row's current status is not looked at.
UpdateStatus(n, status) ==
  rows' = [rows EXCEPT ![n] = [@ EXCEPT !.status = status]]

\* A write whose Result is ignored: it happens or it does not.
TryUpdateStatus(n, status) ==
  /\ \/ UpdateStatus(n, status) /\ UNCHANGED dbErrors
     \/ DbFails /\ UNCHANGED rows
  /\ UNCHANGED <<dbNext, aged>>

-----------------------------------------------------------------------------
(* submit_solution, do_submit.  The solution has passed validate_solution   *)
(* against the caller's WorkState.                                          *)

Goto(s, label) == pc' = [pc EXCEPT ![s] = label]

\* The future ends: locals are gone and the guard on pending_lock is dropped.
Finish(s) ==
  /\ Goto(s, "done")
  /\ ticket' = [ticket EXCEPT ![s] = None]
  /\ answer' = [answer EXCEPT ![s] = None]
  /\ lock' = IF lock = s THEN None ELSE lock

\* get_challenge returns the challenge the solution is for, or the call ends.
Recheck(s) ==
  /\ pc[s] = "new"
  /\ \/ EpochOf[s] = epoch /\ Goto(s, "checked") /\ UNCHANGED <<ticket, answer, lock>>
     \/ (EpochOf[s] # epoch \/ "refuse" \in Faults) /\ Finish(s)
  /\ UNCHANGED <<chain, hadSuccess, nextNonce, db, watcher, replacer, restarts>>

\* pending_lock, unless parallel pending transactions are enabled.
Enter(s) ==
  /\ pc[s] = "checked"
  /\ \/ Parallel /\ UNCHANGED lock
     \/ ~Parallel /\ lock = None /\ lock' = s
  /\ Goto(s, "entered")
  /\ UNCHANGED <<chain, ticket, answer, hadSuccess, nextNonce, db, watcher,
                 replacer, restarts>>

\* eth_call of mine(nonce); the gas calls that follow never stop a handler.
Simulate(s) ==
  /\ pc[s] = "entered"
  /\ \/ SkipSim /\ hadSuccess /\ Goto(s, "ready") /\ UNCHANGED <<ticket, answer, lock>>
     \/ ~(SkipSim /\ hadSuccess) /\ Valid(s) /\ Goto(s, "ready")
          /\ UNCHANGED <<ticket, answer, lock>>
     \/ ~(SkipSim /\ hadSuccess) /\ (~Valid(s) \/ "refuse" \in Faults) /\ Finish(s)
  /\ UNCHANGED <<chain, hadSuccess, nextNonce, db, watcher, replacer, restarts>>

(* Mutant: the error of insert_allocated_tx is ignored. *)
AllocateUnchecked(s) ==
  /\ pc[s] = "ready" /\ nextNonce < MaxNonce
  /\ nextNonce' = nextNonce + 1
  /\ dbNext' = nextNonce + 1
  /\ \/ /\ rows' = [rows EXCEPT ![nextNonce] =
                      [status |-> "pending", hash |-> NoHash, fee |-> 0, sol |-> s]]
        /\ UNCHANGED dbErrors
     \/ DbFails /\ UNCHANGED rows
  /\ ticket' = [ticket EXCEPT ![s] = nextNonce]
  /\ Goto(s, "allocated")
  /\ UNCHANGED <<chain, answer, lock, hadSuccess, aged, watcher, replacer, restarts>>

\* TxNonceManager::allocate, one step here: it is serialised by its own mutex and
\* does not await inside (TxNonceManager.tla shows its steps).  The block in the
\* caller's WorkState may already be old.
Allocate(s) ==
  /\ pc[s] = "ready" /\ nextNonce < MaxNonce
  /\ nextNonce' = nextNonce + 1
  /\ \/ /\ dbNext' = nextNonce + 1
        /\ rows' = [rows EXCEPT ![nextNonce] =
                      [status |-> "pending", hash |-> NoHash, fee |-> 0, sol |-> s]]
        /\ aged' \in {aged, aged \cup {nextNonce}}
        /\ ticket' = [ticket EXCEPT ![s] = nextNonce]
        /\ Goto(s, "allocated")
        /\ UNCHANGED <<answer, lock, dbErrors>>
     \/ /\ DbFails                              \* insert or store failed
        /\ dbNext' \in {dbNext, nextNonce + 1}
        /\ Finish(s)
        /\ UNCHANGED <<rows, aged>>
  /\ UNCHANGED <<chain, hadSuccess, watcher, replacer, restarts>>

\* sign_eip1559 and the await on broadcast_raw_tx.
Send(s) ==
  /\ pc[s] = "allocated"
  /\ \E a \in Answers :
        /\ Broadcast([nonce |-> ticket[s], fee |-> 0, sol |-> s], a)
        /\ answer' = [answer EXCEPT ![s] = a]
  /\ Goto(s, "sent")
  /\ UNCHANGED <<ticket, lock, hadSuccess, nextNonce, db, watcher, replacer, restarts>>

(* Mutant: the whole row is written again, with the fee it was created with. *)
RecordHashAndFee(s) ==
  /\ pc[s] = "sent" /\ answer[s] = "ok"
  /\ rows' = [rows EXCEPT ![ticket[s]] = [@ EXCEPT !.hash = 0, !.fee = 0]]
  /\ hadSuccess' = TRUE
  /\ Finish(s)
  /\ UNCHANGED <<chain, nextNonce, dbNext, aged, dbErrors, watcher, replacer, restarts>>

\* Ok: the hash is recorded; a failing write ends the handler with an error and
\* an empty hash stays behind.
RecordHash(s) ==
  /\ pc[s] = "sent" /\ answer[s] = "ok"
  /\ \/ /\ rows' = [rows EXCEPT ![ticket[s]] = [@ EXCEPT !.hash = 0]]
        /\ hadSuccess' = TRUE
        /\ UNCHANGED dbErrors
     \/ DbFails /\ UNCHANGED <<rows, hadSuccess>>
  /\ Finish(s)
  /\ UNCHANGED <<chain, nextNonce, dbNext, aged, watcher, replacer, restarts>>

\* Err: the row is marked failed whatever happened to it meanwhile.
RecordFailure(s) ==
  /\ pc[s] = "sent" /\ answer[s] # "ok"
  /\ TryUpdateStatus(ticket[s], "failed")
  /\ Finish(s)
  /\ UNCHANGED <<chain, hadSuccess, nextNonce, watcher, replacer, restarts>>

\* The HTTP connection closes: the handler's future is dropped at an await.
Cancel(s) ==
  /\ "cancel" \in Faults
  /\ pc[s] \in {"checked", "entered", "allocated", "sent"}
  /\ Finish(s)
  /\ UNCHANGED <<chain, hadSuccess, nextNonce, db, watcher, replacer, restarts>>

-----------------------------------------------------------------------------
(* receipt_watcher_loop *)

\* list_filtered orders the rows by tx_nonce DESC.
First(i, items) == i \in items /\ \A j \in items : i.nonce >= j.nonce

(* Mutant: rows of every status are watched. *)
WatchListAll ==
  /\ watchTodo = {} /\ watchHit = None
  /\ watchTodo' = {[nonce |-> n, hash |-> rows[n].hash, sol |-> rows[n].sol] :
                     n \in {m \in Nonces : HasRow(m) /\ rows[m].hash # NoHash}}
  /\ watchTodo' # {}
  /\ UNCHANGED <<chain, handlers, nextNonce, db, watchHit, confirmations,
                 replacer, restarts>>

WatchList ==
  /\ watchTodo = {} /\ watchHit = None
  /\ watchTodo' = {[nonce |-> n, hash |-> rows[n].hash, sol |-> rows[n].sol] :
                     n \in {m \in Nonces : Listed(m) /\ rows[m].hash # NoHash}}
  /\ watchTodo' # {}
  /\ UNCHANGED <<chain, handlers, nextNonce, db, watchHit, confirmations,
                 replacer, restarts>>

WatchQuery ==
  /\ watchHit = None
  /\ \E i \in watchTodo :
        /\ First(i, watchTodo)
        /\ watchTodo' = watchTodo \ {i}
        /\ \/ /\ HasReceipt(i.nonce, i.hash, i.sol)
              /\ watchHit' = [nonce |-> i.nonce, ok |-> ledger[i.nonce].ok]
           \/ /\ ~HasReceipt(i.nonce, i.hash, i.sol) \/ "lag" \in Faults
              /\ UNCHANGED watchHit
  /\ UNCHANGED <<chain, handlers, nextNonce, db, confirmations, replacer, restarts>>

(* Mutant: the receipt's status is not looked at. *)
WatchWriteSuccess ==
  /\ watchHit # None
  /\ TryUpdateStatus(watchHit.nonce, "success")
  /\ confirmations' = confirmations + 1
  /\ watchHit' = None
  /\ UNCHANGED <<chain, handlers, nextNonce, watchTodo, replacer, restarts>>

\* The metric counts even when the write failed.
WatchWrite ==
  /\ watchHit # None
  /\ TryUpdateStatus(watchHit.nonce, IF watchHit.ok THEN "success" ELSE "failed")
  /\ confirmations' = confirmations + (IF watchHit.ok THEN 1 ELSE 0)
  /\ watchHit' = None
  /\ UNCHANGED <<chain, handlers, nextNonce, watchTodo, replacer, restarts>>

-----------------------------------------------------------------------------
(* replacement_loop *)

(* Mutant: rows without a hash are left to the handler that wrote them. *)
ReplListHashed ==
  /\ replTodo = {} /\ replSent = None
  /\ replTodo' = {[nonce |-> n, fee |-> rows[n].fee, sol |-> rows[n].sol] :
                    n \in {m \in aged : Listed(m) /\ rows[m].hash # NoHash}}
  /\ replTodo' # {}
  /\ UNCHANGED <<chain, handlers, nextNonce, db, watcher, replSent, restarts>>

ReplList ==
  /\ replTodo = {} /\ replSent = None
  /\ replTodo' = {[nonce |-> n, fee |-> rows[n].fee, sol |-> rows[n].sol] :
                    n \in {m \in aged : Listed(m)}}
  /\ replTodo' # {}
  /\ UNCHANGED <<chain, handlers, nextNonce, db, watcher, replSent, restarts>>

\* bump_eip1559 keeps everything but the fees (GasPolicy.tla has the amounts).
Bumped(tx) == [nonce |-> tx.nonce, fee |-> tx.fee + 1, sol |-> tx.sol]

\* Rows without a hash are not skipped here.
ReplSend ==
  /\ replSent = None
  /\ \E i \in replTodo :
        /\ First(i, replTodo)
        /\ replTodo' = replTodo \ {i}
        /\ \/ i.fee = MaxFee /\ UNCHANGED <<chain, replSent>>
           \/ /\ i.fee < MaxFee
              /\ \E a \in Answers :
                   /\ Broadcast(Bumped(i), a)
                   /\ replSent' = [tx |-> Bumped(i), answer |-> a]
  /\ UNCHANGED <<handlers, nextNonce, db, watcher, restarts>>

(* Mutant: any error of the broadcast is taken for "nonce too low". *)
ReplWriteAnyError ==
  /\ replSent # None
  /\ \/ /\ replSent.answer = "ok"
        /\ rows' = [rows EXCEPT ![replSent.tx.nonce] =
                      [@ EXCEPT !.fee = replSent.tx.fee, !.hash = replSent.tx.fee]]
        /\ UNCHANGED <<dbNext, aged, dbErrors>>
     \/ replSent.answer # "ok" /\ TryUpdateStatus(replSent.tx.nonce, "replaced")
  /\ replSent' = None
  /\ UNCHANGED <<chain, handlers, nextNonce, watcher, replTodo, restarts>>

\* update_fee and update_tx_hash are two commits with ignored results: any subset
\* of them may be done.  Nobody reads both columns, so they are one step.
ReplWrite ==
  /\ replSent # None
  /\ LET tx == replSent.tx
         n == tx.nonce
     IN \/ /\ replSent.answer = "ok"
           /\ \/ /\ rows' = [rows EXCEPT ![n] = [@ EXCEPT !.fee = tx.fee, !.hash = tx.fee]]
                 /\ UNCHANGED dbErrors
              \/ /\ DbFails
                 /\ \/ rows' = [rows EXCEPT ![n] = [@ EXCEPT !.fee = tx.fee]]
                    \/ rows' = [rows EXCEPT ![n] = [@ EXCEPT !.hash = tx.fee]]
                    \/ UNCHANGED rows
           /\ UNCHANGED <<dbNext, aged>>
        \/ replSent.answer = "tooLow" /\ TryUpdateStatus(n, "replaced")
        \/ replSent.answer = "err" /\ UNCHANGED db
  /\ replSent' = None
  /\ UNCHANGED <<chain, handlers, nextNonce, watcher, replTodo, restarts>>

-----------------------------------------------------------------------------
\* Blocks go by: every row on disk gets old enough to be replaced.
Age ==
  /\ aged' = {n \in Nonces : HasRow(n)}
  /\ aged' # aged
  /\ UNCHANGED <<chain, handlers, nextNonce, dbNext, rows, dbErrors, watcher,
                 replacer, restarts>>

ChainStep ==
  /\ Mine \/ MineForeign \/ Evict \/ NextEpoch
  /\ UNCHANGED <<handlers, nextNonce, db, watcher, replacer, restarts>>

\* The process dies and starts again: TxNonceManager::new reads the two counts
\* (0 when it cannot) and takes the largest of them and the stored counter.  A
\* process that dies inside allocate may have committed the counter, not the row.
Stored == {dbNext} \cup
          {nextNonce + 1 : s \in {t \in Sols : pc[t] = "ready" /\ nextNonce < MaxNonce}}

(* Mutants of new: the stored counter is forgotten; off by one. *)
FirstNonceOfChain(seen, stored) == seen
FirstNonceOffByOne(seen, stored) == (IF seen > stored THEN seen ELSE stored) + 1

FirstNonce(seen, stored) == IF seen > stored THEN seen ELSE stored

Restart ==
  /\ restarts < MaxRestarts
  /\ restarts' = restarts + 1
  /\ \E seen \in {0, count} \cup PendingCounts, stored \in Stored :
        nextNonce' = FirstNonce(seen, stored)
  /\ dbNext' = nextNonce'
  /\ pc' = [s \in Sols |-> IF pc[s] = "new" THEN "new" ELSE "done"]
  /\ ticket' = [s \in Sols |-> None]
  /\ answer' = [s \in Sols |-> None]
  /\ lock' = None /\ hadSuccess' = FALSE
  /\ watchTodo' = {} /\ watchHit' = None
  /\ replTodo' = {} /\ replSent' = None
  /\ confirmations' = 0
  /\ UNCHANGED <<chain, rows, aged, dbErrors>>

HandlerStep(s) ==
  \/ Recheck(s) \/ Simulate(s) \/ Allocate(s)
  \/ Send(s) \/ RecordHash(s) \/ RecordFailure(s)
Watcher == WatchList \/ WatchQuery \/ WatchWrite
Replacer == ReplList \/ ReplSend \/ ReplWrite

Next ==
  \/ \E s \in Sols : HandlerStep(s) \/ Enter(s) \/ Cancel(s)
  \/ Watcher \/ Replacer
  \/ Age \/ ChainStep \/ Restart

Spec == Init /\ [][Next]_vars
-----------------------------------------------------------------------------
\* Whatever the network holds or mined of this wallet has a row with the same
\* solution, written before it was sent: after any crash, cancelled handler or
\* lost answer the table still knows about every transaction that is out.
WriteAhead ==
  /\ \A tx \in pool : HasRow(tx.nonce) /\ rows[tx.nonce].sol = tx.sol
  /\ \A n \in Nonces : Own(n) => HasRow(n) /\ rows[n].sol = ledger[n].sol

\* However broadcasts, crashes and half-done updates interleave, the network is
\* at most one fee bump ahead of the row.
OneBumpAhead == \A tx \in pool : tx.fee <= rows[tx.nonce].fee + 1

\* A row is marked success only for a transaction of ours that was mined and
\* did not revert, although its hash may have been overwritten meanwhile.
SuccessIsOnChain ==
  \A n \in Nonces : HasRow(n) /\ rows[n].status = "success" => Own(n) /\ ledger[n].ok

\* A row is marked replaced only when its nonce is used up on chain.
ReplacedIsSettled ==
  \A n \in Nonces : HasRow(n) /\ rows[n].status = "replaced" => n < count

\* The confirmations metric exceeds what was mined for the wallet only as often
\* as a write of the status failed.
ConfirmationsBounded ==
  confirmations <= Cardinality({n \in Nonces : Own(n) /\ ledger[n].ok}) + dbErrors

\* The wallet as its abstract specification sees it.
Bound == [n \in Nonces |-> IF HasRow(n) THEN rows[n].sol ELSE None]
Live == {[nonce |-> tx.nonce, sol |-> tx.sol] : tx \in pool}
Settled == [n \in Nonces |-> IF Own(n) THEN ledger[n].sol ELSE ledger[n]]

Wallet == INSTANCE WalletLog WITH bound <- Bound, live <- Live, settled <- Settled

\* The submitter, its two loops and its restarts implement the wallet log.
ImplementsWalletLog == Wallet!Spec

\* A row is marked replaced when somebody else used its nonce.
ReplacedMeansForeign ==
  \A n \in Nonces : HasRow(n) /\ rows[n].status = "replaced"
                     => ledger[n] = Foreign

-----------------------------------------------------------------------------
\* Tasks keep running: an RPC call returns (rpc_pool.rs gives its client a
\* timeout), the loops wake up, blocks go by and the chain mines what it can.
Fairness ==
  /\ \A s \in Sols : WF_vars(HandlerStep(s))
  /\ WF_vars(Watcher) /\ WF_vars(Replacer) /\ WF_vars(Age)
  /\ WF_vars(Mine /\ UNCHANGED <<handlers, nextNonce, db, watcher, replacer, restarts>>)

FairSpec == Spec /\ Fairness

\* A lower nonce nobody will ever send again: it has no pending row.
Blocked(n) == \E m \in count..(n - 1) : ~IsPending(m)

\* Bumping ends at the bound, for the row or for one that keeps it off the list.
BumpedOut(n) ==
  \E m \in n..(MaxNonce - 1) :
     IsPending(m) /\ rows[m].fee = MaxFee /\ (m = n \/ ~Listed(n))

\* A pending row is resolved in the end, crashes and cancelled handlers
\* notwithstanding, unless a hole in the nonces blocks it (or the bound on fee
\* bumps is reached).
PendingResolves ==
  \A n \in Nonces : IsPending(n) ~> (~IsPending(n) \/ Blocked(n) \/ BumpedOut(n))

-----------------------------------------------------------------------------
\* Strengthening that makes the safety properties inductive.

\* Rows exist only below the stored counter, which never passes the one in memory.
RowsBelowCounter ==
  /\ dbNext <= nextNonce
  /\ \A n \in Nonces : dbNext <= n => ~HasRow(n)

\* A handler's ticket is a row written for its solution.
TicketsHaveRows ==
  \A s \in Sols :
     /\ pc[s] \in {"allocated", "sent"} =>
          ticket[s] \in Nonces /\ HasRow(ticket[s]) /\ rows[ticket[s]].sol = s
     /\ pc[s] = "sent" => answer[s] \in Answers

\* What the watcher remembers is about existing rows and true of the ledger.
WatcherInv ==
  /\ \A i \in watchTodo : HasRow(i.nonce)
  /\ watchHit # None =>
       HasRow(watchHit.nonce) /\ (watchHit.ok => Own(watchHit.nonce) /\ ledger[watchHit.nonce].ok)

\* The replacement loop's snapshot is not stale in the columns it uses: it alone
\* writes fees, and visits a nonce once.
ReplacerInv ==
  /\ \A i \in replTodo :
       HasRow(i.nonce) /\ rows[i.nonce].fee = i.fee /\ rows[i.nonce].sol = i.sol
  /\ \A i, j \in replTodo : i.nonce = j.nonce => i = j
  /\ replSent # None =>
       LET tx == replSent.tx
       IN /\ HasRow(tx.nonce) /\ rows[tx.nonce].sol = tx.sol
          /\ tx.fee = rows[tx.nonce].fee + 1
          /\ \A i \in replTodo : i.nonce # tx.nonce
          /\ replSent.answer = "tooLow" => tx.nonce < count

\* The chain settles nonces in order; nothing it settled is still in a mempool.
LedgerInv ==
  /\ \A n \in Nonces : ledger[n] # None <=> n < count
  /\ \A tx \in pool : count <= tx.nonce

IInv ==
  /\ TypeOK /\ RowsBelowCounter /\ TicketsHaveRows /\ WatcherInv /\ ReplacerInv
  /\ LedgerInv /\ WriteAhead /\ OneBumpAhead /\ SuccessIsOnChain /\ ReplacedIsSettled

\* The receipt watcher visits a nonce once in a round.
VisitsOnce ==
  /\ \A i, j \in watchTodo : i.nonce = j.nonce => i = j
  /\ watchHit # None => \A i \in watchTodo : i.nonce # watchHit.nonce

\* The watcher may yet count the nonce: its row is pending, or was when it was listed.
\* A row never becomes pending again.
Countable(n) ==
  \/ IsPending(n)
  \/ \E i \in watchTodo : i.nonce = n
  \/ watchHit # None /\ watchHit.nonce = n

CountedInv ==
  /\ VisitsOnce
  /\ confirmations <=
       Cardinality({n \in Nonces : Own(n) /\ ledger[n].ok /\ ~Countable(n)}) + dbErrors
=============================================================================

# A TLA+ model of hash256

hash256 mines the HASH contract: GPUs search a 256-bit nonce whose keccak hash with the
wallet's current challenge is below a target, and a submitter turns what they find into
`mine(uint256)` transactions.  The program runs standalone (one process does everything)
or as a cluster (a coordinator owns wallet and transactions, workers mine over HTTP).
This directory models the parts of it in which steps of several actors, crashes and lost
answers decide whether it is correct.  Paths below are relative to the repository;
`gas.rs` and the like are files of `src/`.

- [Components](#components)
- [Modules](#modules)
- [Runs](#runs)
- [Proofs](#proofs)
- [Disagreements found](#disagreements-found)
- [What is not modelled](#what-is-not-modelled)
- [Plan](#plan)

Every module is checked with `tlc -config X.cfg M`, the proofs with `tlapm M.tla`.
`PROJECT.json` lists the components, the runs, the lines each definition models, the
hazards and the theorems.

## Components

| component | state | operations | talks to | what is hard |
|---|---|---|---|---|
| nonce allocator, `tx_nonce_manager.rs` | `next_nonce` behind a tokio mutex | `new`, `allocate` | SQLite, RPC pool at boot | failure between two commits, crash, boot without RPC |
| store, `db.rs` | tables `meta` and `txs` | insert, update status / hash / fee, list pending | used by allocator and submitter | unconditional updates by several writers |
| submitter, `submitter.rs` | `pending_lock`, `had_success`, the rows, the metric | `submit_solution`, `receipt_watcher_loop`, `replacement_loop` | allocator, store, RPC pool | three writers of one row, interleaved at every await; lost answers; cancelled handlers |
| gas policy, `gas.rs` | the fees of a transaction | `plan_gas`, late bump (in `do_submit`), `bump_eip1559` | submitter | caps, rounding, saturation |
| state watcher, `state_watcher.rs` | the watch channel, the epoch token | `poll_once`, `run` | RPC pool; read by devices, coordinator | several RPC calls per poll, from endpoints that may lag; token and channel written one after the other; a channel without receivers stores nothing |
| standalone miner, `main.rs`, `gpu/mod.rs` | one allocator per device, the solution channel | device loop, CPU loop, consumer | watcher, submitter | two shared variables read one after the other |
| PoW nonce space, `nonce_space.rs` | 192-bit prefix, 64-bit counter | `next_batch`, `rebind_epoch` | miners, coordinator | disjoint ranges; rebinding starts the counter over |
| coordinator, `coordinator.rs` | `latest`, `seen`, worker entries with their allocators, id counter | `register`, `work`, `solution`, `heartbeat`, mirror task, collector | watcher, submitter, workers | handlers copy `latest`, then wait for a lock; the published state may go back; everything is lost at a restart |
| worker, `worker.rs` | worker id, last work seen, watch token | register, device loops, pollers | coordinator | several devices and pollers share one id, device and poller share memory; timeouts; lost registrations |
| RPC pool, `rpc_pool.rs` | endpoint health, order | health loop, calls with failover, broadcast to all | the nodes | probes at different moments; copies of the list that outlive a refresh; lagging, lying, unreachable endpoints |
| kernel, hashing, configuration, CLI, metrics, scripts | – | – | – | pure functions and reporting; not modelled |

What makes them correct: the allocator hands out every account nonce once and has it on disk
first; the submitter never loses a transaction it signed, and what it marks as success or
replaced is so; fees stay valid and bounded; miners stop mining outdated work and everything
found is submitted; workers search disjoint ranges, stay registered, and a solution is not sent
again for nothing; what the pool reads is fresh, a call fails only when every endpoint does, and
a broadcast reaches every node of the list it took.

## Modules

| module | models | extends / instantiates |
|---|---|---|
| `NonceLedger` | abstract: a nonce is booked for one solution for good and handed out at most once, in order | |
| `TxNonceManager` | `new`, `allocate`, their commits, failures, crashes | `NonceLedger` (refinement) |
| `TxNonceManagerProofs` | theorems | `TxNonceManager`, `TLAPS` |
| `Chain` | external: mempools, blocks, the contract's epoch, and what `broadcast_raw_tx`, `tx_receipt` and `transaction_count` say about them | |
| `WalletLog` | abstract: a nonce is bound to a solution before anything is sent with it; nonces settle once, in order | |
| `Submitter` | `submitter.rs` over `db.rs` and the allocator | `Chain`, `WalletLog` (refinement) |
| `SubmitterProofs` | theorems | `Submitter`, `TLAPS` |
| `GasPolicy`, `GasPolicyProofs` | the fees of one transaction over its life | |
| `StateFeed` | abstract: each state is offered under a version, a new one exactly if the state is not the one before; an offer is shown if somebody listens, or missed, before the next is made | |
| `StateWatcher` | the poller, the token, the channel with and without a receiver, in both modes | `StateFeed` (refinement) |
| `StandaloneMiner` | devices, CPU loop, channel, consumer | `StateWatcher` |
| `StandaloneMinerProofs` | theorems | `StandaloneMiner`, `TLAPS` |
| `SolutionLog` | abstract: a solution is sent only for a state published since the start, and each time anew only when its challenge was taken up anew, which it is only while an endpoint still answers with it | |
| `Coordinator` | shared state of the coordinator with the allocators of its entries, atomic parts of its handlers, its tasks | |
| `Cluster` | workers with several devices, their pollers and the calls between them and the coordinator; GPU and CPU build | `Coordinator`, `SolutionLog` (refinement) |
| `ClusterProofs` | theorems | `Cluster`, `TLAPS` |
| `RpcPool` | one group of endpoints, the health loop, callers with their copies of it | |
| `RpcPoolProofs` | theorems | `RpcPool`, `TLAPS` |
| `MC*` | constants of the runs | |

How the state corresponds to the code is said at each variable.  What deserves more words:

**Granularity.**  A step of a model is what runs between two awaits, or between two accesses
to state another thread uses.  `TxNonceManager` shows the steps inside `allocate`, because
the process may die between its two commits; `Submitter` takes `allocate` as one step, which
is sound because it runs under its own mutex without an await, and lets `Restart` find the
counter committed without the row.  A handler of the coordinator is several steps: it copies
`latest`, releases it, then takes the lock it needs.  `register` is two (`Register` copies `latest`
and takes the id, `Registered` inserts the entry), `work` is two (`Ask`, `Serve`), `solution` is
four: `Post` copies `latest`, `Dedupe` inserts the key and compares, `Recheck` asks an endpoint
for the challenge, and `Send` is what comes after the simulation, the wait for `pending_lock` and
the allocation, when the challenge may be another.

**Publishing.**  `tokio::sync::watch` stores what is sent only while the channel has a receiver.
`StateWatcher::new` drops the first one.  A coordinator subscribes before it starts the watcher and
mirrors the channel for good; `standalone_mine` subscribes (`Subscribe`), waits for a state, and
drops its receiver with the block (`Unsubscribe`) before any device starts.  `current()` needs none.
So `Publish` stores only while `listening`, and a standalone device reads one state for ever (see
`frozen_state`).  `mode` says which of the two the process is.

**Lag.**  A call is answered from the head or from up to `Lag` epochs behind it (`Readable`),
each call of a poll on its own, and the next poll may be answered by another endpoint: what a
coordinator publishes may combine two epochs and may go back (`Publish` in `Coordinator`, whose
guard is what `OrderOfPublishing` proves of the watcher).  The recheck of the submitter reads from the
same endpoints.

**Transactions.**  The hash of a transaction is a function of nonce, fees and calldata; in
`Submitter` the calldata is the solution and the fees are a level (0 for the plan, one more
per bump), so `raw_tx_hash` is the level that was signed.  `GasPolicy` has the amounts.

**Network.**  `Broadcast` has the outcomes a caller of `broadcast_raw_tx` can see: some
endpoint takes it, all fail, or all fail with "nonce too low" among the errors; and what may
have happened meanwhile: an answer lost after the node accepted ("ghost"), an endpoint behind
the head that accepts a nonce already used ("lag").  `FaultKinds` names them; each run
chooses.

**PoW nonces.**  A prefix is identified by what it is computed from: 48 random bits (one draw
per `NonceAllocator::new`), device or sequence number, epoch and challenge.  Hash collisions of
`epoch_challenge_hash64` and equal random draws are left out.  A challenge is named by the
epoch it belongs to, so that a torn `WorkState` (epoch of one block, challenge of a later
one) can be told.  The counter of a coordinator's allocator counts batches, and all batches
from the bound `Batches` on are one (nobody uses up 2^64 counters).  A search covers its
batch in the CPU build; in the GPU build `mine_until` has no end, so it may come to every later
batch of its prefix (`Reach`).

**Endpoints.**  `RpcPool` keeps no positions: the sort puts the healthy endpoints first and
orders the others by latency, which is arbitrary, so a caller's copy is a set of endpoints
with those that were healthy.  `refresh_group` probes one endpoint after the other (`Probe`)
and then marks and sorts (`Apply`); `call` reads the list, and reads it a second time when
nobody was healthy (`ListAll`); each request to an endpoint is a step.

**History variables.**  `issued` (TxNonceManager), `high` (StandaloneMiner), `bound`, `rebound`,
`states`, `chances` and `sent` (Coordinator), `freshest`, `known` and `alive` (RpcPool) exist for
the properties only; no guard reads them.  `chances[c]` counts how often `SeenState` began anew
for the challenge `c` while it could be read: when the mirror takes the first state with `c`,
and each time it takes another epoch after that.

Definitions commented `Mutant` are variants of the definition below them with a plausible
mistake.  Nothing uses them; put in the place of the original they must break a property, which
shows that the property depends on the code.

## Runs

| run | cfg | bounds | checks |
|---|---|---|---|
| `nonce_manager` | `MCTxNonceManager` | 2 handlers, 2 solutions, small numbers of nonces and starts | type, `NoncesIncrease`, `IssuedIsDurable`, `RowsWrittenOnce`, `WaitersAreServed`, `ImplementsLedger` |
| `submitter` | `MCSubmitter` | 2 solutions, 2 nonces, 2 epochs, 1 bump, 1 failed write or 1 restart (`OneMisfortune`), list limit 2, every fault but cancellation | type, `WriteAhead`, `SuccessIsOnChain`, `ReplacedIsSettled`, `ConfirmationsBounded` |
| `pending_resolves` | `MCSubmitterLive` | 2 solutions, 2 nonces, 2 bumps, 1 restart, list limit 1, cancelled handlers | `OneBumpAhead`, `PendingResolves`, `ImplementsWalletLog` |
| `gas` | `MCGasPolicy` | 480 configurations, 12 bumps, `u128` cut to 200 000 | type, `TipWithinMaxFee`, `MaxFeeBounded`, `BumpRaisesTip`, `BumpNeverLowers` |
| `standalone` | `MCStandaloneMiner` | 1 device, GPU or CPU, or a coordinator's watcher; 3 epochs, 6 changes, counters up to 4 | type, `CpuNeverRepeats`, `HeadIsPublished`, `ImplementsFeed`, `OldTokenAborts`, `FindsAreSubmitted` |
| `cluster` | `MCCluster` | 1 GPU device with its poller, 2 epochs, 3 changes of the published state and 2 registrations in each of 2 lives of the coordinator, no lag | type, `UnknownReregisters`, `NewWorkNoticed`, `AllocatorSettles` |
| `registrations` | `MCRegistrations` | 2 devices of the CPU build, of 1 worker or of 2, 2 epochs, a lag of 1, 1 batch told apart, 1 life; `MCBound` | `SentOnce`, `WorkersSearchDisjoint`, `BatchesDisjoint`, `ImplementsSolutionLog`, `OldCopiesRunOut` |
| `rpc_pool` | `MCRpcPool` | 2 nodes, 1 endpoint of another chain, 1 caller, no lag allowed, 1 block, 2 outages | type, `FreshEnough`, `HealthyFirst`, `FailsTogether`, `FanoutReachesAll`, `Recovers` |
| `replaced`, `replacement_fees`, `frozen_state`, `gpu_ranges` | `MCReplaced`, `MCReplacement`, `MCFrozenState`, `MCGpuRanges` | as small as shows it | violated, see below |

**Why the bounds are enough to be interesting.**  Two solutions and two nonces are what
reorderings of settlement and "a hole blocks a later nonce" need; one bump lets a
replacement race its original, two let it race its own half-recorded predecessor
(`OneBumpAhead`).  A list limit of 1 keeps the lower of two pending rows off the list that
`list_pending` returns (the code's limit is 500), a limit of 2 is never reached.  In
`submitter` a behaviour has the failed write or the restart, each with all the faults of the network, not
both: with both the run takes twice as long and shows nothing else.  One restart at any point reaches every half-done allocation and
broadcast.  In `standalone` a dispatch may cover one or two counters and end beyond the batch; one
device suffices because devices share nothing but what they read from the watcher and the
channel, which is unbounded in the code (`MaxQueue` bounds it).  The initial state chooses the mode: a
coordinator's watcher has no devices here, they are the workers of `Cluster`.  In `cluster` one device
already is two concurrent callers, and a restart with two ids per life lets an old id meet a new
entry; the published state may change three times, so it may be torn (the epoch of one block, the challenge of
the next) before it is whole again; batches and solutions are left to `registrations`.  There the
published state may go back by the lag, which is what repeats solutions and batches.  Two devices
share a worker or not (`owner` is chosen in the initial state), register, race for batches, find the
same challenge's solutions and post them while the epoch changes; one batch is told apart
from the rest, enough for an allocator that starts over to hand it out twice.  All of it at once
is too much for TLC, so `MCBound` cuts the run in two: one worker with both devices registers once
and sees the state change three times (there and back), or two workers with one device each register
and see it change once.  The proofs need no such cut.  In `rpc_pool` two
nodes of the right chain are what failover and lag between probes need, the third endpoint is
foreign and may be ahead; `MaxLag` 0 makes one block a lag, two outages let both nodes be
down together or one go down twice; the caller may be any of many, as callers share nothing but the
list they read.  `MaxU` in `gas` is small enough that bumping saturates.

**Deadlock** is not checked: bounds on epochs, nonces, tokens and restarts make every model
stop where the program would go on.

**Fairness.**  Threads and tokio tasks keep running (WF of their steps) and RPC and HTTP calls
return (both clients have timeouts).  `SF` is assumed in four places: tokio's mutex is FIFO,
so a caller of `allocate` that finds it free again and again gets it; not every poll of
the watcher fails; not every `/work` call of a device loop and not every call of a poller is
lost.  Of `/register` it is only assumed that its handler comes to an end: the entry is made, with or
without an answer, or the handler is dropped.  In `Submitter` the chain mines a transaction that is
next and in the pool (WF of `Mine`); in `RpcPool` nodes follow their chain and come back, and the
health loop goes on, as each probe has a timeout.  Nothing is assumed about faults, cancellations,
finds, restarts or `pending_lock` (a waiter may be overtaken).

**Conditions of the liveness properties.**  `PendingResolves` excludes rows behind a nonce
nobody will send (an allocation that failed after the counter was committed, a broadcast that failed and
was marked failed): the code has no way to fill such a hole.  It also excludes a row that is
kept off the list by rows above it whose bumps are used up (`BumpedOut`): neither loop looks at it, so
if its transaction leaves the pools nobody signs it again.  `HeadIsPublished` is about a
coordinator's channel.  `UnknownReregisters` allows that no id is left: with every answer to
`/register` lost the worker would use up any bound on ids.  `NewWorkNoticed` speaks of rounds in which
the poller's memory agrees with what is mined, no more: when the poller notes newer work between
the device loop's own note and its reading of the token (`worker.rs:304-305`), the bump is swallowed,
later answers agree with the memory, and the old work is mined until the state changes once more or a
nonce is found.  `OldTokenAborts` says that a device stops, not that what it takes up next is newer:
standalone it is the same frozen state.  `Recovers` excepts an endpoint
of another chain further ahead than the lag allows: `freshest` is the maximum over all that answered
(`rpc_pool.rs:109`), so nobody is healthy and calls fall back to all endpoints.

**Conditions of the safety properties.**  `WorkersSearchDisjoint` is about one life of the
coordinator: after a restart ids start at w1 again (`coordinator.rs:360`) while workers keep
old ones until they are told, so two workers may be served from one entry.  `BatchesDisjoint`
excepts prefixes an allocator was bound to a second time (`rebound`), by a handler with an old copy
of `latest` or because the published state itself went back: its counter starts over, and the
batches are handed out again.  `OldCopiesRunOut` and `AllocatorSettles` say that old copies come to an
end while `latest` stays.  `SentOnce` allows one send for each time `SeenState` began anew while the
challenge could be read: more than one only for a challenge that was published under several epochs
(a torn poll) or that a lagging endpoint brought back.  `SuccessIsOnChain` and `ReplacedIsSettled` say
that these two statuses were earned when they were written; they do not say that a mined transaction
is marked so.  A status may be overwritten by a later writer, and `failed` is written when a
broadcast's answers are lost though the transaction is out (`submitter.rs:196`).  `TipWithinMaxFee`
excepts the plan of a configuration with its tip above its cap, which `config.rs:98-99` does not
exclude.

## Proofs

TLC shows the properties for the instances above; these hold for all values of the
constants allowed by the named assumptions.

| theorem | property | module |
|---|---|---|
| `TypeCorrectness`, `NoncesNeverReused`, `AllocationDurable`, `RowsNeverOverwritten`, `MutexNeverLeaks`, `Refinement` | `TypeOK`, `NoncesIncrease`, `IssuedIsDurable`, `RowsWrittenOnce`, `MutexIsTheCallers`*, `ImplementsLedger` | `TxNonceManagerProofs` |
| `TypeCorrectness`, `WriteAheadLogging`, `BumpsAreRecorded`, `SuccessIsTrue`, `ReplacedIsTrue`, `ConfirmationsCounted`, `ListIsComplete`, `Refinement` | `TypeOK`, `WriteAhead`, `OneBumpAhead`, `SuccessIsOnChain`, `ReplacedIsSettled`, `ConfirmationsBounded`, (a fact about `Listed`)*, `ImplementsWalletLog` | `SubmitterProofs` |
| `TypeCorrectness`, `TipPayable`, `FeesAreCapped`, `BumpsMakeProgress`, `BumpsAreMonotone`, `MaxFeeAtCap`, `MaxFeeRaisedByTip` | `TypeOK`, `TipWithinMaxFee`, `MaxFeeBounded`, `BumpRaisesTip`, `BumpNeverLowers`, `MaxFeePinned`*, `RaisedByTipOnly`* | `GasPolicyProofs` |
| `TypeCorrectness`, `CpuSearchesOnce`, `Refinement`, `CoordinatorKeepsUp`, `StandaloneFreezes`, `OrderOfPublishing` | `TypeOK`, `CpuNeverRepeats`, `ImplementsFeed`, `MirrorSourceIsNewest`*, `FrozenOnceStarted`*, `PublishedInOrder`* | `StandaloneMinerProofs` |
| `TypeCorrectness`, `SolutionsSentOnce`, `RangesDisjoint`, `BatchesHandedOutOnce`, `OldCopiesAreUsedUp`, `Refinement` | `TypeOK`, `SentOnce`, `WorkersSearchDisjoint`, `BatchesDisjoint`, `OldCopiesRunOut`, `ImplementsSolutionLog` | `ClusterProofs` |
| `TypeCorrectness`, `AnswersAreFresh`, `FailoverInOrder`, `FailsOnlyTogether`, `FanoutComplete` | `TypeOK`, `FreshEnough`, `HealthyFirst`, `FailsTogether`, `FanoutReachesAll` | `RpcPoolProofs` |

A star marks what is proved and in no run's cfg.

Assumptions: `TxNonceManager` needs `None` to be neither a solution nor a handler and the
bounds to be naturals; `Submitter` the same of `Chain`'s constants, and a
list limit above 0; `GasPolicy` that a configuration without an override has a gas cap not below
200 000 (`plan_gas` panics otherwise) and that configured fees fit in a `u128`, nothing about its
tip and its cap; `StandaloneMiner` that batches and dispatches are not empty;
`Cluster` that the devices are finitely many; `RpcPool` that there is an endpoint and that they
are finitely many.  Elsewhere `None` must differ from what it stands in for.

**Nonce manager.**  `NoncesIncrease` is not inductive: it must be known that the ticket of a
caller in the middle of `allocate` is above everything issued, that no row lies at or above
the stored counter, and that memory is never behind the disk while the process is up.  `HolderInv`,
`RowsInv`, `CounterInv` and `IssuedBelowTicket` say so; `IInv` adds types.  The stored counter
carries the argument across a crash, which is why the counts read from the chain may be
arbitrarily wrong.  `RowsWrittenOnce` and the refinement follow from `IInv` step by step: only
`InsertRow` is a step of the ledger, booking and issuing at once.  `MutexIsTheCallers` is the safety
half of `WaitersAreServed`: whoever waits, waits for a caller that is still at work.

**Submitter.**  `IInv` adds to the safety properties: rows exist only below both counters
(`RowsBelowCounter`); a handler with a ticket has its row, with its solution
(`TicketsHaveRows`); a receipt about to be recorded is on chain
(`WatcherInv`); an item of the replacement loop has its row, with a fee not above the row's, and
an item answered "nonce too low" is settled (`ReplacerInv`); what is on chain or in a pool is
consistent with the rows and the count (`LedgerInv`).  The rows' solutions never change, which
makes write-ahead survive every interleaving of the three writers; their statuses do change, in
any order.  `success` and `replaced` are true because their writers have seen on chain what they
write; `failed` need not be (`RecordFailure` writes it when no answer to a broadcast arrived), and
nothing is proved of it.  None of it depends on
which rows a list shows; `ListIsComplete` says which: all of them up to the limit, and beyond it the
highest nonces, so that the rows missing are the ones whose turn on chain comes first.

**Gas.**  `GasInv` is inductive.  The facts about `Raised` (monotone, at least the old fee
short of saturation) are lemmas about `\div`.  `MaxFeePinned` and `RaisedByTipOnly` generalise the
finding `replacement_fees` to all configurations: unless `cap * (100 + percent)` overflows, a plan's
max fee is the cap, whatever base fee, estimate and multiplier say, and after replacements it is the
cap, or the tip where that has outgrown it.  So a percentage raises the max fee only by raising the
tip above the cap, and then just to the tip.  Only a late bump exceeds both, and the first
replacement takes that back.

**Confirmations.**  `ConfirmationsBounded` compares a counter with a cardinality.  `CountedInv`
leaves out of the set the nonces that may still be counted (their row is pending, or the
watcher holds them from when it was): recording a receipt moves one nonce into the set,
or fails and moves `dbErrors`.  It needs that rows never become pending again, and that a
round of the watcher visits a nonce once.

**Standalone miner.**  Watcher, devices and consumer share three variables, so `IInv` says little
of each: between polls nothing is left over, only a compared state awaits publication, and a
coordinator's channel holds the newest state (`WatcherInv`); a device has what its label uses
(`Equipped`); whoever looked was started (`FindsHaveState`); what the CPU loop tried ends below the
allocator's next batch (`CpuWithinBatch`).  `WatcherInv` is also what makes `Compare` and `Publish`
steps of `StateFeed`, where sending is `Show` or `Miss`.  `MirrorSourceIsNewest` and
`FrozenOnceStarted` are the two halves of `CurrentIsNewest`: with a lasting receiver it holds, and once
a standalone process has dropped its receiver the published state never changes again, for want of a
step that would store one.  `PublishedInOrder` is the contract between this component and the next:
`Publish` of `Coordinator` has it as its guard, and `OrderOfPublishing` proves it of the watcher,
whatever the calls of a poll return: nothing from the future, and nothing further back than the lag.
That the two fit together is read off the two formulas; the modules are not composed.

**Cluster.**  Every copy of `latest` in some handler is a state published in this life, and none is
ahead of the contract (`StatesInv`); an id that was taken is nobody else's until its entry is made
(`RegInv`); ids of this life only grow, and each is used by one worker, whatever registrations were
lost (`IdInv`).  A batch that is out lies behind its allocator's counter, or belongs to a state the
allocator has left (`Behind`); the histories know of every binding (`BoundInv`), so a return to that
state is noted in `rebound`, and short of that the batch is not handed out again.  For `SentOnce`: a
challenge that can still be read has been counted by the time a handler holds a state with it
(`ChanceInv`); the sends of a solution so far and the handlers past the recheck with it are at most
the chances of its challenge, and while the challenge can be read so are these together with the
handlers before the recheck, and one more if its key is not in `seen` (`SentInv`).  Clearing `seen`
while the challenge can be read gives one more chance and makes one more send possible; a handler that
comes to the recheck after the challenge is gone is stopped there.  The refinement of `SolutionLog`
rests on the same invariants, and a crash of the coordinator is the log's `Restart`.
`OldCopiesRunOut` is the ranking argument behind `AllocatorSettles`: while `latest` stays, the handlers
of `register` and `work` with an old copy only become fewer, and an allocator is bound to what is not
`latest` only by one of them that ends with it.  That handlers end at all is fairness and left to TLC.

**RPC pool.**  Blocks only grow, so a healthy endpoint is no further behind now than when it
was probed (`HealthInv`), and a caller's copy is judged against the freshest block of the
refresh it saw; whoever was asked in vain was down in the meantime or is foreign
(`AskedInv`).  `HealthyFirst` holds across any number of refreshes because copy, order and the
marks it is sorted by are taken under one lock, the second time too, when endpoints may have become
healthy again (`CopyInv`).

Out of the prover's reach and only model-checked: all liveness properties (`WaitersAreServed`,
`PendingResolves`, `HeadIsPublished`, `OldTokenAborts`, `FindsAreSubmitted`, `UnknownReregisters`,
`NewWorkNoticed`, `AllocatorSettles`, `Recovers`).  Every other property a passing run checks
is proved.

## Disagreements found

Each is a run that must end in a violation.

- `replaced`: README.md:340-342 explains "nonce too low" by another process; the loop also
  marks the wallet's own mined transaction `replaced` (`submitter.rs:353`), and its success is
  never recorded.
- `replacement_fees`: README.md:344-351 advises `FEE_BUMP_PERCENT=20` and `GAS_MODE=turbo` against
  underpriced replacements; the max fee is planned at the cap and stays there until the tip exceeds it
  (`gas.rs:27,38`), so the percentage alone does not raise it.  `GAS_MODE=turbo` raises the cap for
  what a restarted process replaces; a configuration that changes during the life of a transaction is
  not modelled.
- `frozen_state`: `main.rs:380-384` logs "rebound nonce allocator for new epoch/challenge" whenever the
  token moved, and README.md:364-370 advises faster polling against stale challenges.  Standalone, the
  channel has no receiver by then (`state_watcher.rs:22`, `main.rs:250-261`), `send` fails, its error is
  dropped (`state_watcher.rs:84`), and the devices mine the first challenge again under every new token.
- `gpu_ranges`: README.md:115 promises disjoint ranges and README.md:137 puts the device into
  the prefix; all GPUs of a worker fetch work under its one id (`worker.rs:100,273`), and as
  `mine_until` runs past its batch, one GPU searches what another was handed.

Seen while reading, without a run: `config.rs:58` says the late bump applies when `blocks_left <
late_epoch_threshold_blocks`, `submitter.rs:168` has `<=`.  A confirmation is counted again
when its status could not be written (`submitter.rs:256-260`); `ConfirmationsBounded` shows that
this is the only way.  `freshest` includes endpoints of a wrong chain (`rpc_pool.rs:109`).  Old
worker ids are handed out again after a restart of the coordinator (`coordinator.rs:360`).

## What is not modelled

- `best_read_url` of the RPC pool (it has no caller) and the decoding of answers.  `Submitter`,
  `StateWatcher` and `TxNonceManager` are not composed with `RpcPool`: they see the outcomes of
  its calls (`Broadcast`, `Readable`, the counts at boot), any of which `RpcPool` can produce; the
  product of the state spaces would be out of reach.
- Heartbeats (the collector may drop any entry at any time, which is more than the code does),
  the reports of health and workers, the bearer token.
- Chain reorganisations: a mined transaction stays mined, the contract's epoch and a node's blocks
  only grow.  The code does not look back either: a row that is no longer pending is not read again.
- Device loops that end: when a GPU fails (`worker.rs:402`, `main.rs:345-358,398`) or, in the CPU build,
  when an answer of the coordinator does not parse (`worker.rs:498-500`), the loop returns and the
  worker's other devices go on.  Answers that do not parse in the GPU build (`worker.rs:306-327`) are
  left out as well.
- A change of configuration during the life of a transaction.
- Power loss: with `synchronous=NORMAL` it may undo commits; the models take them as durable, which
  is true of a crash of the process.  Migrations of old database files.
- The wrap of the 64-bit counters and collisions of hashes and random draws.
- Hashing, ABI encoding, the kernel, configuration, metrics, reports, scripts: pure functions and
  formatting, without state a model could explore.

## Plan

Order of work, most important behaviour first; all of it is done but the last item.

1. `TxNonceManager` against `NonceLedger`, with proofs.
2. `Submitter` over `Chain`, against `WalletLog`, with proofs.
3. `GasPolicy`, with proofs.
4. `StateWatcher` against `StateFeed`, `StandaloneMiner`, with proofs.
5. `Coordinator` and `Cluster` with allocators, several devices per worker and both builds, with
   proofs.
6. `RpcPool`, with proofs.
7. The disagreements above as runs.
8. The `LIMIT` of `list_filtered` in `Submitter`; `SolutionLog` and the refinement to it; what
   `StateWatcher` owes `Coordinator`; the gas finding for every configuration.
9. The channel without receivers, the published state that goes back, the awaits inside `register` and
   between recheck and sending.
10. Left: a store that can lose its last commits; device loops that end; a restart with another
    configuration.

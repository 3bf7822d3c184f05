------------------------------- MODULE RpcPool -------------------------------
(***************************************************************************)
(* rpc_pool.rs: one group of endpoints (`read` and `submit` are two), the  *)
(* health loop that probes them one after the other and then marks and     *)
(* sorts them, and the callers that copy the group and work through their  *)
(* copy: `call` until an endpoint answers, broadcast_raw_tx to the end.    *)
(* The sort puts the healthy ones first; latencies, arbitrary here, decide *)
(* among the others, so no positions are kept.                             *)
(* An endpoint is one node whose block number only grows; one that is      *)
(* unreachable, times out or answers with an error is "down".              *)
(***************************************************************************)
EXTENDS Integers, FiniteSets

CONSTANTS
  Endpoints,
  Foreign,      \* endpoints configured by mistake: another chain id
  Callers,      \* tasks that use the pool
  MaxLag,       \* AppConfig.rpc_max_block_lag
  MaxBlock,     \* bound on block numbers of the right chain
  MaxOutages,   \* bound: how often an endpoint goes down
  None

ASSUME PoolAssumption ==
  /\ IsFiniteSet(Endpoints) /\ Endpoints # {} /\ Foreign \subseteq Endpoints
  /\ MaxLag \in Nat /\ MaxBlock \in Nat /\ MaxOutages \in Nat
  /\ None \notin Endpoints /\ None \notin Int

VARIABLES
  height,    \* external: eth_blockNumber of each endpoint
  down,      \* external: endpoints that do not answer
  outages,   \* outages so far
  healthy,   \* endpoints with health.healthy
  booted,    \* make_pool has returned: its own refresh is over
  probing,   \* refresh_group: endpoints still to be probed; {} while it sleeps
  found,     \* refresh_group: updates, a block number or None for an error
  freshest,  \* history: the freshest block of the last refresh
  at,        \* where a caller is
  kind,      \* "call" or "broadcast"
  todo,      \* its copy of the group: endpoints not asked yet
  usable,    \* those that were healthy when it copied
  known,     \* history: freshest at that time
  alive,     \* history: those of the copy that never went down since
  answer,    \* the endpoint whose answer it returns, None for an error
  block,     \* the block that answer is from
  reached    \* endpoints that took the transaction it broadcasts

network == <<height, down, outages>>
group == <<healthy, booted, probing, found, freshest>>
callers == <<at, kind, todo, usable, known, alive, answer, block, reached>>
vars == <<network, group, callers>>

\* The other chain is one block beyond what the lag allows, or not ahead at all.
Blocks == 0..(MaxBlock + MaxLag + 1)
Own == Endpoints \ Foreign

TypeOK ==
  /\ height \in [Endpoints -> Blocks] /\ down \subseteq Endpoints
  /\ outages \in 0..MaxOutages
  /\ healthy \subseteq Endpoints /\ booted \in BOOLEAN
  /\ probing \subseteq Endpoints /\ found \in [Endpoints -> Blocks \cup {None}]
  /\ freshest \in Blocks
  /\ at \in [Callers -> {"idle", "empty", "asking", "done"}]
  /\ kind \in [Callers -> {"call", "broadcast"}]
  /\ todo \in [Callers -> SUBSET Endpoints]
  /\ usable \in [Callers -> SUBSET Endpoints] /\ known \in [Callers -> Blocks]
  /\ alive \in [Callers -> SUBSET Endpoints]
  /\ answer \in [Callers -> Endpoints \cup {None}] /\ block \in [Callers -> Blocks]
  /\ reached \in [Callers -> SUBSET Endpoints]

\* Endpoint::new: healthy until the first refresh, which make_pool awaits.
Init ==
  /\ height \in {h \in [Endpoints -> {0, MaxBlock + MaxLag + 1}] : \A e \in Own : h[e] = 0}
  /\ down = {} /\ outages = 0
  /\ healthy = Endpoints /\ booted = FALSE
  /\ probing = Endpoints /\ found = [e \in Endpoints |-> None] /\ freshest = 0
  /\ at = [c \in Callers |-> "idle"]
  /\ kind = [c \in Callers |-> "call"]
  /\ todo = [c \in Callers |-> {}]
  /\ usable = [c \in Callers |-> {}]
  /\ known = [c \in Callers |-> 0]
  /\ alive = [c \in Callers |-> {}]
  /\ answer = [c \in Callers |-> None]
  /\ block = [c \in Callers |-> 0]
  /\ reached = [c \in Callers |-> {}]

-----------------------------------------------------------------------------
(* The network *)

NewBlock(e) ==
  /\ e \in Own /\ height[e] < MaxBlock
  /\ height' = [height EXCEPT ![e] = @ + 1]
  /\ UNCHANGED <<down, outages, group, callers>>

GoDown(e) ==
  /\ e \notin down /\ outages < MaxOutages
  /\ down' = down \cup {e}
  /\ outages' = outages + 1
  /\ alive' = [c \in Callers |-> alive[c] \ {e}]
  /\ UNCHANGED <<height, group, at, kind, todo, usable, known, answer, block, reached>>

Recover(e) ==
  /\ e \in down
  /\ down' = down \ {e}
  /\ UNCHANGED <<height, outages, group, callers>>

-----------------------------------------------------------------------------
(* refresh_group, called by make_pool and then by the health loop for ever.  *)

(* Mutant: sorted by latency alone. *)
FirstByLatency(e, S, h) == e \in S

\* sort_by_key of (unhealthy, latency): e may come first among the endpoints S when
\* those in h are healthy.
IsFirst(e, S, h) == e \in S /\ (e \in h \/ S \cap h = {})

\* check_url, without a lock held: blocks and outages go on meanwhile.
Probe ==
  /\ \E e \in probing :
        /\ IsFirst(e, probing, healthy)
        /\ found' = [found EXCEPT ![e] = IF e \in down THEN None ELSE height[e]]
        /\ probing' = probing \ {e}
  /\ UNCHANGED <<network, healthy, booted, freshest, callers>>

Answered(f) == {e \in Endpoints : f[e] # None}

(* Mutant: the block being built is counted too. *)
FreshestPending(f) ==
  1 + CHOOSE b \in Blocks : /\ b = 0 \/ \E e \in Answered(f) : f[e] = b
                            /\ \A e \in Answered(f) : f[e] <= b

\* The highest block number among all that answered, those of another chain included.
Freshest(f) ==
  CHOOSE b \in Blocks : /\ b = 0 \/ \E e \in Answered(f) : f[e] = b
                        /\ \A e \in Answered(f) : f[e] <= b

(* Mutant: the operands of the subtraction are swapped, it saturates at zero. *)
FitAhead(f) ==
  {e \in Answered(f) \ Foreign : f[e] - Freshest(f) <= MaxLag}

\* Who is healthy after a refresh: answered, right chain, not lagging.
Fit(f) == {e \in Answered(f) \ Foreign : Freshest(f) - f[e] <= MaxLag}

(* Mutant: who was unhealthy stays so. *)
ApplyToHealthy ==
  /\ probing = {}
  /\ healthy' = healthy \cap Fit(found)
  /\ freshest' = Freshest(found)
  /\ booted' = TRUE
  /\ probing' = Endpoints
  /\ found' = [e \in Endpoints |-> None]
  /\ UNCHANGED <<network, callers>>

\* With the group's lock held: mark, sort; after a sleep the next round begins.
Apply ==
  /\ probing = {}
  /\ healthy' = Fit(found)
  /\ freshest' = Freshest(found)
  /\ booted' = TRUE
  /\ probing' = Endpoints
  /\ found' = [e \in Endpoints |-> None]
  /\ UNCHANGED <<network, callers>>

-----------------------------------------------------------------------------
(* Callers *)

\* The group, or its healthy part, is copied under the read lock.
Copy(c, S) ==
  /\ todo' = [todo EXCEPT ![c] = S]
  /\ usable' = [usable EXCEPT ![c] = healthy]
  /\ known' = [known EXCEPT ![c] = freshest]
  /\ alive' = [alive EXCEPT ![c] = S \ down]
  /\ at' = [at EXCEPT ![c] = "asking"]

Unasked == <<answer, block, reached>>

\* broadcast_raw_tx falls back to all endpoints under the same lock ...
Start(c, k) ==
  /\ at[c] = "idle" /\ booted
  /\ kind' = [kind EXCEPT ![c] = k]
  /\ \/ healthy # {} /\ Copy(c, healthy)
     \/ healthy = {} /\ k = "broadcast" /\ Copy(c, Endpoints)
     \/ /\ healthy = {} /\ k = "call"
        /\ at' = [at EXCEPT ![c] = "empty"]
        /\ UNCHANGED <<todo, usable, known, alive>>
  /\ UNCHANGED <<network, group, Unasked>>

\* ... `call` takes it again: a refresh may have come in between.
ListAll(c) ==
  /\ at[c] = "empty"
  /\ Copy(c, Endpoints)
  /\ UNCHANGED <<network, group, kind, Unasked>>

Asks(c, k, e) == at[c] = "asking" /\ kind[c] = k /\ IsFirst(e, todo[c], usable[c])

\* The endpoint is done with; the last one ends the call.
Next1(c, e) ==
  /\ todo' = [todo EXCEPT ![c] = @ \ {e}]
  /\ at' = [at EXCEPT ![c] = IF todo[c] = {e} THEN "done" ELSE @]

Copied == <<kind, usable, known, alive>>

\* call_url returns: the first answer is the result.
Answer(c, e) ==
  /\ Asks(c, "call", e) /\ e \notin down
  /\ answer' = [answer EXCEPT ![c] = e]
  /\ block' = [block EXCEPT ![c] = height[e]]
  /\ at' = [at EXCEPT ![c] = "done"]
  /\ UNCHANGED <<network, group, Copied, todo, reached>>

(* Mutant: an error is returned at once. *)
FailFast(c, e) ==
  /\ Asks(c, "call", e) /\ e \in down \cup Foreign
  /\ at' = [at EXCEPT ![c] = "done"]
  /\ UNCHANGED <<network, group, Copied, todo, Unasked>>

\* An error: on to the next.  Another chain may not know the contract.
Fail(c, e) ==
  /\ Asks(c, "call", e) /\ e \in down \cup Foreign
  /\ Next1(c, e)
  /\ UNCHANGED <<network, group, Copied, Unasked>>

(* Mutant: the first endpoint that takes it is enough. *)
TakeFirst(c, e) ==
  /\ Asks(c, "broadcast", e) /\ e \in Own \ down
  /\ reached' = [reached EXCEPT ![c] = @ \cup {e}]
  /\ answer' = [answer EXCEPT ![c] = e]
  /\ at' = [at EXCEPT ![c] = "done"]
  /\ UNCHANGED <<network, group, Copied, todo, block>>

\* eth_sendRawTransaction of a transaction the nodes take, or have already; the
\* answer may be lost.  (Chain.tla has the refusals.)
Take(c, e) ==
  /\ Asks(c, "broadcast", e) /\ e \in Own \ down
  /\ reached' = [reached EXCEPT ![c] = @ \cup {e}]
  /\ \/ answer' = [answer EXCEPT ![c] = IF @ = None THEN e ELSE @]
     \/ UNCHANGED answer
  /\ Next1(c, e)
  /\ UNCHANGED <<network, group, Copied, block>>

Refuse(c, e) ==
  /\ Asks(c, "broadcast", e) /\ e \in down \cup Foreign
  /\ Next1(c, e)
  /\ UNCHANGED <<network, group, Copied, Unasked>>

\* The result is used; what the call held is gone.
Return(c) ==
  /\ at[c] = "done"
  /\ at' = [at EXCEPT ![c] = "idle"]
  /\ kind' = [kind EXCEPT ![c] = "call"]
  /\ todo' = [todo EXCEPT ![c] = {}]
  /\ usable' = [usable EXCEPT ![c] = {}]
  /\ known' = [known EXCEPT ![c] = 0]
  /\ alive' = [alive EXCEPT ![c] = {}]
  /\ answer' = [answer EXCEPT ![c] = None]
  /\ block' = [block EXCEPT ![c] = 0]
  /\ reached' = [reached EXCEPT ![c] = {}]
  /\ UNCHANGED <<network, group>>

CallerStep(c) ==
  \/ \E k \in {"call", "broadcast"} : Start(c, k)
  \/ ListAll(c) \/ Return(c)
  \/ \E e \in Endpoints : Answer(c, e) \/ Fail(c, e) \/ Take(c, e) \/ Refuse(c, e)

HealthLoop == Probe \/ Apply

Next ==
  \/ HealthLoop
  \/ \E c \in Callers : CallerStep(c)
  \/ \E e \in Endpoints : NewBlock(e) \/ GoDown(e) \/ Recover(e)

Spec == Init /\ [][Next]_vars

\* The loop goes on (probes time out); nodes follow their chain and come back.
Fairness ==
  /\ WF_vars(HealthLoop)
  /\ \A e \in Endpoints : WF_vars(NewBlock(e)) /\ WF_vars(Recover(e))

FairSpec == Spec /\ Fairness
-----------------------------------------------------------------------------
\* Outages are bounded in the model, blocks too: in the end every node of the right
\* chain is up and level.  Then each is healthy for good, unless an endpoint of
\* another chain, further ahead than the lag allows, makes them all look behind.
Recovers ==
  <>[](Own \subseteq healthy \/ \E f \in Foreign : height[f] > MaxBlock + MaxLag)

\* What a caller reads from an endpoint it took for healthy is of the right chain and
\* at most MaxLag blocks older than what the pool had seen when the caller looked,
\* although endpoints may have stalled since they were probed.
FreshEnough ==
  \A c \in Callers :
     at[c] = "done" /\ kind[c] = "call" /\ answer[c] \in usable[c]
        => answer[c] \notin Foreign /\ known[c] - block[c] <= MaxLag

\* An unhealthy endpoint answers only when the healthy ones of the copy have failed,
\* also when they became healthy between the two looks at the group.
HealthyFirst ==
  \A c \in Callers :
     at[c] = "done" /\ kind[c] = "call" /\ answer[c] # None /\ answer[c] \notin usable[c]
        => usable[c] \cap alive[c] = {}

\* A call fails only if every endpoint it could ask was down at some time meanwhile.
FailsTogether ==
  \A c \in Callers :
     at[c] = "done" /\ kind[c] = "call" /\ answer[c] = None => alive[c] \subseteq Foreign

\* When a broadcast ends, every node of the right chain in its copy that stayed up has
\* the transaction, and one that is said to have taken it has.
FanoutReachesAll ==
  \A c \in Callers :
     at[c] = "done" /\ kind[c] = "broadcast"
        => alive[c] \ Foreign \subseteq reached[c] /\ answer[c] \in reached[c] \cup {None}
-----------------------------------------------------------------------------
(* The inductive invariant of RpcPoolProofs.                               *)

\* A node is no further behind now than when it was probed, for blocks only grow.
HealthInv ==
  /\ \A e \in Answered(found) : found[e] <= height[e]
  /\ booted => healthy \subseteq Own /\ \A e \in healthy : freshest - height[e] <= MaxLag

\* Whoever was asked in vain has been down, or is foreign, or took the broadcast.
AskedInv(c) ==
  /\ kind[c] = "call" /\ answer[c] = None => alive[c] \ todo[c] \subseteq Foreign
  /\ kind[c] = "call" /\ at[c] = "asking" => answer[c] = None
  /\ kind[c] = "broadcast" => /\ alive[c] \ todo[c] \subseteq reached[c] \cup Foreign
                              /\ answer[c] \in reached[c] \cup {None}
  /\ at[c] = "done" => todo[c] = {} \/ (kind[c] = "call" /\ answer[c] # None)

CopyInv(c) ==
  /\ at[c] # "idle" => booted
  /\ at[c] \in {"idle", "empty"} => /\ todo[c] = {} /\ alive[c] = {} /\ answer[c] = None
                                    /\ reached[c] = {}
  /\ usable[c] \subseteq Own /\ \A e \in usable[c] : known[c] - height[e] <= MaxLag
  /\ alive[c] \cap down = {}

IInv ==
  /\ TypeOK /\ HealthInv /\ FreshEnough /\ HealthyFirst
  /\ \A c \in Callers : AskedInv(c) /\ CopyInv(c)
=============================================================================

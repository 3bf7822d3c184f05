----------------------------- MODULE Coordinator -----------------------------
(***************************************************************************)
(* coordinator.rs: the state its HTTP handlers share, the task that        *)
(* mirrors the watch channel into `latest`, the garbage collector of       *)
(* worker entries, and the atomic parts of the handlers.  Cluster.tla puts *)
(* the parts of a handler together and lets workers call it.  All of this  *)
(* state is lost when the coordinator restarts.                            *)
(***************************************************************************)
EXTENDS Integers, FiniteSets

CONSTANTS
  Batches,    \* bound: batches of an allocator that are told apart
  Winning,    \* those in which there is a solution
  Lag,        \* how many epochs an endpoint that answers may be behind the head
  MaxEpoch,   \* bound on epochs
  MaxChanges, \* bound on changes of the published state in one life
  MaxSeq,     \* bound on registrations in one life of the coordinator
  MaxLives,   \* bound on its lives
  None        \* no value

VARIABLES
  head,       \* external: the contract's epoch; each epoch has its challenge
  life,       \* how often the coordinator was started
  published,  \* the watch channel's value
  changes,    \* how often it changed in this life, for the bound
  mirroring,  \* the value the mirror task cleared `seen` for and will write
  latest,     \* CoordinatorApp.latest
  seen,       \* SeenState: [epoch, keys]
  entries,    \* CoordinatorApp.workers: the allocator of an id's entry
  seq,        \* next_worker_seq
  bound,      \* history: the prefixes that allocators were bound to, and those they
  rebound,    \* were bound to again later (kept only where batches are told apart)
  states,     \* history: the states published in this life
  chances,    \* history: how often SeenState began anew while a challenge could be read
  sent        \* history: how often a solution was sent in this life

coordVars == <<head, life, published, changes, mirroring, latest, seen, entries, seq, bound,
               rebound, states, chances, sent>>
bindings == <<bound, rebound>>
histories == <<bindings, states, chances, sent>>

Epochs == 0..MaxEpoch
Ids == 1..MaxSeq
Lives == 1..MaxLives

\* A challenge is named by the epoch it belongs to; the epoch a state was polled with
\* may be another.
WorkState == [epoch : Epochs, challenge : Epochs]

\* NonceAllocator: a counter of 64 bits within a prefix, counted in batches here; the
\* batches after the first few are one, as 2^64 counters are never used up.
Counters == 0..Batches
Alloc == [state : WorkState, next : Counters]

\* A PoW nonce: the prefix holds the random bits of the allocator of an entry and
\* the hash of epoch and challenge; one counter of a batch may be a solution.
Prefix == [id : Ids, life : Lives, state : WorkState]
Solution == [prefix : Prefix, nonce : Counters]

ASSUME CoordinatorAssumption ==
  /\ Batches \in Nat /\ Lag \in Nat /\ MaxEpoch \in Nat /\ MaxChanges \in Nat
  /\ MaxSeq \in Nat /\ MaxLives \in Nat \ {0}
  /\ Winning \subseteq Counters
  /\ None \notin WorkState \cup Ids \cup Alloc

CoordTypeOK ==
  /\ head \in Epochs /\ life \in Lives
  /\ published \in WorkState \cup {None} /\ changes \in 0..MaxChanges
  /\ mirroring \in WorkState \cup {None}
  /\ latest \in WorkState \cup {None}
  /\ seen \in [epoch : Epochs, keys : SUBSET Solution]
  /\ entries \in [Ids -> Alloc \cup {None}]
  /\ seq \in 0..MaxSeq
  /\ bound \subseteq Prefix /\ rebound \subseteq bound
  /\ states \subseteq WorkState
  /\ chances \in [Epochs -> Nat]
  /\ DOMAIN sent \subseteq Solution /\ \A s \in DOMAIN sent : sent[s] \in Nat

HasEntry(id) == entries[id] # None

\* What an eth_call of the contract may answer.
Readable == {e \in Epochs : e <= head /\ head <= e + Lag}

Fresh ==
  /\ published' = None /\ changes' = 0 /\ mirroring' = None /\ latest' = None
  /\ seen' = [epoch |-> 0, keys |-> {}]
  /\ entries' = [id \in Ids |-> None] /\ seq' = 0
  /\ states' = {} /\ chances' = [c \in Epochs |-> 0] /\ sent' = [s \in {} |-> 0]

CoordInit ==
  /\ head = 0 /\ life = 1
  /\ published = None /\ changes = 0 /\ mirroring = None /\ latest = None
  /\ seen = [epoch |-> 0, keys |-> {}]
  /\ entries = [id \in Ids |-> None] /\ seq = 0
  /\ bound = {} /\ rebound = {}
  /\ states = {} /\ chances = [c \in Epochs |-> 0] /\ sent = [s \in {} |-> 0]

-----------------------------------------------------------------------------
NewEpoch ==
  /\ head < MaxEpoch
  /\ head' = head + 1
  /\ UNCHANGED <<life, published, changes, mirroring, latest, seen, entries, seq, histories>>

\* The watcher of StateWatcher.tla, whose channel run has subscribed to for good: a poll
\* may combine two blocks, and endpoints that lag may take it back to what it showed
\* before (PublishedInOrder).
Publish ==
  /\ changes < MaxChanges
  /\ \E s \in WorkState :
        /\ s # published /\ s.epoch <= head /\ s.challenge <= head
        /\ s.epoch <= s.challenge + Lag
        /\ published # None =>
              published.epoch <= s.epoch + Lag /\ published.challenge <= s.challenge + Lag
        /\ published' = s
        /\ states' = states \cup {s}
  /\ changes' = changes + 1
  /\ UNCHANGED <<head, life, mirroring, latest, seen, entries, seq, bindings, chances, sent>>

\* Challenges whose known solutions are a new set once the mirror takes s: a challenge
\* that is new itself, and all there are when the epoch is another.
Begins(c, s) == IF chances[c] = 0 THEN c = s.challenge ELSE seen.epoch # s.epoch

(* Mutant: every new state forgets the keys. *)
MirrorClearForgetful ==
  /\ mirroring = None /\ published # latest
  /\ mirroring' = published
  /\ seen' = [epoch |-> published.epoch, keys |-> {}]
  /\ chances' = [c \in Epochs |-> chances[c] +
                   (IF c \in Readable /\ Begins(c, published) THEN 1 ELSE 0)]
  /\ UNCHANGED <<head, life, published, changes, latest, entries, seq, bindings, states, sent>>

\* The mirror task takes the newest value; another epoch forgets the keys ...
MirrorClear ==
  /\ mirroring = None /\ published # latest
  /\ mirroring' = published
  /\ seen' = IF seen.epoch = published.epoch THEN seen
             ELSE [epoch |-> published.epoch, keys |-> {}]
  /\ chances' = [c \in Epochs |-> chances[c] +
                   (IF c \in Readable /\ Begins(c, published) THEN 1 ELSE 0)]
  /\ UNCHANGED <<head, life, published, changes, latest, entries, seq, bindings, states, sent>>

\* ... and only then is the state replaced: handlers may come in between.
MirrorWrite ==
  /\ mirroring # None
  /\ latest' = mirroring
  /\ mirroring' = None
  /\ UNCHANGED <<head, life, published, changes, seen, entries, seq, histories>>

\* Entries not heard of for five minutes are dropped.
Collect ==
  /\ \E id \in Ids : HasEntry(id) /\ entries' = [entries EXCEPT ![id] = None]
  /\ UNCHANGED <<head, life, published, changes, mirroring, latest, seen, seq, histories>>

-----------------------------------------------------------------------------
(* nonce_space.rs *)

NewAllocator(state) == [state |-> state, next |-> 0]

(* Mutant: only the epoch is compared. *)
RebindEpoch(alloc, state) ==
  IF alloc.state.epoch = state.epoch THEN alloc ELSE NewAllocator(state)

(* Mutant: the counter starts over whether or not the state is new. *)
RebindAlways(alloc, state) == NewAllocator(state)

\* rebind_epoch: another epoch or challenge starts the counter over.
Rebind(alloc, state) == IF alloc.state = state THEN alloc ELSE NewAllocator(state)

\* next_batch
Advance(alloc) == [alloc EXCEPT !.next = IF @ < Batches THEN @ + 1 ELSE @]

-----------------------------------------------------------------------------
(* The atomic parts of the handlers *)

PrefixOf(id, state) == [id |-> id, life |-> life, state |-> state]

\* What the histories note of an allocator of id that is bound to state, if it is now.
Bind(id, state, now) ==
  LET new == IF now /\ Batches > 0 THEN {PrefixOf(id, state)} ELSE {}
  IN bound' = bound \cup new /\ rebound' = rebound \cup (new \cap bound)

\* work, under the write lock, with the state it copied before: the entry is rebound
\* and gives its next batch.  An id carries no mark of the life it is from: an entry
\* of the same name serves.
HandOut(id, state) ==
  /\ HasEntry(id)
  /\ entries' = [entries EXCEPT ![id] = Advance(Rebind(@, state))]
  /\ Bind(id, state, entries[id].state # state)
  /\ UNCHANGED <<head, life, published, changes, mirroring, latest, seen, seq, states, chances,
                 sent>>

\* What the answer says of it.
Handed(id, state) == [prefix |-> PrefixOf(id, state), base |-> Rebind(entries[id], state).next]

(* Mutant: the id is taken from the size of the map. *)
NextIdBySize == Cardinality({i \in Ids : HasEntry(i)}) + 1

\* register: the id comes from a counter, read next to the copy of `latest` ...
NextId == seq + 1

TakeId ==
  /\ seq < MaxSeq
  /\ seq' = seq + 1
  /\ UNCHANGED <<head, life, published, changes, mirroring, latest, seen, entries, histories>>

\* ... and the entry is made of both when the write lock has been waited for.
InsertEntry(id, state) ==
  /\ entries' = [entries EXCEPT ![id] = NewAllocator(state)]
  /\ Bind(id, state, TRUE)
  /\ UNCHANGED <<head, life, published, changes, mirroring, latest, seen, seq, states, chances,
                 sent>>

\* solution: the key, inserted whatever becomes of the solution.
InsertKey(sol) ==
  /\ seen' = [seen EXCEPT !.keys = @ \cup {sol}]
  /\ UNCHANGED <<head, life, published, changes, mirroring, latest, entries, seq, histories>>

\* do_submit came as far as the broadcast.
CountSent(sol) ==
  /\ sent' = [s \in DOMAIN sent \cup {sol} |->
                (IF s \in DOMAIN sent THEN sent[s] ELSE 0) + (IF s = sol THEN 1 ELSE 0)]
  /\ UNCHANGED <<head, life, published, changes, mirroring, latest, seen, entries, seq, bindings,
                 states, chances>>

CoordRestart ==
  /\ life < MaxLives
  /\ life' = life + 1
  /\ Fresh
  /\ UNCHANGED <<head, bindings>>
=============================================================================

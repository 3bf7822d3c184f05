------------------------------- MODULE Cluster -------------------------------
(***************************************************************************)
(* Workers (worker.rs) against the coordinator.  The devices of a worker   *)
(* share its worker id, so also its entry and allocator.  In the GPU build *)
(* each has a device loop and a poller that share the last work either of  *)
(* them saw and a token the poller bumps to stop mine_until, which has no  *)
(* end of its own; the CPU build has no pollers and searches one batch.    *)
(* Every HTTP call is two steps or more: the handler copies `latest`       *)
(* before it takes the lock it needs.                                      *)
(***************************************************************************)
EXTENDS Coordinator

CONSTANTS Devices, Workers, GpuBuild

ASSUME ClusterAssumption ==
  /\ IsFiniteSet(Devices) /\ Devices \cap Workers = {} /\ GpuBuild \in BOOLEAN
  /\ None \notin Prefix \cup Solution \cup [id : Ids, life : Lives] \cup [id : Ids, state : WorkState]
  /\ None \notin [prefix : Prefix, base : Counters]

VARIABLES
  owner,    \* whose device it is: the GPU_INDICES of each worker
  id,       \* a worker's worker_id, with the life of the coordinator it is from
  reg,      \* the handler of a registration: the id and the copy of `latest` it took
  pc,       \* device loop, and the handler of its current call
  wid,      \* the worker id the device loop copied for fetch_work
  state,    \* the copy of `latest` in the handler of the device loop's call
  work,     \* the prefix (and state) being mined and the batch to begin with
  sol,      \* the solution in post_solution
  last,     \* last_challenge_arc and last_epoch_arc
  bumped,   \* watch_token differs from token_snap
  ppc,      \* poller: "idle", "asked", "got"
  pid,      \* poller: the worker_id it copied
  pstate    \* poller: the copy of `latest` in its call's handler

device == <<pc, wid, state, work, sol>>
memory == <<last, bumped>>
poller == <<ppc, pid, pstate>>
workerVars == <<owner, id, reg, device, memory, poller>>
vars == <<coordVars, workerVars>>

Id == [id : Ids, life : Lives]
Work == [prefix : Prefix, base : Counters]
Registration == [id : Ids, state : WorkState]

\* Who calls register: a worker when it starts, its devices later.
Callers == Workers \cup Devices
WorkerOf(x) == IF x \in Devices THEN owner[x] ELSE x

WorkerTypeOK ==
  /\ owner \in [Devices -> Workers]
  /\ id \in [Workers -> Id \cup {None}]
  /\ reg \in [Callers -> Registration \cup {None}]
  /\ pc \in [Devices -> {"register", "fetch", "asked", "got", "noted", "mine",
                          "found", "posted", "submit", "sign"}]
  /\ wid \in [Devices -> Id \cup {None}]
  /\ state \in [Devices -> WorkState \cup {None}]
  /\ work \in [Devices -> Work \cup {None}]
  /\ sol \in [Devices -> Solution \cup {None}]
  /\ last \in [Devices -> WorkState \cup {None}]
  /\ bumped \in [Devices -> BOOLEAN]
  /\ ppc \in [Devices -> {"idle", "asked", "got"}]
  /\ pid \in [Devices -> Id \cup {None}]
  /\ pstate \in [Devices -> WorkState \cup {None}]

TypeOK == CoordTypeOK /\ WorkerTypeOK

Init ==
  /\ CoordInit
  /\ owner \in [Devices -> Workers]
  /\ id = [w \in Workers |-> None]
  /\ reg = [x \in Callers |-> None]
  /\ pc = [d \in Devices |-> "fetch"]
  /\ wid = [d \in Devices |-> None]
  /\ state = [d \in Devices |-> None]
  /\ work = [d \in Devices |-> None]
  /\ sol = [d \in Devices |-> None]
  /\ last = [d \in Devices |-> None]
  /\ bumped = [d \in Devices |-> FALSE]
  /\ ppc = [d \in Devices |-> "idle"]
  /\ pid = [d \in Devices |-> None]
  /\ pstate = [d \in Devices |-> None]

-----------------------------------------------------------------------------
\* The loop of the device starts over with fetch_work; what the round held is gone.
Again(d, label) ==
  /\ pc' = [pc EXCEPT ![d] = label]
  /\ wid' = [wid EXCEPT ![d] = None]
  /\ work' = [work EXCEPT ![d] = None]
  /\ sol' = [sol EXCEPT ![d] = None]
  /\ state' = [state EXCEPT ![d] = None]

Goto(d, label) == pc' = [pc EXCEPT ![d] = label]

(* Mutant: the coordinator does not wait for its first state. *)
RegisterUnready(x) ==
  /\ reg[x] = None
  /\ TakeId
  /\ reg' = [reg EXCEPT ![x] = [id |-> NextId, state |-> latest]]

\* retry_register: the handler copies `latest` and takes an id ...
Register(x) ==
  /\ reg[x] = None /\ latest # None
  /\ TakeId
  /\ reg' = [reg EXCEPT ![x] = [id |-> NextId, state |-> latest]]

\* ... for run_worker before it starts the devices, of which there is always one ...
Boot(w) ==
  /\ id[w] = None /\ \E d \in Devices : owner[d] = w
  /\ Register(w)
  /\ UNCHANGED <<owner, id, device, memory, poller>>

\* ... and for a device when fetch_work says that the worker is unknown, even if another
\* device of the worker is registering or has just done so.
Reregister(d) ==
  /\ pc[d] = "register"
  /\ Register(d)
  /\ UNCHANGED <<owner, id, device, memory, poller>>

\* The entry is inserted.  The answer may be lost: the entry is nobody's then, and the
\* caller tries again.
Registered(x) ==
  /\ reg[x] # None
  /\ InsertEntry(reg[x].id, reg[x].state)
  /\ reg' = [reg EXCEPT ![x] = None]
  /\ \/ UNCHANGED <<id, pc>>
     \/ /\ id' = [id EXCEPT ![WorkerOf(x)] = [id |-> reg[x].id, life |-> life]]
        /\ pc' = [d \in Devices |-> IF d = x THEN "fetch" ELSE pc[d]]
  /\ UNCHANGED <<owner, wid, state, work, sol, memory, poller>>

\* The client's timeout of 15 s drops the handler; the caller tries again.
RegisterFails(x) ==
  /\ reg[x] # None
  /\ reg' = [reg EXCEPT ![x] = None]
  /\ UNCHANGED <<coordVars, owner, id, device, memory, poller>>

(* Mutant: the handler reads the watch channel, which `latest` follows later. *)
AskPublished(d) ==
  /\ pc[d] = "fetch" /\ id[owner[d]] # None /\ latest # None
  /\ wid' = [wid EXCEPT ![d] = id[owner[d]]]
  /\ state' = [state EXCEPT ![d] = published]
  /\ Goto(d, "asked")
  /\ UNCHANGED <<coordVars, owner, id, reg, work, sol, memory, poller>>

\* fetch_work: the handler copies `latest` ...
Ask(d) ==
  /\ pc[d] = "fetch" /\ id[owner[d]] # None /\ latest # None
  /\ wid' = [wid EXCEPT ![d] = id[owner[d]]]
  /\ state' = [state EXCEPT ![d] = latest]
  /\ Goto(d, "asked")
  /\ UNCHANGED <<coordVars, owner, id, reg, work, sol, memory, poller>>

\* ... and then looks up the worker, or does not find it.
Serve(d) ==
  /\ pc[d] = "asked"
  /\ \/ /\ HandOut(wid[d].id, state[d])
        /\ work' = [work EXCEPT ![d] = Handed(wid[d].id, state[d])]
        /\ wid' = [wid EXCEPT ![d] = None]
        /\ state' = [state EXCEPT ![d] = None]
        /\ Goto(d, IF GpuBuild THEN "got" ELSE "mine")
        /\ UNCHANGED sol
     \/ ~HasEntry(wid[d].id) /\ Again(d, "register") /\ UNCHANGED coordVars
  /\ UNCHANGED <<owner, id, reg, memory, poller>>

\* The GPU build's device loop remembers what it is about to mine ...
Note(d) ==
  /\ pc[d] = "got"
  /\ last' = [last EXCEPT ![d] = work[d].prefix.state]
  /\ Goto(d, "noted")
  /\ UNCHANGED <<coordVars, owner, id, reg, wid, state, work, sol, bumped, poller>>

\* ... and then loads the token.
Snapshot(d) ==
  /\ pc[d] = "noted"
  /\ bumped' = [bumped EXCEPT ![d] = FALSE]
  /\ Goto(d, "mine")
  /\ UNCHANGED <<coordVars, owner, id, reg, wid, state, work, sol, last, poller>>

Abort(d) ==
  /\ pc[d] = "mine" /\ bumped[d]
  /\ Again(d, "fetch")
  /\ UNCHANGED <<coordVars, owner, id, reg, memory, poller>>

\* The CPU build's search has an end.
Exhaust(d) ==
  /\ pc[d] = "mine" /\ ~GpuBuild
  /\ Again(d, "fetch")
  /\ UNCHANGED <<coordVars, owner, id, reg, memory, poller>>

\* The counters a search may come to, as batches: mine_until goes on past the batch it
\* was given, the loop of the CPU build does not.
Reach(base) == IF GpuBuild THEN base..Batches ELSE {base}

Find(d) ==
  /\ pc[d] = "mine" /\ ~bumped[d]
  /\ \E n \in Reach(work[d].base) \cap Winning :
        sol' = [sol EXCEPT ![d] = [prefix |-> work[d].prefix, nonce |-> n]]
  /\ Goto(d, "found")
  /\ UNCHANGED <<coordVars, owner, id, reg, wid, state, work, memory, poller>>

\* post_solution: the handler copies `latest`, or answers 503 without it.
Post(d) ==
  /\ pc[d] = "found"
  /\ \/ latest # None /\ state' = [state EXCEPT ![d] = latest] /\ Goto(d, "posted")
          /\ UNCHANGED <<wid, work, sol>>
     \/ latest = None /\ Again(d, "fetch")
  /\ UNCHANGED <<coordVars, owner, id, reg, memory, poller>>

(* Mutant: a known key does not stop the handler. *)
DedupeNot(d) ==
  /\ pc[d] = "posted"
  /\ InsertKey(sol[d])
  /\ \/ sol[d].prefix.state = state[d] /\ Goto(d, "submit") /\ UNCHANGED <<wid, work, sol, state>>
     \/ sol[d].prefix.state # state[d] /\ Again(d, "fetch")
  /\ UNCHANGED <<owner, id, reg, memory, poller>>

\* A key already seen is a duplicate; otherwise it is inserted, and only then is the
\* solution compared with the copied state.
Dedupe(d) ==
  /\ pc[d] = "posted"
  /\ \/ sol[d] \in seen.keys /\ Again(d, "fetch") /\ UNCHANGED coordVars
     \/ /\ sol[d] \notin seen.keys
        /\ InsertKey(sol[d])
        /\ \/ sol[d].prefix.state = state[d] /\ Goto(d, "submit") /\ UNCHANGED <<wid, work, sol, state>>
           \/ sol[d].prefix.state # state[d] /\ Again(d, "fetch")
  /\ UNCHANGED <<owner, id, reg, memory, poller>>

\* submit_solution asks for the challenge again; the call may fail, and the endpoint that
\* answers may be behind.
Recheck(d) ==
  /\ pc[d] = "submit"
  /\ \/ sol[d].prefix.state.challenge \in Readable /\ Goto(d, "sign")
          /\ UNCHANGED <<wid, work, sol, state>>
     \/ Again(d, "fetch")
  /\ UNCHANGED <<coordVars, owner, id, reg, memory, poller>>

\* Only then it simulates, waits for pending_lock, allocates a nonce, signs and sends;
\* each of these may fail.
Send(d) ==
  /\ pc[d] = "sign"
  /\ CountSent(sol[d]) \/ UNCHANGED coordVars
  /\ Again(d, "fetch")
  /\ UNCHANGED <<owner, id, reg, memory, poller>>

\* The client's timeout of 15 s: the handler's future is dropped where it is.
Timeout(d) ==
  /\ pc[d] \in {"asked", "posted", "submit", "sign"}
  /\ Again(d, "fetch")
  /\ UNCHANGED <<coordVars, owner, id, reg, memory, poller>>

-----------------------------------------------------------------------------
(* The poller of the GPU build *)

Poll(d) ==
  /\ GpuBuild /\ ppc[d] = "idle" /\ id[owner[d]] # None /\ latest # None
  /\ pid' = [pid EXCEPT ![d] = id[owner[d]]]
  /\ pstate' = [pstate EXCEPT ![d] = latest]
  /\ ppc' = [ppc EXCEPT ![d] = "asked"]
  /\ UNCHANGED <<coordVars, owner, id, reg, device, memory>>

Rest(d) ==
  /\ ppc' = [ppc EXCEPT ![d] = "idle"]
  /\ pid' = [pid EXCEPT ![d] = None]
  /\ pstate' = [pstate EXCEPT ![d] = None]

(* Mutant: an unknown worker is only reported, as any other error is. *)
PollServeQuiet(d) ==
  /\ ppc[d] = "asked"
  /\ \/ /\ HandOut(pid[d].id, pstate[d])
        /\ ppc' = [ppc EXCEPT ![d] = "got"]
        /\ UNCHANGED <<pid, pstate>>
     \/ ~HasEntry(pid[d].id) /\ Rest(d) /\ UNCHANGED coordVars
  /\ UNCHANGED <<owner, id, reg, device, memory>>

\* The batch is taken and not used.  404 bumps the token, so that the device loop comes
\* back and registers.
PollServe(d) ==
  /\ ppc[d] = "asked"
  /\ \/ /\ HandOut(pid[d].id, pstate[d])
        /\ ppc' = [ppc EXCEPT ![d] = "got"]
        /\ UNCHANGED <<pid, pstate, bumped>>
     \/ /\ ~HasEntry(pid[d].id)
        /\ bumped' = [bumped EXCEPT ![d] = TRUE]
        /\ Rest(d)
        /\ UNCHANGED coordVars
  /\ UNCHANGED <<owner, id, reg, device, last>>

\* Any other error, a timeout say, is only reported.
PollFails(d) ==
  /\ ppc[d] = "asked"
  /\ Rest(d)
  /\ UNCHANGED <<coordVars, owner, id, reg, device, memory>>

(* Mutant: the token is bumped for a new epoch only. *)
PollNoteEpoch(d) ==
  /\ ppc[d] = "got"
  /\ last' = [last EXCEPT ![d] = pstate[d]]
  /\ bumped' = [bumped EXCEPT ![d] = @ \/ last[d] = None \/ last[d].epoch # pstate[d].epoch]
  /\ Rest(d)
  /\ UNCHANGED <<coordVars, owner, id, reg, device>>

\* The answer may be older than what the device loop fetched meanwhile.
PollNote(d) ==
  /\ ppc[d] = "got"
  /\ last' = [last EXCEPT ![d] = pstate[d]]
  /\ bumped' = [bumped EXCEPT ![d] = @ \/ last[d] # pstate[d]]
  /\ Rest(d)
  /\ UNCHANGED <<coordVars, owner, id, reg, device>>

-----------------------------------------------------------------------------
Background ==
  /\ NewEpoch \/ Publish \/ MirrorClear \/ MirrorWrite \/ Collect
  /\ UNCHANGED workerVars

\* Calls under way end with a connection error.
Crash ==
  /\ CoordRestart
  /\ reg' = [x \in Callers |-> None]
  /\ pc' = [d \in Devices |-> IF pc[d] \in {"asked", "posted", "submit", "sign"} THEN "fetch"
                               ELSE pc[d]]
  /\ wid' = [d \in Devices |-> None]
  /\ work' = [d \in Devices |-> IF pc[d] \in {"posted", "submit", "sign"} THEN None ELSE work[d]]
  /\ sol' = [d \in Devices |-> IF pc[d] \in {"posted", "submit", "sign"} THEN None ELSE sol[d]]
  /\ state' = [d \in Devices |-> None]
  /\ ppc' = [d \in Devices |-> IF ppc[d] = "asked" THEN "idle" ELSE ppc[d]]
  /\ pid' = [d \in Devices |-> IF ppc[d] = "asked" THEN None ELSE pid[d]]
  /\ pstate' = [d \in Devices |-> IF ppc[d] = "asked" THEN None ELSE pstate[d]]
  /\ UNCHANGED <<owner, id, memory>>

DeviceStep(d) ==
  \/ Reregister(d) \/ Ask(d) \/ Serve(d) \/ Note(d) \/ Snapshot(d) \/ Abort(d) \/ Exhaust(d)
  \/ Post(d) \/ Dedupe(d) \/ Recheck(d) \/ Send(d)
PollerStep(d) == Poll(d) \/ PollServe(d) \/ PollNote(d)

Next ==
  \/ Background \/ Crash
  \/ \E w \in Workers : Boot(w)
  \/ \E x \in Callers : Registered(x) \/ RegisterFails(x)
  \/ \E d \in Devices : \/ DeviceStep(d) \/ Find(d) \/ Timeout(d)
                         \/ PollerStep(d) \/ PollFails(d)

Spec == Init /\ [][Next]_vars

\* Tasks run and calls are answered in the end; the watcher publishes something, the
\* mirror follows.  Nothing is assumed about finding, losing answers or restarts.
Fairness ==
  /\ \A w \in Workers : WF_vars(Boot(w))
  /\ \A x \in Callers : WF_vars(Registered(x))
  /\ \A d \in Devices :
       /\ WF_vars(DeviceStep(d)) /\ WF_vars(PollerStep(d))
       /\ SF_vars(Serve(d)) /\ SF_vars(PollServe(d))
  /\ WF_vars((MirrorClear \/ MirrorWrite) /\ UNCHANGED workerVars)
  /\ WF_vars(published = None /\ Publish /\ UNCHANGED workerVars)

FairSpec == Spec /\ Fairness
-----------------------------------------------------------------------------
\* A solution that several posts bring is sent no more often than SeenState began anew
\* while an endpoint could still answer with its challenge: once, but for challenges
\* that are published under several epochs or that endpoints which lag bring back.
SentOnce == \A s \in DOMAIN sent : sent[s] <= chances[s.prefix.state.challenge]

\* The coordinator as whoever pays for its transactions sees it.
Times(s) == IF s \in DOMAIN sent THEN sent[s] ELSE 0

Log == INSTANCE SolutionLog
         WITH States <- WorkState, Challenges <- Epochs, Solutions <- Solution,
              StateOf <- [s \in Solution |-> s.prefix.state]

\* Handlers that copy an old state, wait, repeat a call or time out implement the log: a
\* solution is sent only for a state published in this life, and each time anew only
\* when its challenge could be read and was taken up again after the time before.
ImplementsSolutionLog == Log!Spec

\* A worker the coordinator does not know stops mining and registers again, whatever
\* handlers of registrations are dropped and answers lost, while there are ids.
UnknownReregisters ==
  \A w \in Workers :
     (id[w] # None /\ ~HasEntry(id[w].id))
        ~> (\/ id[w] # None /\ HasEntry(id[w].id)
            \/ seq = MaxSeq /\ \A x \in Callers : reg[x] = None)

\* When the poller's memory agrees with what is mined, the worker notices that the
\* coordinator has other work by now, unless that goes back to what is mined.
NewWorkNoticed ==
  \A d \in Devices :
     (pc[d] = "mine" /\ last[d] = work[d].prefix.state /\ latest \notin {None, last[d]})
        ~> (pc[d] # "mine" \/ latest \in {None, work[d].prefix.state})

\* Old copies of `latest` may bind an allocator to a state that is gone, in a new entry
\* or in one it had left, but not for ever: in the end the allocator a worker uses is
\* bound to the newest state.
AllocatorSettles ==
  \A w \in Workers :
     <>[](id[w] # None /\ HasEntry(id[w].id) => entries[id[w].id].state = latest)

\* Handlers of register and work that hold a copy of what `latest` was before.
OldCopies ==
  {<<"register", x>> : x \in {y \in Callers : reg[y] # None /\ reg[y].state # latest}}
    \cup {<<"device", d>> : d \in {e \in Devices : pc[e] = "asked" /\ state[e] # latest}}
    \cup {<<"poller", d>> : d \in {e \in Devices : ppc[e] = "asked" /\ pstate[e] # latest}}
Settled == {i \in Ids : HasEntry(i) => entries[i].state = latest}

\* Why allocators settle: until `latest` is replaced again no handler comes to hold an
\* old copy, and each time an allocator is bound away from `latest` an old copy is used up.
OldCopiesRunOut ==
  [][UNCHANGED <<life, latest>> =>
        /\ OldCopies' \subseteq OldCopies
        /\ Settled \subseteq Settled' \/ OldCopies' # OldCopies]_vars

\* What a search may come to.
Searched(d) == {[prefix |-> work[d].prefix, nonce |-> n] : n \in Reach(work[d].base)}
Disjoint(d, e) == pc[d] = "mine" /\ pc[e] = "mine" => Searched(d) \cap Searched(e) = {}

\* Different workers search disjoint ranges of PoW nonces, whatever answers were lost
\* and entries collected, as long as the coordinator has not been restarted: then it
\* hands out the old ids again.
WorkersSearchDisjoint ==
  \A d, e \in Devices : life = 1 /\ owner[d] # owner[e] => Disjoint(d, e)

\* Two devices are handed the same batch only where their allocator was bound to the
\* same state a second time, by an old copy of `latest` or a way back of the watcher.
BatchesDisjoint ==
  \A d, e \in Devices :
     d # e /\ pc[d] = "mine" /\ pc[e] = "mine" /\ work[d].base < Batches
        => work[d] # work[e] \/ work[d].prefix \in rebound

\* All devices search disjoint ranges.
DevicesSearchDisjoint == \A d, e \in Devices : d # e => Disjoint(d, e)

-----------------------------------------------------------------------------
(* What the proofs of ClusterProofs.tla need besides TypeOK *)

\* All copies in use are of this life and none is ahead of the contract.
StatesInv ==
  /\ published = None => states = {}
  /\ published # None => published \in states
  /\ \A s \in states : s.challenge <= head
  /\ {mirroring, latest} \subseteq states \cup {None}
  /\ \A i \in Ids : HasEntry(i) => i <= seq /\ entries[i].state \in states

\* An id that was taken and not yet used is nobody else's.
RegInv ==
  /\ \A p \in bound : p.life <= life /\ (p.life = life => p.id <= seq)
  /\ \A x \in Callers :
        reg[x] # None =>
          /\ reg[x].id <= seq /\ reg[x].state \in states /\ ~HasEntry(reg[x].id)
          /\ \A y \in Callers \ {x} : reg[y] # None => reg[y].id # reg[x].id
          /\ \A p \in bound : p.life = life => p.id # reg[x].id

\* The histories know of every allocator.
BoundInv == \A i \in Ids : HasEntry(i) /\ Batches > 0 => PrefixOf(i, entries[i].state) \in bound

\* What a device and its poller hold at each of their labels.
LabelInv(d) ==
  /\ pc[d] = "asked" => wid[d] # None /\ state[d] \in states
  /\ pc[d] \in {"got", "noted", "mine"} => work[d] # None
  /\ pc[d] \in {"found", "posted", "submit", "sign"} => sol[d] # None
  /\ pc[d] \in {"posted", "submit", "sign"} => state[d] \in states
  /\ pc[d] \in {"submit", "sign"} => sol[d].prefix.state = state[d]
  /\ ppc[d] = "asked" => pid[d] # None /\ pstate[d] \in states
  /\ ppc[d] = "got" => pstate[d] # None

\* In the first life of the coordinator an id is used by one worker.
Uses(d, i) ==
  \/ wid[d] # None /\ wid[d].id = i
  \/ pid[d] # None /\ pid[d].id = i
  \/ work[d] # None /\ work[d].prefix.id = i
Holds(w, i) ==
  \/ id[w] # None /\ id[w].id = i
  \/ \E d \in Devices : owner[d] = w /\ Uses(d, i)
IdInv ==
  life = 1 =>
    \A w \in Workers, i \in Ids :
       Holds(w, i) =>
         /\ i <= seq
         /\ \A v \in Workers : Holds(v, i) => v = w
         /\ \A x \in Callers : reg[x] # None => reg[x].id # i

\* A batch is behind the counter of its entry, or the entry is bound to another state
\* and its return would be noted; so the batch was not handed out to anyone else.
Behind(w) ==
  /\ w.prefix.life <= life
  /\ w.prefix.life = life /\ w.base < Batches /\ w.prefix \notin rebound =>
        /\ w.prefix \in bound
        /\ HasEntry(w.prefix.id) /\ entries[w.prefix.id].state = w.prefix.state =>
              w.base < entries[w.prefix.id].next
WorkInv(d) ==
  work[d] # None =>
    /\ Behind(work[d])
    /\ work[d].base < Batches /\ work[d].prefix \notin rebound =>
          \A e \in Devices \ {d} : work[e] # work[d]

\* A challenge that can still be read has its chance by the time a handler sees it.
ChanceInv ==
  /\ \A c \in Epochs : chances[c] > 0 => c <= head
  /\ \A s \in {mirroring, latest} :
        s # None /\ s.challenge \in Readable => chances[s.challenge] > 0
  /\ \A d \in Devices :
        pc[d] \in {"posted", "submit", "sign"} /\ state[d].challenge \in Readable =>
          chances[state[d].challenge] > 0

\* A solution was sent or is past the recheck no more often than it has chances; while
\* its challenge can be read, so are all handlers that inserted its key, and the next.
Challenge(s) == s.prefix.state.challenge
Signing(s) == {d \in Devices : pc[d] = "sign" /\ sol[d] = s}
Handling(s) == {d \in Devices : pc[d] \in {"submit", "sign"} /\ sol[d] = s}
SentInv ==
  \A s \in Solution :
    /\ Times(s) + Cardinality(Signing(s)) <= chances[Challenge(s)]
    /\ Challenge(s) \in Readable /\ chances[Challenge(s)] > 0 =>
          Times(s) + Cardinality(Handling(s)) + (IF s \in seen.keys THEN 0 ELSE 1)
            <= chances[Challenge(s)]

IInv ==
  /\ TypeOK /\ StatesInv /\ RegInv /\ BoundInv /\ IdInv /\ ChanceInv /\ SentInv
  /\ \A d \in Devices : LabelInv(d) /\ WorkInv(d)
=============================================================================

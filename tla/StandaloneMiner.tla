--------------------------- MODULE StandaloneMiner ---------------------------
(***************************************************************************)
(* standalone_mine (main.rs): the state watcher, one OS thread per GPU in  *)
(* standalone_device_loop around mine_until (gpu/mod.rs), and the task     *)
(* that feeds what they find to submit_solution; or, without a GPU, the    *)
(* single cpu_standalone_loop that submits what it finds itself.  Devices  *)
(* start when standalone_mine has seen a state.  In the other mode this is *)
(* the watcher of a coordinator alone, whose readers are in Cluster.tla.   *)
(* A device loop that ends because its GPU fails (`?`) is left out.        *)
(***************************************************************************)
EXTENDS StateWatcher, Sequences, FiniteSets

CONSTANTS
  Devices,     \* device threads (the CPU loop uses one of them)
  CpuDevice,   \* that one
  Batch,       \* AppConfig.gpu_batch, in units of the smallest dispatch
  Sizes,       \* dispatch sizes auto-tuning may choose
  Winning,     \* counters below the target, the same for every prefix
  MaxCounter,  \* bound on the 64-bit counter
  MaxQueue     \* bound on the unbounded solution channel

ASSUME MinerAssumption ==
  /\ CpuDevice \in Devices
  /\ Batch \in Nat \ {0} /\ Sizes \subseteq Nat \ {0}
  /\ MaxCounter \in Nat /\ MaxQueue \in Nat
  /\ Winning \subseteq 0..MaxCounter

VARIABLES
  gpu,      \* AppConfig.gpu
  pc,       \* "look", "load", "mine", "found" or "submit" for each device
  work,     \* the WorkState each device copied from the channel
  tok,      \* snapshot_token; a prefix has 48 random bits, one per device and token
  next,     \* NonceAllocator.next_counter, None before the first allocator
  counter,  \* where mine_until (or the CPU loop) is
  end,      \* end of the batch, which only the CPU loop respects
  high,     \* history: the CPU loop tried counters below it with this prefix
  queue,    \* the mpsc channel
  job       \* the solution in submit_solution, with the state it is checked against

devices == <<pc, work, tok, next, counter, end, high>>
vars == <<watcherVars, gpu, devices, queue, job>>

Counters == Nat
\* A solution: what it was found for and where.
Solution == [state : WorkState, device : Devices, tok : 0..MaxToken, counter : Counters]
Found(d) == [state |-> work[d], device |-> d, tok |-> tok[d], counter |-> counter[d]]

Active == IF gpu THEN Devices ELSE {CpuDevice}

TypeOK ==
  /\ WatcherTypeOK
  /\ gpu \in BOOLEAN
  /\ pc \in [Devices -> {"look", "load", "mine", "found", "submit"}]
  /\ work \in [Devices -> WorkState \cup {None}]
  /\ tok \in [Devices -> 0..MaxToken \cup {None}]
  /\ next \in [Devices -> Counters \cup {None}]
  /\ counter \in [Devices -> Counters]
  /\ end \in [Devices -> Counters]
  /\ high \in [Devices -> Counters]
  /\ queue \in Seq(Solution)
  /\ job \in [sol : Solution, state : WorkState] \cup {None}

Init ==
  /\ WatcherInit
  /\ gpu \in BOOLEAN
  /\ pc = [d \in Devices |-> "look"]
  /\ work = [d \in Devices |-> None]
  /\ tok = [d \in Devices |-> None]
  /\ next = [d \in Devices |-> None]
  /\ counter = [d \in Devices |-> 0]
  /\ end = [d \in Devices |-> 0]
  /\ high = [d \in Devices |-> 0]
  /\ queue = <<>>
  /\ job = None

-----------------------------------------------------------------------------
\* The loop starts over; its locals are gone.
Again(d) ==
  /\ pc' = [pc EXCEPT ![d] = "look"]
  /\ work' = [work EXCEPT ![d] = None]
  /\ counter' = [counter EXCEPT ![d] = 0]
  /\ end' = [end EXCEPT ![d] = 0]

(* Mutant: nobody waits for the first state. *)
LookUnready(d) ==
  /\ pc[d] = "look" /\ mode = "standalone"
  /\ work' = [work EXCEPT ![d] = published]
  /\ pc' = [pc EXCEPT ![d] = "load"]
  /\ UNCHANGED <<watcherVars, gpu, tok, next, counter, end, high, queue, job>>

\* watcher.current(); the devices were started after the first state was seen.
Look(d) ==
  /\ pc[d] = "look" /\ Started
  /\ work' = [work EXCEPT ![d] = published]
  /\ pc' = [pc EXCEPT ![d] = "load"]
  /\ UNCHANGED <<watcherVars, gpu, tok, next, counter, end, high, queue, job>>

(* Mutant: next_batch does not advance the counter. *)
LoadSameBatch(d) ==
  LET base == IF tok[d] = token THEN next[d] ELSE 0
  IN /\ pc[d] = "load" /\ base < MaxCounter
     /\ tok' = [tok EXCEPT ![d] = token]
     /\ high' = [high EXCEPT ![d] = IF tok[d] = token THEN @ ELSE 0]
     /\ counter' = [counter EXCEPT ![d] = base]
     /\ end' = [end EXCEPT ![d] = base + Batch]
     /\ next' = [next EXCEPT ![d] = base]
     /\ pc' = [pc EXCEPT ![d] = "mine"]
     /\ UNCHANGED <<watcherVars, gpu, work, queue, job>>

\* The token is loaded after the state was copied.  If it moved, a new allocator
\* with a new random prefix starts at 0; then next_batch.
Load(d) ==
  LET base == IF tok[d] = token THEN next[d] ELSE 0
  IN /\ pc[d] = "load" /\ base < MaxCounter
     /\ tok' = [tok EXCEPT ![d] = token]
     /\ high' = [high EXCEPT ![d] = IF tok[d] = token THEN @ ELSE 0]
     /\ counter' = [counter EXCEPT ![d] = base]
     /\ end' = [end EXCEPT ![d] = base + Batch]
     /\ next' = [next EXCEPT ![d] = base + Batch]
     /\ pc' = [pc EXCEPT ![d] = "mine"]
     /\ UNCHANGED <<watcherVars, gpu, work, queue, job>>

(* Mutant: mine_until is called without a token, as bench does. *)
AbortCpuOnly(d) ==
  /\ ~gpu /\ pc[d] = "mine" /\ token # tok[d]
  /\ Again(d)
  /\ UNCHANGED <<watcherVars, gpu, tok, next, high, queue, job>>

\* The token moved: mine_until returns Aborted, the CPU loop breaks.
Abort(d) ==
  /\ pc[d] = "mine" /\ token # tok[d]
  /\ Again(d)
  /\ UNCHANGED <<watcherVars, gpu, tok, next, high, queue, job>>

\* The CPU loop has tried its whole batch.
Exhaust(d) ==
  /\ ~gpu /\ pc[d] = "mine" /\ counter[d] = end[d]
  /\ Again(d)
  /\ UNCHANGED <<watcherVars, gpu, tok, next, high, queue, job>>

\* One dispatch of the GPU: several counters may win, the kernel reports any one of
\* them.  On the CPU one counter at a time.
Tried(d, size) == counter[d]..(counter[d] + size - 1)

Dispatch(d) ==
  /\ pc[d] = "mine" /\ token = tok[d]
  /\ counter[d] < MaxCounter
  /\ gpu \/ counter[d] < end[d]
  /\ \E size \in (IF gpu THEN Sizes ELSE {1}) :
        LET hits == Tried(d, size) \cap Winning
            reached == counter[d] + size
        IN /\ high' = [high EXCEPT ![d] = IF gpu \/ reached < @ THEN @ ELSE reached]
           /\ \/ /\ hits = {}
                 /\ counter' = [counter EXCEPT ![d] = reached]
                 /\ UNCHANGED pc
              \/ /\ \E c \in hits : counter' = [counter EXCEPT ![d] = c]
                 /\ pc' = [pc EXCEPT ![d] = "found"]
  /\ UNCHANGED <<watcherVars, gpu, work, tok, next, end, queue, job>>

\* sol_tx.send, which never waits; the CPU loop calls submit_solution itself.
Deliver(d) ==
  /\ pc[d] = "found"
  /\ \/ /\ gpu /\ Len(queue) < MaxQueue
        /\ queue' = Append(queue, Found(d))
        /\ Again(d)
        /\ UNCHANGED job
     \/ /\ ~gpu
        /\ job' = [sol |-> Found(d), state |-> work[d]]
        /\ pc' = [pc EXCEPT ![d] = "submit"]
        /\ UNCHANGED <<work, counter, end, queue>>
  /\ UNCHANGED <<watcherVars, gpu, tok, next, high>>

\* The consumer task pairs a solution with whatever state is published by then.
Take ==
  /\ job = None /\ queue # <<>>
  /\ job' = [sol |-> Head(queue), state |-> published]
  /\ queue' = Tail(queue)
  /\ UNCHANGED <<watcherVars, gpu, devices>>

(* Mutant: a submission that fails ends the consumer's loop. *)
SubmitOnce ==
  /\ job # None
  /\ job.sol.state.challenge = head
  /\ job' = None
  /\ IF gpu THEN UNCHANGED <<pc, work, counter, end>> ELSE Again(CpuDevice)
  /\ UNCHANGED <<watcherVars, gpu, tok, next, high, queue>>

\* submit_solution returns, Ok or Err (Submitter.tla shows what it does).
Submit ==
  /\ job # None
  /\ job' = None
  /\ IF gpu THEN UNCHANGED <<pc, work, counter, end>> ELSE Again(CpuDevice)
  /\ UNCHANGED <<watcherVars, gpu, tok, next, high, queue>>

Watch ==
  /\ NewEpoch \/ WatcherStep \/ Subscribe \/ Unsubscribe
  /\ UNCHANGED <<gpu, devices, queue, job>>

DeviceStep(d) ==
  d \in Active /\ (Look(d) \/ Load(d) \/ Abort(d) \/ Exhaust(d) \/ Dispatch(d) \/ Deliver(d))

Next == Watch \/ Take \/ Submit \/ \E d \in Devices : DeviceStep(d)

\* Threads and tasks keep running, and not every poll of the watcher fails.
Fairness ==
  /\ WatcherFairness
  /\ \A d \in Devices : WF_vars(DeviceStep(d))
  /\ WF_vars(Take) /\ WF_vars(Submit)

Spec == Init /\ [][Next]_vars
FairSpec == Spec /\ Fairness

-----------------------------------------------------------------------------
\* The CPU loop never tries a PoW nonce twice: batches of one allocator follow each
\* other, and a new allocator has a new prefix.
CpuNeverRepeats == ~gpu /\ pc[CpuDevice] = "mine" => high[CpuDevice] <= counter[CpuDevice]

\* Whatever the watcher combined from its calls: when the contract's state settles,
\* exactly that state is what a coordinator mirrors in the end.
HeadIsPublished ==
  (mode = "coordinator" /\ head = MaxEpoch)
     ~> (published = [epoch |-> MaxEpoch, challenge |-> MaxEpoch] \/ token = MaxToken)

\* A device whose token is out of date stops mining what it mines.
OldTokenAborts ==
  \A d \in Devices : (pc[d] = "mine" /\ tok[d] # token) ~> (pc[d] # "mine")

\* Each solution a device finds comes to submit_solution itself, behind whatever was
\* found before it, and whether or not the submissions of those failed.
FindsAreSubmitted ==
  \A d \in Devices, t \in 0..MaxToken, c \in Winning :
     (pc[d] = "found" /\ tok[d] = t /\ counter[d] = c)
        ~> (job # None /\ job.sol.device = d /\ job.sol.tok = t /\ job.sol.counter = c)

-----------------------------------------------------------------------------
\* Strengthening that makes TypeOK and CpuNeverRepeats inductive.

\* A device's locals exist when it uses them: it has a state once it has looked, a
\* token and an allocator, which come together, once it has loaded.
Equipped(d) ==
  /\ pc[d] # "look" => work[d] # None
  /\ pc[d] \in {"mine", "found", "submit"} => tok[d] # None
  /\ tok[d] = None <=> next[d] = None

\* Whoever looked was started, and found something, which stays: the consumer never
\* takes a solution while there is no state to pair it with.
FindsHaveState == queue # <<>> \/ (\E d \in Devices : pc[d] # "look") => Started

\* What the CPU loop tried with its prefix lies below the next batch and, while it
\* searches one, below the counter; it never leaves the batch.
CpuWithinBatch ==
  ~gpu /\ tok[CpuDevice] # None =>
     /\ high[CpuDevice] <= next[CpuDevice]
     /\ pc[CpuDevice] = "mine" =>
          /\ high[CpuDevice] <= counter[CpuDevice]
          /\ counter[CpuDevice] <= end[CpuDevice]
          /\ end[CpuDevice] = next[CpuDevice]

IInv ==
  /\ TypeOK /\ WatcherInv /\ FindsHaveState /\ CpuWithinBatch
  /\ \A d \in Devices : Equipped(d)
=============================================================================

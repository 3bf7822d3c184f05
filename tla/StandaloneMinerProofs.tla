------------------------ MODULE StandaloneMinerProofs ------------------------
(***************************************************************************)
(* The standalone miner for any number of devices, epochs and tokens, any  *)
(* batch and dispatch sizes and any winning counters: types, the CPU       *)
(* loop's disjoint batches, the watcher as a feed of states, and what its   *)
(* readers see with and without a lasting receiver.  Watcher, devices and  *)
(* consumer share only the token, the published state and the queue, so    *)
(* the invariant is a conjunction of facts about each of them.             *)
(***************************************************************************)
EXTENDS StandaloneMiner, TLAPS

USE WatcherAssumption, MinerAssumption

\* None is nothing else.
LEMMA NoneIsNothing ==
  /\ None \notin WorkState /\ None \notin Nat
  /\ 0 \in 0..MaxToken /\ 0..MaxToken \subseteq Nat
OBVIOUS

LEMMA InitEstablishes == Init => IInv
<1> SUFFICES ASSUME Init PROVE IInv
  OBVIOUS
<1>1. WatcherTypeOK /\ WatcherInv
  <2>1. listening \in BOOLEAN /\ (mode = "coordinator" => listening)
    BY Zenon DEF Init, WatcherInit
  <2> QED BY <2>1 DEF Init, WatcherInit, WatcherTypeOK, WatcherInv, MirrorSourceIsNewest, Epochs
<1>2. TypeOK
  BY <1>1 DEF Init, TypeOK, Counters
<1>3. FindsHaveState /\ CpuWithinBatch /\ \A d \in Devices : Equipped(d)
  BY DEF Init, FindsHaveState, CpuWithinBatch, Equipped
<1> QED BY <1>1, <1>2, <1>3 DEF IInv

-----------------------------------------------------------------------------
(* The watcher and the contract.                                            *)

\* The watcher keeps its own invariant; once standalone_mine has let go of its
\* receiver, nothing is published any more.
LEMMA WatchKeeps ==
  ASSUME WatcherTypeOK, WatcherInv, NewEpoch \/ WatcherStep \/ Subscribe \/ Unsubscribe
  PROVE  /\ WatcherTypeOK' /\ WatcherInv'
         /\ Started => Started' /\ published' = published
<1> USE DEF WatcherTypeOK, WatcherInv, MirrorSourceIsNewest, Started, channel
<1>0. \A e \in Readable : e \in Epochs
  BY DEF Readable
<1>1. CASE NewEpoch
  BY <1>1 DEF NewEpoch, Epochs
<1>2. CASE PollState
  BY <1>0, <1>2 DEF PollState, WorkState
<1>3. CASE PollChallenge
  BY <1>0, <1>3 DEF PollChallenge, WorkState
<1>4. CASE PollFails
  BY <1>4 DEF PollFails
<1>5. CASE Compare
  <2>1. token < MaxToken => token + 1 \in 0..MaxToken
    OBVIOUS
  <2>2. CASE polled = last
    BY <1>5, <2>2 DEF Compare
  <2>3. CASE polled # last
    BY <1>5, <2>1, <2>3 DEF Compare
  <2> QED BY <2>2, <2>3
<1>6. CASE Publish
  <2>1. CASE listening
    BY <1>6, <2>1 DEF Publish
  <2>2. CASE ~listening
    BY <1>6, <2>2 DEF Publish
  <2> QED BY <2>1, <2>2
<1>7. CASE Subscribe
  BY <1>7 DEF Subscribe
<1>8. CASE Unsubscribe
  BY <1>8 DEF Unsubscribe
<1> QED BY <1>1, <1>2, <1>3, <1>4, <1>5, <1>6, <1>7, <1>8 DEF WatcherStep

LEMMA WatchInv ==
  ASSUME IInv, Watch
  PROVE  IInv'
<1>1. WatcherTypeOK' /\ WatcherInv' /\ (Started => Started')
  BY WatchKeeps DEF Watch, IInv, TypeOK
<1>2. UNCHANGED <<gpu, pc, work, tok, next, counter, end, high, queue, job>>
  BY DEF Watch, devices
<1>3. TypeOK'
  BY <1>1, <1>2 DEF IInv, TypeOK
<1>4. FindsHaveState' /\ CpuWithinBatch' /\ \A d \in Devices : Equipped(d)'
  BY <1>1, <1>2 DEF IInv, FindsHaveState, CpuWithinBatch, Equipped
<1> QED BY <1>1, <1>3, <1>4 DEF IInv

-----------------------------------------------------------------------------
(* Steps of one device: each touches its own locals only.                   *)

\* The facts about the watcher outlive every step of the others.
LEMMA WatcherUntouched ==
  ASSUME IInv, UNCHANGED watcherVars
  PROVE  WatcherTypeOK' /\ WatcherInv' /\ UNCHANGED <<token, published>> /\ Started' = Started
BY DEF IInv, TypeOK, watcherVars, channel, WatcherTypeOK, WatcherInv, MirrorSourceIsNewest, Started

LEMMA LookInv ==
  ASSUME IInv, NEW d \in Devices, Look(d)
  PROVE  IInv'
<1>1. WatcherTypeOK' /\ WatcherInv' /\ UNCHANGED <<token, published>> /\ Started' = Started
  BY WatcherUntouched DEF Look
<1>2. TypeOK'
  BY <1>1 DEF Look, IInv, TypeOK, WatcherTypeOK
<1>3. FindsHaveState'
  BY <1>1 DEF Look, FindsHaveState
<1>4. CpuWithinBatch'
  BY <1>1 DEF Look, IInv, TypeOK, CpuWithinBatch
<1>5. \A e \in Devices : Equipped(e)'
  BY <1>1 DEF Look, IInv, TypeOK, Equipped, Started
<1> QED BY <1>1, <1>2, <1>3, <1>4, <1>5 DEF IInv

LEMMA LoadInv ==
  ASSUME IInv, NEW d \in Devices, Load(d)
  PROVE  IInv'
<1> DEFINE base == IF tok[d] = token THEN next[d] ELSE 0
<1>1. WatcherTypeOK' /\ WatcherInv' /\ UNCHANGED <<token, published>> /\ Started' = Started
  BY WatcherUntouched DEF Load
<1>2. token \in 0..MaxToken /\ token # None
  BY NoneIsNothing DEF IInv, TypeOK, WatcherTypeOK
<1>3. base \in Nat
  BY <1>2 DEF IInv, TypeOK, Counters, Equipped
<1>4. base + Batch \in Nat /\ base <= base + Batch /\ base + Batch # None
  BY <1>3, NoneIsNothing
<1>5. /\ pc' = [pc EXCEPT ![d] = "mine"]
      /\ tok' = [tok EXCEPT ![d] = token]
      /\ next' = [next EXCEPT ![d] = base + Batch]
      /\ counter' = [counter EXCEPT ![d] = base]
      /\ end' = [end EXCEPT ![d] = base + Batch]
      /\ high' = [high EXCEPT ![d] = IF tok[d] = token THEN @ ELSE 0]
      /\ UNCHANGED <<gpu, work, queue, job>> /\ pc[d] = "load"
  BY DEF Load
<1> HIDE DEF base
<1>6. TypeOK'
  BY <1>1, <1>2, <1>3, <1>4, <1>5 DEF IInv, TypeOK, Counters
<1>7. FindsHaveState'
  BY <1>1, <1>5 DEF IInv, FindsHaveState
<1>8. CpuWithinBatch'
  <2>1. CASE d = CpuDevice
    <3>1. ~gpu => high'[d] <= base /\ high'[d] \in Nat
      BY <1>2, <1>5, <2>1 DEF IInv, TypeOK, Counters, CpuWithinBatch, base
    <3>2. /\ next'[d] = base + Batch /\ counter'[d] = base /\ end'[d] = base + Batch
          /\ gpu' = gpu
      BY <1>5 DEF IInv, TypeOK
    <3> QED BY <1>3, <1>4, <2>1, <3>1, <3>2 DEF CpuWithinBatch
  <2>2. CASE d # CpuDevice
    BY <1>5, <2>2 DEF IInv, TypeOK, CpuWithinBatch
  <2> QED BY <2>1, <2>2
<1>9. \A e \in Devices : Equipped(e)'
  BY <1>2, <1>4, <1>5 DEF IInv, TypeOK, Equipped
<1> QED BY <1>1, <1>6, <1>7, <1>8, <1>9 DEF IInv

\* The loop starts over, after an abort, a finished batch or a delivery.
LEMMA AgainInv ==
  ASSUME IInv, NEW d \in Devices, Again(d),
         UNCHANGED <<watcherVars, gpu, tok, next, high>>,
         queue' \in Seq(Solution), job' \in [sol : Solution, state : WorkState] \cup {None},
         queue' # <<>> => queue # <<>> \/ pc[d] # "look"
  PROVE  IInv'
<1>1. WatcherTypeOK' /\ WatcherInv' /\ UNCHANGED <<token, published>> /\ Started' = Started
  BY WatcherUntouched
<1>2. TypeOK'
  BY <1>1 DEF Again, IInv, TypeOK, Counters
<1>3. FindsHaveState'
  BY <1>1 DEF Again, IInv, TypeOK, FindsHaveState
<1>4. CpuWithinBatch'
  BY <1>1 DEF Again, IInv, TypeOK, CpuWithinBatch
<1>5. \A e \in Devices : Equipped(e)'
  BY <1>1 DEF Again, IInv, TypeOK, Equipped
<1> QED BY <1>1, <1>2, <1>3, <1>4, <1>5 DEF IInv

LEMMA DispatchInv ==
  ASSUME IInv, NEW d \in Devices, Dispatch(d)
  PROVE  IInv'
<1>1. PICK size \in (IF gpu THEN Sizes ELSE {1}) :
        LET hits == Tried(d, size) \cap Winning
            reached == counter[d] + size
        IN /\ high' = [high EXCEPT ![d] = IF gpu \/ reached < @ THEN @ ELSE reached]
           /\ \/ /\ hits = {}
                 /\ counter' = [counter EXCEPT ![d] = reached]
                 /\ UNCHANGED pc
              \/ /\ \E c \in hits : counter' = [counter EXCEPT ![d] = c]
                 /\ pc' = [pc EXCEPT ![d] = "found"]
  BY DEF Dispatch
<1> DEFINE reached == counter[d] + size
<1>2. WatcherTypeOK' /\ WatcherInv' /\ UNCHANGED <<token, published>> /\ Started' = Started
  BY WatcherUntouched DEF Dispatch
<1>3. UNCHANGED <<gpu, work, tok, next, end, queue, job>> /\ pc[d] = "mine"
  BY DEF Dispatch
<1>4. size \in Nat /\ counter[d] \in Nat /\ high[d] \in Nat /\ end[d] \in Nat
  BY DEF IInv, TypeOK, Counters
<1>5. reached \in Nat
  BY <1>4
<1>6. \A c \in Tried(d, size) : c \in Nat
  BY <1>4 DEF Tried
<1>7. /\ \/ counter' = [counter EXCEPT ![d] = reached] /\ UNCHANGED pc
         \/ (\E c \in Nat : counter' = [counter EXCEPT ![d] = c])
              /\ pc' = [pc EXCEPT ![d] = "found"]
      /\ high' = [high EXCEPT ![d] = IF gpu \/ reached < @ THEN @ ELSE reached]
  BY <1>1, <1>6
<1> HIDE DEF reached
<1>8. TypeOK'
  <2>1. counter' \in [Devices -> Nat]
    BY <1>5, <1>7 DEF IInv, TypeOK, Counters
  <2>2. high' \in [Devices -> Nat]
    BY <1>5, <1>7 DEF IInv, TypeOK, Counters
  <2>3. pc' \in [Devices -> {"look", "load", "mine", "found", "submit"}]
    BY <1>7 DEF IInv, TypeOK
  <2> QED BY <1>2, <1>3, <2>1, <2>2, <2>3 DEF IInv, TypeOK, Counters
<1>9. FindsHaveState'
  BY <1>2, <1>3, <1>7 DEF IInv, TypeOK, FindsHaveState
<1>10. CpuWithinBatch'
  <2>1. CASE d = CpuDevice /\ ~gpu
    <3>1. /\ tok[d] # None /\ counter[d] < end[d] /\ end[d] = next[d]
          /\ high[d] <= counter[d]
      BY <1>3, <2>1 DEF Dispatch, IInv, CpuWithinBatch, Equipped
    <3>2. reached = counter[d] + 1
      BY <1>1, <2>1 DEF reached
    <3>3. high'[d] = reached
      BY <1>4, <1>5, <1>7, <2>1, <3>1, <3>2 DEF IInv, TypeOK
    <3>4. reached <= end[d]
      BY <1>4, <3>1, <3>2
    <3>5. pc'[d] = "mine" => counter'[d] = reached
      BY <1>7 DEF IInv, TypeOK
    <3> QED BY <1>3, <1>5, <2>1, <3>1, <3>3, <3>4, <3>5 DEF CpuWithinBatch
  <2>2. CASE d # CpuDevice \/ gpu
    BY <1>3, <1>7, <2>2 DEF IInv, TypeOK, CpuWithinBatch
  <2> QED BY <2>1, <2>2
<1>11. \A e \in Devices : Equipped(e)'
  BY <1>3, <1>7 DEF IInv, TypeOK, Equipped
<1> QED BY <1>2, <1>8, <1>9, <1>10, <1>11 DEF IInv

LEMMA DeliverInv ==
  ASSUME IInv, NEW d \in Devices, Deliver(d)
  PROVE  IInv'
<1>1. Found(d) \in Solution /\ work[d] \in WorkState /\ pc[d] = "found"
  BY DEF Deliver, IInv, TypeOK, Equipped, Solution, Found
<1>2. CASE gpu
  <2>1. queue' = Append(queue, Found(d)) /\ queue \in Seq(Solution)
    BY <1>2 DEF Deliver, IInv, TypeOK
  <2>2. queue' \in Seq(Solution)
    BY <1>1, <2>1
  <2> QED BY <1>1, <1>2, <2>2, AgainInv DEF Deliver, IInv, TypeOK
<1>3. CASE ~gpu
  <2>1. WatcherTypeOK' /\ WatcherInv' /\ UNCHANGED <<token, published>> /\ Started' = Started
    BY WatcherUntouched DEF Deliver
  <2>2. /\ job' = [sol |-> Found(d), state |-> work[d]]
        /\ pc' = [pc EXCEPT ![d] = "submit"]
        /\ UNCHANGED <<gpu, work, tok, next, counter, end, high, queue>>
    BY <1>3 DEF Deliver
  <2>3. TypeOK'
    BY <1>1, <2>1, <2>2 DEF IInv, TypeOK
  <2>4. FindsHaveState' /\ CpuWithinBatch'
    BY <1>1, <2>1, <2>2 DEF IInv, TypeOK, FindsHaveState, CpuWithinBatch
  <2>5. \A e \in Devices : Equipped(e)'
    BY <1>1, <2>1, <2>2 DEF IInv, TypeOK, Equipped
  <2> QED BY <2>1, <2>3, <2>4, <2>5 DEF IInv
<1> QED BY <1>2, <1>3

-----------------------------------------------------------------------------
(* The consumer.                                                            *)

LEMMA TakeInv ==
  ASSUME IInv, Take
  PROVE  IInv'
<1>1. WatcherTypeOK' /\ WatcherInv' /\ UNCHANGED <<token, published>> /\ Started' = Started
  BY WatcherUntouched DEF Take
<1>2. published \in WorkState
  BY DEF Take, IInv, TypeOK, WatcherTypeOK, FindsHaveState, Started
<1>3. Head(queue) \in Solution /\ queue' \in Seq(Solution)
  BY DEF Take, IInv, TypeOK
<1>4. /\ UNCHANGED <<gpu, pc, work, tok, next, counter, end, high>>
      /\ queue # <<>> /\ job' = [sol |-> Head(queue), state |-> published]
  BY DEF Take, devices
<1>5. TypeOK'
  BY <1>1, <1>2, <1>3, <1>4 DEF IInv, TypeOK
<1>6. FindsHaveState' /\ CpuWithinBatch' /\ \A d \in Devices : Equipped(d)'
  BY <1>1, <1>4 DEF IInv, FindsHaveState, CpuWithinBatch, Equipped
<1> QED BY <1>1, <1>5, <1>6 DEF IInv

LEMMA SubmitInv ==
  ASSUME IInv, Submit
  PROVE  IInv'
<1>1. CASE gpu
  <2>1. WatcherTypeOK' /\ WatcherInv' /\ UNCHANGED <<token, published>> /\ Started' = Started
    BY WatcherUntouched DEF Submit
  <2>2. job' = None /\ UNCHANGED <<gpu, pc, work, tok, next, counter, end, high, queue>>
    BY <1>1 DEF Submit
  <2>3. TypeOK'
    BY <2>1, <2>2 DEF IInv, TypeOK
  <2>4. FindsHaveState' /\ CpuWithinBatch' /\ \A d \in Devices : Equipped(d)'
    BY <2>1, <2>2 DEF IInv, FindsHaveState, CpuWithinBatch, Equipped
  <2> QED BY <2>1, <2>3, <2>4 DEF IInv
<1>2. CASE ~gpu
  BY <1>2, AgainInv DEF Submit, IInv, TypeOK
<1> QED BY <1>1, <1>2

-----------------------------------------------------------------------------
LEMMA StepInv == IInv /\ [Next]_vars => IInv'
<1> SUFFICES ASSUME IInv, [Next]_vars PROVE IInv'
  OBVIOUS
<1>1. CASE Watch
  BY <1>1, WatchInv
<1>2. CASE Take
  BY <1>2, TakeInv
<1>3. CASE Submit
  BY <1>3, SubmitInv
<1>4. ASSUME NEW d \in Devices, DeviceStep(d)
      PROVE  IInv'
  <2>1. CASE Look(d)
    BY <2>1, LookInv
  <2>2. CASE Load(d)
    BY <2>2, LoadInv
  <2>3. CASE Abort(d) \/ Exhaust(d)
    BY <2>3, AgainInv DEF Abort, Exhaust, IInv, TypeOK
  <2>4. CASE Dispatch(d)
    BY <2>4, DispatchInv
  <2>5. CASE Deliver(d)
    BY <2>5, DeliverInv
  <2> QED BY <1>4, <2>1, <2>2, <2>3, <2>4, <2>5 DEF DeviceStep
<1>5. CASE UNCHANGED vars
  BY <1>5 DEF vars, watcherVars, channel, devices, IInv, TypeOK, WatcherTypeOK, WatcherInv,
              MirrorSourceIsNewest, Started, FindsHaveState, CpuWithinBatch, Equipped
<1> QED BY <1>1, <1>2, <1>3, <1>4, <1>5 DEF Next

(* The invariant the theorems below rest on. *)
THEOREM Invariance == Spec => []IInv
BY InitEstablishes, StepInv, PTL DEF Spec

(* Whatever the devices, the watcher and the consumer do in whatever order, no    *)
(* device works with a state, token or allocator it does not have, and no         *)
(* solution is paired with a state that is not there.                             *)
THEOREM TypeCorrectness == Spec => []TypeOK
BY Invariance, PTL DEF IInv

(* The CPU loop searches no counter of a prefix twice, however aborts, finds and  *)
(* finished batches follow each other.                                            *)
THEOREM CpuSearchesOnce == Spec => []CpuNeverRepeats
<1>1. IInv => CpuNeverRepeats
  BY DEF IInv, CpuNeverRepeats, CpuWithinBatch, Equipped
<1> QED BY <1>1, Invariance, PTL

\* Steps of the others leave the watcher alone.
LEMMA OnlyWatch ==
  ASSUME Next, ~Watch
  PROVE  UNCHANGED watcherVars
BY DEF Next, Take, Submit, DeviceStep, Look, Load, Abort, Exhaust, Dispatch, Deliver, vars

(* Polls that fail, tear or repeat themselves, receivers that come and go: the      *)
(* token moves once for each change of state, before the state is shown or missed.  *)
THEOREM Refinement == Spec => ImplementsFeed
<1>1. Init => Feed!Init
  BY DEF Init, WatcherInit, Feed!Init
<1>2. IInv /\ [Next]_vars => [Feed!Next]_Feed!feedVars
  <2> SUFFICES ASSUME IInv, [Next]_vars
               PROVE  Feed!Next \/ UNCHANGED <<token, last, wpc = "publish", published, listening>>
    BY DEF Feed!feedVars
  <2>1. CASE Compare
    <3>1. polled \in WorkState
      BY <2>1 DEF Compare, IInv, TypeOK, WatcherTypeOK, WatcherInv
    <3>2. wpc # "publish" /\ wpc' = "publish" /\ UNCHANGED <<published, listening>>
      BY <2>1 DEF Compare, channel
    <3>3. last' = polled /\ token' = IF polled = last THEN token ELSE token + 1
      BY <2>1 DEF Compare
    <3>4. Feed!Offer(polled)
      BY <3>2, <3>3 DEF Feed!Offer
    <3> QED BY <3>1, <3>4 DEF Feed!Next
  <2>2. CASE Publish
    <3>1. wpc = "publish" /\ wpc' # "publish" /\ UNCHANGED <<token, last, listening>>
      BY <2>2 DEF Publish
    <3>2. published' = IF listening THEN last ELSE published
      BY <2>2 DEF Publish, IInv, WatcherInv
    <3> QED BY <3>1, <3>2 DEF Feed!Next, Feed!Show, Feed!Miss, IInv, TypeOK, WatcherTypeOK
  <2>3. CASE Subscribe \/ Unsubscribe
    BY <2>3 DEF Subscribe, Unsubscribe, Feed!Next, Feed!ComeOrGo
  <2>4. CASE NewEpoch \/ PollState \/ PollChallenge \/ PollFails
    BY <2>4 DEF NewEpoch, PollState, PollChallenge, PollFails, channel
  <2>5. CASE UNCHANGED watcherVars
    BY <2>5 DEF watcherVars, channel
  <2> QED BY <2>1, <2>2, <2>3, <2>4, <2>5, OnlyWatch DEF Watch, WatcherStep, vars
<1> QED BY <1>1, <1>2, Invariance, PTL DEF Spec, ImplementsFeed, Feed!Spec

-----------------------------------------------------------------------------
(* With and without a lasting receiver                                      *)

(* Between two polls a coordinator's channel holds the state of the newest token.   *)
THEOREM CoordinatorKeepsUp == Spec => []MirrorSourceIsNewest
BY Invariance, PTL DEF IInv, WatcherInv

(* Whatever the contract, the watcher and the devices do: the devices of            *)
(* standalone_mine read one state for the life of the process.                      *)
THEOREM StandaloneFreezes == Spec => FrozenOnceStarted
<1>1. IInv /\ [Next]_vars => [Started => Started' /\ published' = published]_watcherVars
  <2> SUFFICES ASSUME IInv, Next, Started
               PROVE  (Started' /\ published' = published) \/ UNCHANGED watcherVars
    BY DEF vars
  <2>1. CASE Watch
    BY <2>1, WatchKeeps DEF Watch, IInv, TypeOK
  <2> QED BY <2>1, OnlyWatch
<1> QED BY <1>1, Invariance, PTL DEF Spec, FrozenOnceStarted

-----------------------------------------------------------------------------
(* The order of what is published                                           *)

LEMMA OrderSteps ==
  ASSUME WatcherTypeOK, WatcherInv, OrderInv, NewEpoch \/ WatcherStep \/ Subscribe \/ Unsubscribe
  PROVE  /\ OrderInv'
         /\ published' # published =>
              /\ published'.epoch <= head /\ published'.challenge <= head
              /\ published'.epoch <= published'.challenge + Lag
              /\ published # None =>
                    /\ published.epoch <= published'.epoch + Lag
                    /\ published.challenge <= published'.challenge + Lag
<1>0. /\ head \in Nat /\ Lag \in Nat
      /\ \A e \in Readable : e \in Nat /\ e <= head /\ head <= e + Lag
      /\ \A s \in {published, polled} : s # None => s.epoch \in Nat /\ s.challenge \in Nat
  BY DEF WatcherTypeOK, Epochs, WorkState, Readable
<1> USE DEF OrderInv, channel
<1>1. CASE NewEpoch
  <2>1. head' = head + 1 /\ UNCHANGED <<polled, published>>
    BY <1>1 DEF NewEpoch
  <2> QED BY <1>0, <2>1
<1>2. CASE PollState
  <2>1. PICK e \in Readable : polled' = [epoch |-> e, challenge |-> e]
    BY <1>2 DEF PollState
  <2>2. UNCHANGED <<head, published>>
    BY <1>2 DEF PollState
  <2>3. polled'.epoch = e /\ polled'.challenge = e
    BY <2>1
  <2> QED BY <1>0, <2>2, <2>3
<1>3. CASE PollChallenge
  <2>1. PICK e \in Readable : polled' = [polled EXCEPT !.challenge = e]
    BY <1>3 DEF PollChallenge
  <2>2. UNCHANGED <<head, published>> /\ polled # None
    BY <1>3 DEF PollChallenge, WatcherInv
  <2>3. polled'.epoch = polled.epoch /\ polled'.challenge = e
    BY <2>1, <2>2 DEF WatcherTypeOK, WorkState
  <2> QED BY <1>0, <2>2, <2>3
<1>4. CASE PollFails
  BY <1>0, <1>4 DEF PollFails
<1>5. CASE Compare
  BY <1>0, <1>5 DEF Compare
<1>6. CASE Publish
  <2>1. /\ published' \in {published, polled} /\ polled' = None
        /\ UNCHANGED head /\ polled # None
    BY <1>6 DEF Publish, WatcherInv
  <2> QED BY <1>0, <2>1
<1>7. CASE Subscribe \/ Unsubscribe
  BY <1>0, <1>7 DEF Subscribe, Unsubscribe
<1> QED BY <1>1, <1>2, <1>3, <1>4, <1>5, <1>6, <1>7 DEF WatcherStep

(* Polls whose calls are answered by different endpoints at different blocks: what  *)
(* is published follows the contract within the lag: the guard of Coordinator's     *)
(* Publish is what a watcher with a receiver guarantees.                            *)
THEOREM OrderOfPublishing == Spec => PublishedInOrder
<1> DEFINE Ordered ==
      published' # published =>
        /\ published'.epoch <= head /\ published'.challenge <= head
        /\ published'.epoch <= published'.challenge + Lag
        /\ published # None =>
              /\ published.epoch <= published'.epoch + Lag
              /\ published.challenge <= published'.challenge + Lag
<1>1. Init => OrderInv
  BY DEF Init, WatcherInit, OrderInv
<1>2. IInv /\ OrderInv /\ [Next]_vars => OrderInv' /\ [Ordered]_watcherVars
  <2> SUFFICES ASSUME IInv, OrderInv, [Next]_vars
               PROVE  OrderInv' /\ (Ordered \/ UNCHANGED watcherVars)
    OBVIOUS
  <2>1. WatcherTypeOK /\ WatcherInv
    BY DEF IInv, TypeOK
  <2>2. CASE Watch
    BY <2>1, <2>2, OrderSteps DEF Watch
  <2>3. CASE ~Watch
    <3>1. UNCHANGED watcherVars
      BY <2>3, OnlyWatch DEF vars
    <3> QED BY <3>1 DEF watcherVars, channel, OrderInv
  <2> QED BY <2>2, <2>3
<1> QED BY <1>1, <1>2, Invariance, PTL DEF Spec, PublishedInOrder
=============================================================================

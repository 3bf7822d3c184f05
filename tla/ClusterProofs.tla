---------------------------- MODULE ClusterProofs ----------------------------
(***************************************************************************)
(* For any number of workers, devices, batches, epochs, registrations and  *)
(* restarts, and however far endpoints lag: workers search different       *)
(* ranges in the first life of the coordinator, devices of a worker        *)
(* different batches unless their allocator was bound to the same state    *)
(* twice, and a solution is sent no more often than its challenge was      *)
(* taken up while it could be read.  The argument: an id that was taken    *)
(* is nobody else's, a batch that is out is behind its allocator or noted  *)
(* to be when the allocator comes back, and whoever is past the recheck    *)
(* inserted a key that one chance paid for.                                *)
(***************************************************************************)
EXTENDS Cluster, FiniteSetTheorems, TLAPS

USE CoordinatorAssumption, ClusterAssumption

LEMMA InitEstablishes == Init => IInv
<1> SUFFICES ASSUME Init PROVE IInv
  OBVIOUS
<1> USE DEF Init, CoordInit
<1>1. CoordTypeOK
  BY DEF CoordTypeOK, Epochs, Lives, Ids
<1>2. TypeOK
  BY <1>1 DEF TypeOK, WorkerTypeOK
<1>3. StatesInv /\ RegInv /\ BoundInv /\ \A d \in Devices : LabelInv(d) /\ WorkInv(d)
  BY DEF StatesInv, RegInv, BoundInv, HasEntry, LabelInv, WorkInv
<1>4. IdInv
  BY DEF IdInv, Holds, Uses
<1>5. ChanceInv
  BY DEF ChanceInv
<1>6. ASSUME NEW s \in Solution
      PROVE  /\ Times(s) + Cardinality(Signing(s)) <= chances[Challenge(s)]
             /\ ~(chances[Challenge(s)] > 0)
  <2>1. chances[Challenge(s)] = 0
    BY DEF Challenge, Solution, Prefix, WorkState
  <2>2. Times(s) = 0
    BY DEF Times
  <2>3. Signing(s) = {}
    BY DEF Signing
  <2>4. Cardinality(Signing(s)) = 0
    BY <2>3, FS_EmptySet
  <2> QED BY <2>1, <2>2, <2>4
<1> QED BY <1>2, <1>3, <1>4, <1>5, <1>6 DEF IInv, SentInv

-----------------------------------------------------------------------------
(* The allocator *)

LEMMA AllocatorTypes ==
  ASSUME NEW a \in Alloc, NEW s \in WorkState
  PROVE  /\ NewAllocator(s) \in Alloc /\ Rebind(a, s) \in Alloc /\ Advance(a) \in Alloc
         /\ Rebind(a, s).state = s /\ Advance(a).state = a.state
         /\ a.next < Batches => Advance(a).next = a.next + 1
<1>1. NewAllocator(s) \in Alloc /\ NewAllocator(s).state = s
  BY DEF NewAllocator, Alloc, Counters
<1>2. Rebind(a, s) \in Alloc /\ Rebind(a, s).state = s
  BY <1>1 DEF Rebind, Alloc
<1>3. a.state \in WorkState /\ a.next \in Counters
  BY DEF Alloc
<1>4. (IF a.next < Batches THEN a.next + 1 ELSE a.next) \in Counters
  BY <1>3 DEF Counters
<1>5. Advance(a) = [state |-> a.state, next |-> IF a.next < Batches THEN a.next + 1 ELSE a.next]
  BY DEF Advance, Alloc
<1> QED BY <1>1, <1>2, <1>3, <1>4, <1>5 DEF Alloc

\* What the histories note of a binding.
LEMMA BindEffect ==
  ASSUME NEW i \in Ids, NEW s \in WorkState, NEW now \in BOOLEAN, Bind(i, s, now),
         life \in Lives, bound \subseteq Prefix, rebound \subseteq bound
  PROVE  /\ bound' \subseteq Prefix /\ rebound' \subseteq bound'
         /\ bound \subseteq bound' /\ rebound \subseteq rebound'
         /\ \A p \in bound' : p \in bound \/ (p.id = i /\ p.life = life)
         /\ Batches > 0 /\ now =>
              /\ PrefixOf(i, s) \in bound'
              /\ PrefixOf(i, s) \in bound => PrefixOf(i, s) \in rebound'
<1> DEFINE new == IF now /\ Batches > 0 THEN {PrefixOf(i, s)} ELSE {}
<1>1. bound' = bound \cup new /\ rebound' = rebound \cup (new \cap bound)
  BY DEF Bind
<1>2. PrefixOf(i, s) \in Prefix /\ PrefixOf(i, s).id = i /\ PrefixOf(i, s).life = life
  BY DEF PrefixOf, Prefix
<1> QED BY <1>1, <1>2

\* What a call of work does to the entry, seen from outside.
LEMMA HandOutEffect ==
  ASSUME TypeOK, NEW i \in Ids, NEW s \in WorkState, HandOut(i, s)
  PROVE  /\ entries[i] \in Alloc /\ Rebind(entries[i], s) \in Alloc
         /\ entries' = [entries EXCEPT ![i] = Advance(Rebind(entries[i], s))]
         /\ entries'[i] \in Alloc /\ entries'[i].state = s
         /\ Handed(i, s) \in Work
         /\ entries' \in [Ids -> Alloc \cup {None}]
<1>1. entries \in [Ids -> Alloc \cup {None}] /\ life \in Lives
  BY DEF TypeOK, CoordTypeOK
<1>2. entries[i] \in Alloc
  BY <1>1 DEF HandOut, HasEntry
<1>3. Rebind(entries[i], s) \in Alloc /\ Rebind(entries[i], s).state = s
  BY <1>2, AllocatorTypes
<1>4. Advance(Rebind(entries[i], s)) \in Alloc /\ Advance(Rebind(entries[i], s)).state = s
  BY <1>3, AllocatorTypes
<1>5. entries' = [entries EXCEPT ![i] = Advance(Rebind(entries[i], s))]
  BY DEF HandOut
<1>6. Handed(i, s) \in Work
  BY <1>1, <1>3 DEF Handed, PrefixOf, Work, Prefix, Alloc
<1> QED BY <1>1, <1>2, <1>3, <1>4, <1>5, <1>6

-----------------------------------------------------------------------------
(* What any step does to the coordinator *)

CoordStep ==
  \/ UNCHANGED coordVars
  \/ NewEpoch \/ Publish \/ MirrorClear \/ MirrorWrite \/ Collect \/ Crash \/ TakeId
  \/ \E x \in Callers : reg[x] # None /\ InsertEntry(reg[x].id, reg[x].state)
  \/ \E i \in Ids, s \in states : HandOut(i, s)
  \/ \E s \in Solution : InsertKey(s) \/ CountSent(s)

LEMMA StepsOfTheCoordinator ==
  ASSUME IInv, Next
  PROVE  CoordStep
<1>0. TypeOK /\ \A d \in Devices : LabelInv(d)
  BY DEF IInv
<1>1. CASE Background \/ Crash
  BY <1>1 DEF Background, Crash, CoordStep
<1>2. ASSUME NEW w \in Workers, Boot(w) PROVE CoordStep
  BY <1>2 DEF Boot, Register, CoordStep
<1>3. ASSUME NEW x \in Callers, Registered(x) \/ RegisterFails(x) PROVE CoordStep
  BY <1>3 DEF Registered, RegisterFails, CoordStep
<1>4. ASSUME NEW d \in Devices, Reregister(d) PROVE CoordStep
  BY <1>4 DEF Reregister, Register, CoordStep
<1>5. ASSUME NEW d \in Devices, Serve(d) PROVE CoordStep
  <2>1. wid[d].id \in Ids /\ state[d] \in states
    BY <1>0, <1>5 DEF Serve, LabelInv, TypeOK, WorkerTypeOK, Id
  <2> QED BY <1>5, <2>1 DEF Serve, CoordStep
<1>6. ASSUME NEW d \in Devices, PollServe(d) PROVE CoordStep
  <2>1. pid[d].id \in Ids /\ pstate[d] \in states
    BY <1>0, <1>6 DEF PollServe, LabelInv, TypeOK, WorkerTypeOK, Id
  <2> QED BY <1>6, <2>1 DEF PollServe, CoordStep
<1>7. ASSUME NEW d \in Devices, Dedupe(d) \/ Send(d) PROVE CoordStep
  <2>1. sol[d] \in Solution
    BY <1>0, <1>7 DEF Dedupe, Send, LabelInv, TypeOK, WorkerTypeOK
  <2> QED BY <1>7, <2>1 DEF Dedupe, Send, CoordStep
<1>8. ASSUME NEW d \in Devices,
             \/ Ask(d) \/ Note(d) \/ Snapshot(d) \/ Abort(d) \/ Exhaust(d) \/ Find(d)
             \/ Post(d) \/ Recheck(d) \/ Timeout(d) \/ Poll(d) \/ PollFails(d) \/ PollNote(d)
      PROVE  CoordStep
  BY <1>8 DEF Ask, Note, Snapshot, Abort, Exhaust, Find, Post, Recheck, Timeout, Poll,
              PollFails, PollNote, CoordStep
<1> QED BY <1>1, <1>2, <1>3, <1>4, <1>5, <1>6, <1>7, <1>8 DEF Next, DeviceStep, PollerStep

-----------------------------------------------------------------------------
(* Types and the published states *)

LEMMA CoordTypePreserves ==
  ASSUME IInv, CoordStep
  PROVE  CoordTypeOK'
<1>0. CoordTypeOK /\ TypeOK /\ StatesInv /\ WorkerTypeOK
  BY DEF IInv, TypeOK
<1> USE DEF CoordTypeOK
<1>1. CASE UNCHANGED coordVars
  BY <1>0, <1>1 DEF coordVars
<1>2. CASE NewEpoch
  BY <1>0, <1>2 DEF NewEpoch, Epochs, histories, bindings
<1>3. CASE Publish
  <2>1. changes' \in 0..MaxChanges
    BY <1>0, <1>3 DEF Publish
  <2> QED BY <1>0, <1>3, <2>1 DEF Publish, bindings
<1>4. CASE MirrorClear
  <2>1. published \in WorkState
    BY <1>0, <1>4 DEF MirrorClear, StatesInv
  <2>2. published.epoch \in Epochs
    BY <2>1 DEF WorkState
  <2>3. chances' \in [Epochs -> Nat]
    BY <1>0, <1>4 DEF MirrorClear
  <2> QED BY <1>0, <1>4, <2>1, <2>2, <2>3 DEF MirrorClear, bindings
<1>5. CASE MirrorWrite
  BY <1>0, <1>5 DEF MirrorWrite, histories, bindings
<1>6. CASE Collect
  BY <1>0, <1>6 DEF Collect, histories, bindings
<1>7. CASE TakeId
  <2>1. seq' \in 0..MaxSeq
    BY <1>0, <1>7 DEF TakeId
  <2> QED BY <1>0, <1>7, <2>1 DEF TakeId, histories, bindings
<1>8. CASE \E i \in Ids, s \in states : HandOut(i, s)
  <2>1. PICK i \in Ids, s \in WorkState : HandOut(i, s)
    BY <1>0, <1>8
  <2>2. entries' \in [Ids -> Alloc \cup {None}]
    BY <1>0, <2>1, HandOutEffect
  <2>3. (entries[i].state # s) \in BOOLEAN /\ Bind(i, s, entries[i].state # s)
    BY <2>1 DEF HandOut
  <2>4. bound' \subseteq Prefix /\ rebound' \subseteq bound'
    BY <1>0, <2>3, BindEffect
  <2> QED BY <1>0, <2>1, <2>2, <2>4 DEF HandOut
<1>9. CASE \E s \in Solution : InsertKey(s)
  BY <1>0, <1>9 DEF InsertKey, histories, bindings
<1>10. CASE \E s \in Solution : CountSent(s)
  <2>1. PICK s \in Solution : CountSent(s)
    BY <1>10
  <2>2. DOMAIN sent' \subseteq Solution /\ \A t \in DOMAIN sent' : sent'[t] \in Nat
    BY <1>0, <2>1 DEF CountSent
  <2> QED BY <1>0, <2>1, <2>2 DEF CountSent, bindings
<1>11. CASE Crash
  <2>1. /\ life' \in Lives /\ 0 \in Epochs /\ 0 \in 0..MaxSeq /\ 0 \in 0..MaxChanges
    BY <1>0, <1>11 DEF Crash, CoordRestart, Lives, Epochs
  <2>2. /\ seen' \in [epoch : Epochs, keys : SUBSET Solution] /\ seq' \in 0..MaxSeq
        /\ entries' \in [Ids -> Alloc \cup {None}] /\ changes' \in 0..MaxChanges
        /\ chances' \in [Epochs -> Nat]
        /\ DOMAIN sent' \subseteq Solution /\ \A t \in DOMAIN sent' : sent'[t] \in Nat
    BY <2>1, <1>11 DEF Crash, CoordRestart, Fresh
  <2> QED BY <1>0, <1>11, <2>1, <2>2 DEF Crash, CoordRestart, Fresh, bindings
<1>12. CASE \E x \in Callers : reg[x] # None /\ InsertEntry(reg[x].id, reg[x].state)
  <2>1. PICK x \in Callers : reg[x] # None /\ InsertEntry(reg[x].id, reg[x].state)
    BY <1>12
  <2>2. reg[x].id \in Ids /\ reg[x].state \in WorkState
    BY <1>0, <2>1 DEF WorkerTypeOK, Registration
  <2>3. NewAllocator(reg[x].state) \in Alloc
    BY <2>2 DEF NewAllocator, Alloc, Counters
  <2>4. bound' \subseteq Prefix /\ rebound' \subseteq bound'
    BY <1>0, <2>1, <2>2, BindEffect DEF InsertEntry
  <2> QED BY <1>0, <2>1, <2>3, <2>4 DEF InsertEntry
<1> QED BY <1>1, <1>2, <1>3, <1>4, <1>5, <1>6, <1>7, <1>8, <1>9, <1>10, <1>11, <1>12
     DEF CoordStep

LEMMA StatesPreserve ==
  ASSUME IInv, CoordStep
  PROVE  StatesInv'
<1>0. CoordTypeOK /\ TypeOK /\ WorkerTypeOK /\ StatesInv /\ RegInv
  BY DEF IInv, TypeOK
<1>t. head \in Nat /\ \A s \in states : s \in WorkState /\ s.epoch \in Nat /\ s.challenge \in Nat
  BY <1>0 DEF CoordTypeOK, WorkState, Epochs
<1> USE DEF StatesInv, HasEntry
<1>1. CASE \/ UNCHANGED coordVars \/ NewEpoch \/ MirrorClear
           \/ \E s \in Solution : InsertKey(s) \/ CountSent(s)
  <2>1. /\ UNCHANGED <<published, latest, entries, seq, states>>
        /\ mirroring' \in {mirroring, published} /\ head' \in {head, head + 1}
    BY <1>1 DEF coordVars, NewEpoch, MirrorClear, InsertKey, CountSent, histories, bindings
  <2>2. mirroring' \in states \cup {None}
    BY <1>0, <2>1
  <2>3. \A s \in states : s.challenge <= head'
    BY <1>0, <1>t, <2>1
  <2> QED BY <1>0, <2>1, <2>2, <2>3
<1>2. CASE Publish
  <2>1. PICK s \in WorkState : /\ s.challenge <= head
                               /\ published' = s /\ states' = states \cup {s}
    BY <1>2 DEF Publish
  <2>2. UNCHANGED <<head, mirroring, latest, entries, seq>>
    BY <1>2 DEF Publish
  <2> QED BY <1>0, <2>1, <2>2
<1>3. CASE MirrorWrite
  BY <1>0, <1>3 DEF MirrorWrite, histories, bindings
<1>4. CASE Collect
  BY <1>0, <1>4 DEF Collect, CoordTypeOK, histories, bindings
<1>5. CASE TakeId
  <2>1. /\ seq \in Nat /\ seq' = seq + 1
        /\ UNCHANGED <<head, published, mirroring, latest, entries, states>>
    BY <1>0, <1>5 DEF TakeId, CoordTypeOK, histories, bindings
  <2>2. \A i \in Ids : i <= seq => i <= seq'
    BY <2>1 DEF Ids
  <2> QED BY <1>0, <2>1, <2>2
<1>6. CASE \E i \in Ids, s \in states : HandOut(i, s)
  <2>1. PICK i \in Ids, s \in states : HandOut(i, s)
    BY <1>6
  <2>2. s \in WorkState
    BY <1>0 DEF CoordTypeOK
  <2>3. /\ entries' = [entries EXCEPT ![i] = Advance(Rebind(entries[i], s))]
        /\ entries'[i].state = s /\ entries[i] # None
    <3>1. entries[i] # None
      BY <2>1 DEF HandOut
    <3> QED BY <1>0, <2>1, <2>2, <3>1, HandOutEffect
  <2>4. UNCHANGED <<head, published, mirroring, latest, seq, states>>
    BY <2>1 DEF HandOut
  <2>5. \A j \in Ids : entries'[j] # None => j <= seq /\ entries'[j].state \in states
    <3> TAKE j \in Ids
    <3>1. CASE j = i
      BY <1>0, <2>3, <3>1
    <3>2. CASE j # i
      BY <1>0, <2>3, <3>2 DEF CoordTypeOK
    <3> QED BY <3>1, <3>2
  <2> QED BY <1>0, <2>4, <2>5
<1>7. CASE \E x \in Callers : reg[x] # None /\ InsertEntry(reg[x].id, reg[x].state)
  <2>1. PICK x \in Callers : reg[x] # None /\ InsertEntry(reg[x].id, reg[x].state)
    BY <1>7
  <2>2. /\ entries' = [entries EXCEPT ![reg[x].id] = NewAllocator(reg[x].state)]
        /\ UNCHANGED <<head, published, mirroring, latest, seq, states>>
    BY <2>1 DEF InsertEntry
  <2>3. reg[x].id <= seq /\ reg[x].state \in states
    BY <1>0, <2>1 DEF RegInv
  <2>4. \A j \in Ids : entries'[j] # None => j <= seq /\ entries'[j].state \in states
    <3> TAKE j \in Ids
    <3>1. CASE j = reg[x].id
      BY <1>0, <2>2, <2>3, <3>1 DEF CoordTypeOK, NewAllocator
    <3>2. CASE j # reg[x].id
      BY <1>0, <2>2, <3>2 DEF CoordTypeOK
    <3> QED BY <3>1, <3>2
  <2> QED BY <1>0, <2>2, <2>4
<1>8. CASE Crash
  BY <1>8 DEF Crash, CoordRestart, Fresh
<1> QED BY <1>1, <1>2, <1>3, <1>4, <1>5, <1>6, <1>7, <1>8 DEF CoordStep


-----------------------------------------------------------------------------
(* Types and labels of the workers *)

LEMMA RegistrationTypes ==
  ASSUME IInv, NEW x \in Callers
  PROVE  WorkerOf(x) \in Workers /\ (reg[x] # None => reg[x].id \in Ids /\ reg[x].state \in WorkState)
BY DEF IInv, TypeOK, WorkerTypeOK, Registration, Callers, WorkerOf

LEMMA WorkerTypePreserves ==
  ASSUME IInv, Next, CoordTypeOK'
  PROVE  WorkerTypeOK'
<1>0. /\ CoordTypeOK /\ WorkerTypeOK /\ StatesInv /\ \A d \in Devices : LabelInv(d)
      /\ latest \in WorkState \cup {None} /\ life \in Lives
  BY DEF IInv, TypeOK, CoordTypeOK
<1> USE DEF WorkerTypeOK, device, memory, poller, workerVars, Goto, Again, Rest
<1>1. CASE Background
  BY <1>0, <1>1 DEF Background
<1>2. CASE Crash
  BY <1>0, <1>2 DEF Crash
<1>3. ASSUME NEW x \in Callers, Register(x) PROVE reg' \in [Callers -> Registration \cup {None}]
  <2>1. NextId \in Ids
    BY <1>0, <1>3 DEF Register, TakeId, NextId, CoordTypeOK, Ids
  <2> QED BY <1>0, <1>3, <2>1 DEF Register, Registration
<1>4. ASSUME NEW w \in Workers, Boot(w) PROVE WorkerTypeOK'
  <2>1. reg' \in [Callers -> Registration \cup {None}]
    BY <1>3, <1>4 DEF Boot, Callers
  <2> QED BY <1>0, <1>4, <2>1 DEF Boot
<1>5. ASSUME NEW d \in Devices, Reregister(d) PROVE WorkerTypeOK'
  <2>1. reg' \in [Callers -> Registration \cup {None}]
    BY <1>3, <1>5 DEF Reregister, Callers
  <2> QED BY <1>0, <1>5, <2>1 DEF Reregister
<1>r. ASSUME NEW x \in Callers, Registered(x) \/ RegisterFails(x) PROVE WorkerTypeOK'
  <2>1. CASE RegisterFails(x)
    BY <1>0, <2>1 DEF RegisterFails
  <2>2. CASE Registered(x)
    <3>1. WorkerOf(x) \in Workers /\ [id |-> reg[x].id, life |-> life] \in Id
      BY <1>0, <2>2, RegistrationTypes DEF Registered, Id
    <3>2. id' \in [Workers -> Id \cup {None}]
      BY <1>0, <2>2, <3>1 DEF Registered
    <3>3. pc' \in [Devices -> {"register", "fetch", "asked", "got", "noted", "mine",
                               "found", "posted", "submit", "sign"}]
      BY <1>0, <2>2 DEF Registered
    <3>4. /\ reg' = [reg EXCEPT ![x] = None]
          /\ UNCHANGED <<owner, wid, state, work, sol, memory, poller>>
      BY <2>2 DEF Registered
    <3> QED BY <1>0, <3>2, <3>3, <3>4
  <2> QED BY <1>r, <2>1, <2>2
<1>6. ASSUME NEW d \in Devices, Ask(d) PROVE WorkerTypeOK'
  BY <1>0, <1>6 DEF Ask
<1>7. ASSUME NEW d \in Devices, Serve(d) PROVE WorkerTypeOK'
  <2>1. wid[d].id \in Ids /\ state[d] \in WorkState
    BY <1>0, <1>7 DEF Serve, LabelInv, Id, CoordTypeOK
  <2>2. CASE HandOut(wid[d].id, state[d])
    <3>1. Handed(wid[d].id, state[d]) \in Work
      BY <1>0, <2>1, <2>2, HandOutEffect DEF TypeOK
    <3>2. ~ (~HasEntry(wid[d].id))
      BY <2>2 DEF HandOut
    <3> QED BY <1>0, <1>7, <3>1, <3>2 DEF Serve
  <2>3. CASE ~HandOut(wid[d].id, state[d])
    BY <1>0, <1>7, <2>3 DEF Serve
  <2> QED BY <2>2, <2>3
<1>8. ASSUME NEW d \in Devices, Note(d) PROVE WorkerTypeOK'
  <2>1. work[d].prefix.state \in WorkState
    BY <1>0, <1>8 DEF Note, LabelInv, Work, Prefix
  <2> QED BY <1>0, <1>8, <2>1 DEF Note
<1>9. ASSUME NEW d \in Devices, Snapshot(d) \/ Abort(d) \/ Exhaust(d) \/ Timeout(d)
      PROVE WorkerTypeOK'
  BY <1>0, <1>9 DEF Snapshot, Abort, Exhaust, Timeout
<1>10. ASSUME NEW d \in Devices, Find(d) PROVE WorkerTypeOK'
  <2>1. PICK n \in Reach(work[d].base) \cap Winning :
          sol' = [sol EXCEPT ![d] = [prefix |-> work[d].prefix, nonce |-> n]]
    BY <1>10 DEF Find
  <2>2. [prefix |-> work[d].prefix, nonce |-> n] \in Solution
    BY <1>0, <1>10 DEF Find, LabelInv, Work, Solution
  <2> QED BY <1>0, <1>10, <2>1, <2>2 DEF Find
<1>11. ASSUME NEW d \in Devices, Post(d) PROVE WorkerTypeOK'
  BY <1>0, <1>11 DEF Post
<1>12. ASSUME NEW d \in Devices, Dedupe(d) PROVE WorkerTypeOK'
  BY <1>0, <1>12 DEF Dedupe
<1>13. ASSUME NEW d \in Devices, Recheck(d) \/ Send(d) PROVE WorkerTypeOK'
  BY <1>0, <1>13 DEF Recheck, Send
<1>14. ASSUME NEW d \in Devices, Poll(d) \/ PollServe(d) \/ PollFails(d) PROVE WorkerTypeOK'
  <2>1. CASE Poll(d) \/ PollFails(d)
    BY <1>0, <2>1 DEF Poll, PollFails
  <2>2. CASE PollServe(d)
    BY <1>0, <2>2 DEF PollServe
  <2> QED BY <1>14, <2>1, <2>2
<1>15. ASSUME NEW d \in Devices, PollNote(d) PROVE WorkerTypeOK'
  <2>1. (bumped[d] \/ last[d] # pstate[d]) \in BOOLEAN
    OBVIOUS
  <2>2. bumped' \in [Devices -> BOOLEAN]
    <3>1. bumped' = [bumped EXCEPT ![d] = bumped[d] \/ last[d] # pstate[d]]
      BY <1>15 DEF PollNote
    <3> QED BY <1>0, <2>1, <3>1
  <2> QED BY <1>0, <1>15, <2>2 DEF PollNote
<1> QED BY <1>1, <1>2, <1>4, <1>5, <1>r, <1>6, <1>7, <1>8, <1>9, <1>10, <1>11, <1>12, <1>13,
           <1>14, <1>15 DEF Next, DeviceStep, PollerStep

\* Only a restart forgets states.
LEMMA StatesStay ==
  ASSUME CoordStep, ~Crash
  PROVE  states \subseteq states'
BY DEF CoordStep, coordVars, histories, NewEpoch, Publish, MirrorClear, MirrorWrite, Collect,
       TakeId, InsertEntry, HandOut, InsertKey, CountSent

LEMMA LabelPreserves ==
  ASSUME IInv, Next, CoordStep, NEW e \in Devices
  PROVE  LabelInv(e)'
<1>0. /\ CoordTypeOK /\ WorkerTypeOK /\ StatesInv /\ \A d \in Devices : LabelInv(d)
      /\ latest \in states \cup {None} /\ states \subseteq WorkState
  BY DEF IInv, TypeOK, CoordTypeOK, StatesInv
<1> USE DEF WorkerTypeOK, device, memory, poller, workerVars, Goto, Again, Rest, LabelInv
<1>1. CASE Crash
  BY <1>0, <1>1 DEF Crash
<1>2. CASE ~Crash
  <2>0. states \subseteq states'
    BY <1>2, StatesStay
  <2>1. CASE Background
    BY <1>0, <2>0, <2>1 DEF Background
  <2>2. ASSUME NEW w \in Workers, Boot(w) PROVE LabelInv(e)'
    BY <1>0, <2>0, <2>2 DEF Boot
  <2>3. ASSUME NEW d \in Devices, Reregister(d) PROVE LabelInv(e)'
    BY <1>0, <2>0, <2>3 DEF Reregister
  <2>r. ASSUME NEW x \in Callers, Registered(x) \/ RegisterFails(x) PROVE LabelInv(e)'
    <3>1. /\ pc'[e] \in {pc[e], "fetch"}
          /\ UNCHANGED <<wid, state, work, sol, poller>>
      BY <1>0, <2>r DEF Registered, RegisterFails
    <3> QED BY <1>0, <2>0, <3>1
  <2>4. ASSUME NEW d \in Devices, Ask(d) PROVE LabelInv(e)'
    BY <1>0, <2>0, <2>4 DEF Ask
  <2>5. ASSUME NEW d \in Devices, Serve(d) PROVE LabelInv(e)'
    <3>1. CASE HandOut(wid[d].id, state[d])
      <4>1. Handed(wid[d].id, state[d]) # None
        <5>1. Handed(wid[d].id, state[d]) \in Work
          BY <1>0, <2>5, <3>1, HandOutEffect DEF TypeOK, Serve, Id
        <5> QED BY <5>1 DEF Work
      <4>2. ~ (~HasEntry(wid[d].id))
        BY <3>1 DEF HandOut
      <4> QED BY <1>0, <2>0, <2>5, <4>1, <4>2 DEF Serve
    <3>2. CASE ~HandOut(wid[d].id, state[d])
      BY <1>0, <2>0, <2>5, <3>2 DEF Serve
    <3> QED BY <3>1, <3>2
  <2>6. ASSUME NEW d \in Devices, Note(d) \/ Snapshot(d) \/ Abort(d) \/ Exhaust(d) \/ Timeout(d)
        PROVE  LabelInv(e)'
    BY <1>0, <2>0, <2>6 DEF Note, Snapshot, Abort, Exhaust, Timeout
  <2>7. ASSUME NEW d \in Devices, Find(d) PROVE LabelInv(e)'
    <3>1. PICK n \in Reach(work[d].base) \cap Winning :
            sol' = [sol EXCEPT ![d] = [prefix |-> work[d].prefix, nonce |-> n]]
      BY <2>7 DEF Find
    <3>2. [prefix |-> work[d].prefix, nonce |-> n] # None
      BY <1>0, <2>7 DEF Find, Work, Solution
    <3> QED BY <1>0, <2>0, <2>7, <3>1, <3>2 DEF Find
  <2>8. ASSUME NEW d \in Devices, Post(d) PROVE LabelInv(e)'
    BY <1>0, <2>0, <2>8 DEF Post
  <2>9. ASSUME NEW d \in Devices, Dedupe(d) PROVE LabelInv(e)'
    BY <1>0, <2>0, <2>9 DEF Dedupe
  <2>12. ASSUME NEW d \in Devices, Recheck(d) \/ Send(d) PROVE LabelInv(e)'
    BY <1>0, <2>0, <2>12 DEF Recheck, Send
  <2>10. ASSUME NEW d \in Devices, Poll(d) \/ PollFails(d) \/ PollNote(d) PROVE LabelInv(e)'
    BY <1>0, <2>0, <2>10 DEF Poll, PollFails, PollNote
  <2>11. ASSUME NEW d \in Devices, PollServe(d) PROVE LabelInv(e)'
    BY <1>0, <2>0, <2>11 DEF PollServe
  <2> QED BY <1>2, <2>1, <2>2, <2>3, <2>r, <2>4, <2>5, <2>6, <2>7, <2>8, <2>9, <2>10, <2>11,
             <2>12 DEF Next, DeviceStep, PollerStep
<1> QED BY <1>1, <1>2

-----------------------------------------------------------------------------
(* Ids that were taken are nobody else's *)

Named(w, i) == id[w] # None /\ id[w].id = i

\* The coordinator takes no id and makes no entry.
Quiet ==
  /\ UNCHANGED <<life, seq>> /\ states \subseteq states'
  /\ \A j \in Ids : HasEntry(j)' => HasEntry(j)
  /\ \A p \in bound' : p \in bound \/ (p.id \in Ids /\ HasEntry(p.id) /\ p.life = life)

\* What a step does to the registrations under way.
RegStep ==
  \/ Crash
  \/ \E x \in Callers : Register(x)
  \/ \E x \in Callers : /\ reg[x] # None /\ InsertEntry(reg[x].id, reg[x].state)
                        /\ reg' = [reg EXCEPT ![x] = None]
  \/ /\ reg' = reg \/ \E x \in Callers : reg' = [reg EXCEPT ![x] = None]
     /\ Quiet

LEMMA HandOutIsQuiet ==
  ASSUME IInv, NEW i \in Ids, NEW s \in states, HandOut(i, s)
  PROVE  Quiet
<1>0. TypeOK /\ CoordTypeOK /\ s \in WorkState
  BY DEF IInv, TypeOK, CoordTypeOK
<1>1. HasEntry(i) /\ UNCHANGED <<life, seq, states>>
  BY DEF HandOut
<1>2. entries' = [entries EXCEPT ![i] = Advance(Rebind(entries[i], s))]
  BY DEF HandOut
<1>3. (entries[i].state # s) \in BOOLEAN /\ Bind(i, s, entries[i].state # s)
  BY DEF HandOut
<1>4. \A p \in bound' : p \in bound \/ (p.id = i /\ p.life = life)
  BY <1>0, <1>3, BindEffect DEF CoordTypeOK
<1>5. \A j \in Ids : j # i => entries'[j] = entries[j]
  BY <1>0, <1>2 DEF CoordTypeOK
<1> QED BY <1>1, <1>4, <1>5 DEF Quiet, HasEntry

LEMMA RegistrationSteps ==
  ASSUME IInv, Next
  PROVE  RegStep
<1>0. CoordTypeOK /\ WorkerTypeOK /\ \A d \in Devices : LabelInv(d)
  BY DEF IInv, TypeOK
<1> USE DEF device, memory, poller, workerVars
<1>1. CASE Background
  <2>1. UNCHANGED <<life, seq, bound>> /\ reg' = reg /\ states \subseteq states'
    BY <1>1 DEF Background, NewEpoch, Publish, MirrorClear, MirrorWrite, Collect, histories,
                bindings
  <2>2. \A j \in Ids : HasEntry(j)' => HasEntry(j)
    BY <1>0, <1>1 DEF Background, NewEpoch, Publish, MirrorClear, MirrorWrite, Collect, HasEntry,
                CoordTypeOK
  <2> QED BY <2>1, <2>2 DEF RegStep, Quiet
<1>2. CASE Crash
  BY <1>2 DEF RegStep
<1>3. CASE (\E w \in Workers : Boot(w)) \/ \E d \in Devices : Reregister(d)
  BY <1>3 DEF Boot, Reregister, RegStep, Callers
<1>4. ASSUME NEW x \in Callers, Registered(x) PROVE RegStep
  BY <1>4 DEF Registered, RegStep
<1>5. ASSUME UNCHANGED coordVars, reg' = reg \/ \E x \in Callers : reg' = [reg EXCEPT ![x] = None]
      PROVE  RegStep
  BY <1>5 DEF coordVars, RegStep, Quiet, HasEntry
<1>6. ASSUME Quiet, reg' = reg PROVE RegStep
  BY <1>6 DEF RegStep
<1>7. ASSUME NEW d \in Devices, Serve(d) PROVE RegStep
  <2>1. wid[d].id \in Ids /\ state[d] \in states
    BY <1>0, <1>7 DEF Serve, LabelInv, WorkerTypeOK, Id
  <2>2. CASE HandOut(wid[d].id, state[d])
    BY <1>6, <1>7, <2>1, <2>2, HandOutIsQuiet DEF Serve
  <2>3. CASE UNCHANGED coordVars
    BY <1>5, <1>7, <2>3 DEF Serve
  <2> QED BY <1>7, <2>2, <2>3 DEF Serve
<1>8. ASSUME NEW d \in Devices, PollServe(d) PROVE RegStep
  <2>1. pid[d].id \in Ids /\ pstate[d] \in states
    BY <1>0, <1>8 DEF PollServe, LabelInv, WorkerTypeOK, Id
  <2>2. CASE HandOut(pid[d].id, pstate[d])
    BY <1>6, <1>8, <2>1, <2>2, HandOutIsQuiet DEF PollServe
  <2>3. CASE UNCHANGED coordVars
    BY <1>5, <1>8, <2>3 DEF PollServe
  <2> QED BY <1>8, <2>2, <2>3 DEF PollServe
<1>9. ASSUME NEW s, InsertKey(s) \/ CountSent(s) PROVE Quiet
  BY <1>9 DEF InsertKey, CountSent, histories, bindings, Quiet, HasEntry
<1>10. ASSUME NEW d \in Devices, Dedupe(d) \/ Send(d) PROVE RegStep
  <2>1. reg' = reg /\ (UNCHANGED coordVars \/ InsertKey(sol[d]) \/ CountSent(sol[d]))
    BY <1>10 DEF Dedupe, Send
  <2> QED BY <1>5, <1>6, <1>9, <2>1
<1>11. ASSUME NEW x \in Callers, RegisterFails(x) PROVE RegStep
  BY <1>5, <1>11 DEF RegisterFails
<1>12. ASSUME NEW d \in Devices,
              \/ Ask(d) \/ Note(d) \/ Snapshot(d) \/ Abort(d) \/ Exhaust(d) \/ Find(d)
              \/ Post(d) \/ Recheck(d) \/ Timeout(d) \/ Poll(d) \/ PollFails(d) \/ PollNote(d)
       PROVE  RegStep
  BY <1>5, <1>12 DEF Ask, Note, Snapshot, Abort, Exhaust, Find, Post, Recheck, Timeout, Poll,
              PollFails, PollNote
<1> QED BY <1>1, <1>2, <1>3, <1>4, <1>7, <1>8, <1>10, <1>11, <1>12 DEF Next, DeviceStep, PollerStep

LEMMA TakeIdEffect ==
  ASSUME IInv, NEW x \in Callers, Register(x)
  PROVE  /\ seq \in Nat /\ seq' = seq + 1 /\ UNCHANGED <<life, entries, bound, states>>
         /\ reg' = [reg EXCEPT ![x] = [id |-> seq + 1, state |-> latest]]
         /\ latest \in states
BY DEF IInv, TypeOK, CoordTypeOK, StatesInv, Register, TakeId, NextId, histories, bindings

LEMMA RegPreserves ==
  ASSUME IInv, Next
  PROVE  RegInv'
<1>0. /\ CoordTypeOK /\ WorkerTypeOK /\ StatesInv /\ RegInv /\ life \in Nat /\ seq \in Nat
      /\ \A p \in bound : p.life \in Nat /\ p.id \in Nat
      /\ \A y \in Callers : reg[y] # None => reg[y].id \in Ids /\ reg[y].id \in Nat
                                              /\ reg[y].state \in WorkState
  <2>1. CoordTypeOK /\ WorkerTypeOK /\ StatesInv /\ RegInv
    BY DEF IInv, TypeOK
  <2>2. bound \subseteq Prefix /\ \A p \in Prefix : p.life \in Nat /\ p.id \in Nat
    BY <2>1 DEF CoordTypeOK, Prefix, Lives, Ids
  <2>3. \A y \in Callers : reg[y] # None => reg[y].id \in Ids /\ reg[y].state \in WorkState
    BY RegistrationTypes
  <2> QED BY <2>1, <2>2, <2>3 DEF CoordTypeOK, Lives, Ids
<1>1. CASE Crash
  <2>1. /\ life' = life + 1 /\ bound' = bound /\ reg' = [x \in Callers |-> None]
    BY <1>1 DEF Crash, CoordRestart, bindings
  <2>2. \A p \in bound' : p.life < life'
    BY <1>0, <2>1 DEF RegInv
  <2>3. \A p \in bound' : p.life <= life' /\ p.life # life'
    BY <1>0, <2>1, <2>2
  <2> QED BY <2>1, <2>3 DEF RegInv
<1>2. ASSUME NEW x \in Callers, Register(x) PROVE RegInv'
  <2>1. /\ seq' = seq + 1 /\ UNCHANGED <<life, entries, bound, states>>
        /\ reg' = [reg EXCEPT ![x] = [id |-> seq + 1, state |-> latest]]
        /\ latest \in states
    BY <1>2, TakeIdEffect
  <2>2. reg'[x] = [id |-> seq + 1, state |-> latest] /\ \A y \in Callers \ {x} : reg'[y] = reg[y]
    BY <1>0, <2>1 DEF WorkerTypeOK
  <2>3. \A p \in bound : p.life <= life /\ (p.life = life => p.id <= seq)
    BY <1>0 DEF RegInv
  <2>4. \A y \in Callers : reg[y] # None => reg[y].id <= seq /\ reg[y].id # seq + 1
    BY <1>0 DEF RegInv
  <2>5. seq + 1 \notin Ids \/ ~HasEntry(seq + 1)
    BY <1>0 DEF StatesInv, Ids
  <2>6. seq + 1 \in Ids
    BY <1>0, <1>2 DEF Register, TakeId, CoordTypeOK, Ids
  <2>7. \A p \in bound' : p.life <= life' /\ (p.life = life' => p.id <= seq' /\ p.id # seq + 1)
    BY <1>0, <2>1, <2>3
  <2>8. entries'[seq + 1] = None
    BY <2>1, <2>5, <2>6 DEF HasEntry
  <2>9. ASSUME NEW y \in Callers, reg'[y] # None
        PROVE  /\ reg'[y].id <= seq' /\ reg'[y].state \in states' /\ entries'[reg'[y].id] = None
               /\ \A z \in Callers \ {y} : reg'[z] # None => reg'[z].id # reg'[y].id
               /\ \A p \in bound' : p.life = life' => p.id # reg'[y].id
    <3>1. CASE y = x
      BY <1>0, <2>1, <2>2, <2>4, <2>7, <2>8, <3>1
    <3>2. CASE y # x
      <4>1. reg'[y] = reg[y] /\ reg[y].id <= seq'
        BY <1>0, <2>1, <2>2, <2>4, <2>9, <3>2
      <4>2. \A z \in Callers \ {y} : reg'[z] # None => reg'[z].id # reg'[y].id
        BY <1>0, <2>2, <2>4, <2>9, <4>1 DEF RegInv
      <4> QED BY <1>0, <2>1, <2>9, <4>1, <4>2 DEF RegInv, HasEntry
    <3> QED BY <3>1, <3>2
  <2> QED BY <2>7, <2>9 DEF RegInv, HasEntry
<1>3. ASSUME NEW x \in Callers, reg[x] # None, InsertEntry(reg[x].id, reg[x].state),
             reg' = [reg EXCEPT ![x] = None]
      PROVE  RegInv'
  <2> DEFINE i == reg[x].id
  <2>1. /\ UNCHANGED <<life, seq, states>> /\ i <= seq
        /\ entries' = [entries EXCEPT ![i] = NewAllocator(reg[x].state)]
    BY <1>0, <1>3 DEF InsertEntry, RegInv
  <2>2. \A p \in bound' : p \in bound \/ (p.id = i /\ p.life = life)
    BY <1>0, <1>3, BindEffect DEF InsertEntry, CoordTypeOK
  <2>3. reg'[x] = None /\ \A y \in Callers \ {x} : reg'[y] = reg[y]
    BY <1>0, <1>3 DEF WorkerTypeOK
  <2>4. \A p \in bound' : p.life <= life' /\ (p.life = life' => p.id <= seq')
    BY <1>0, <2>1, <2>2 DEF RegInv
  <2>5. ASSUME NEW y \in Callers, reg'[y] # None
        PROVE  /\ reg'[y].id <= seq' /\ reg'[y].state \in states' /\ entries'[reg'[y].id] = None
               /\ \A z \in Callers \ {y} : reg'[z] # None => reg'[z].id # reg'[y].id
               /\ \A p \in bound' : p.life = life' => p.id # reg'[y].id
    <3>1. y # x /\ reg'[y] = reg[y] /\ reg[y] # None
      BY <2>3, <2>5
    <3>2. reg[y].id # i
      BY <1>0, <1>3, <3>1 DEF RegInv
    <3>3. entries'[reg'[y].id] = None
      BY <1>0, <2>1, <3>1, <3>2 DEF RegInv, HasEntry, CoordTypeOK
    <3>4. \A p \in bound' : p.life = life' => p.id # reg'[y].id
      BY <1>0, <2>1, <2>2, <3>1, <3>2 DEF RegInv
    <3>5. \A z \in Callers \ {y} : reg'[z] # None => reg'[z].id # reg'[y].id
      BY <1>0, <2>3, <3>1 DEF RegInv
    <3> QED BY <1>0, <2>1, <3>1, <3>3, <3>4, <3>5 DEF RegInv
  <2> QED BY <2>4, <2>5 DEF RegInv, HasEntry
<1>4. ASSUME reg' = reg \/ \E x \in Callers : reg' = [reg EXCEPT ![x] = None], Quiet
      PROVE  RegInv'
  <2>1. \A y \in Callers : reg'[y] # None => reg'[y] = reg[y]
    BY <1>0, <1>4 DEF WorkerTypeOK
  <2>2. \A p \in bound' : p.life <= life' /\ (p.life = life' => p.id <= seq')
    BY <1>0, <1>4 DEF RegInv, StatesInv, Quiet
  <2>3. ASSUME NEW y \in Callers, reg'[y] # None
        PROVE  /\ reg'[y].id <= seq' /\ reg'[y].state \in states' /\ entries'[reg'[y].id] = None
               /\ \A z \in Callers \ {y} : reg'[z] # None => reg'[z].id # reg'[y].id
               /\ \A p \in bound' : p.life = life' => p.id # reg'[y].id
    <3>1. reg'[y] = reg[y] /\ reg[y] # None /\ reg[y].id \in Ids /\ ~HasEntry(reg[y].id)
      BY <1>0, <2>1, <2>3 DEF RegInv
    <3>2. entries'[reg'[y].id] = None
      BY <1>4, <3>1 DEF HasEntry, Quiet
    <3>3. \A p \in bound' : p.life = life' => p.id # reg'[y].id
      BY <1>0, <1>4, <3>1 DEF RegInv, Quiet
    <3> QED BY <1>0, <1>4, <2>1, <3>1, <3>2, <3>3 DEF RegInv, Quiet
  <2> QED BY <2>2, <2>3 DEF RegInv, HasEntry
<1> QED BY <1>1, <1>2, <1>3, <1>4, RegistrationSteps DEF RegStep

\* An id a device comes to use is its worker's.
LEMMA UsesStep ==
  ASSUME IInv, Next, NEW e \in Devices, NEW i, Uses(e, i)'
  PROVE  Uses(e, i) \/ Named(owner[e], i)
<1>0. WorkerTypeOK /\ \A d \in Devices : LabelInv(d)
  BY DEF IInv, TypeOK
<1> USE DEF WorkerTypeOK, device, memory, poller, workerVars, Goto, Again, Rest, Uses, Named
<1>1. CASE Background \/ Crash
  BY <1>0, <1>1 DEF Background, Crash
<1>2. ASSUME NEW w \in Workers, Boot(w) PROVE Uses(e, i)
  BY <1>0, <1>2 DEF Boot
<1>r. ASSUME NEW x \in Callers, Registered(x) \/ RegisterFails(x) PROVE Uses(e, i)
  BY <1>0, <1>r DEF Registered, RegisterFails
<1>3. ASSUME NEW d \in Devices, Ask(d) PROVE Uses(e, i) \/ Named(owner[e], i)
  BY <1>0, <1>3 DEF Ask
<1>4. ASSUME NEW d \in Devices, Serve(d) PROVE Uses(e, i)
  <2>1. UNCHANGED pid /\ wid' = [wid EXCEPT ![d] = None]
    BY <1>4 DEF Serve
  <2>2. \/ work' = [work EXCEPT ![d] = Handed(wid[d].id, state[d])]
        \/ work' = [work EXCEPT ![d] = None]
    BY <1>4 DEF Serve
  <2>3. wid[d] # None
    BY <1>0, <1>4 DEF Serve, LabelInv
  <2>4. Handed(wid[d].id, state[d]).prefix.id = wid[d].id
    BY DEF Handed, PrefixOf
  <2> QED BY <1>0, <2>1, <2>2, <2>3, <2>4
<1>5. ASSUME NEW d \in Devices,
             \/ Reregister(d) \/ Note(d) \/ Snapshot(d) \/ Abort(d) \/ Exhaust(d) \/ Find(d)
             \/ Post(d) \/ Dedupe(d) \/ Recheck(d) \/ Send(d) \/ Timeout(d)
      PROVE  Uses(e, i)
  <2>1. UNCHANGED pid /\ wid' \in {wid, [wid EXCEPT ![d] = None]}
        /\ work' \in {work, [work EXCEPT ![d] = None]}
    BY <1>5 DEF Reregister, Note, Snapshot, Abort, Exhaust, Find, Post, Dedupe, Recheck, Send,
                Timeout
  <2> QED BY <1>0, <2>1
<1>6. ASSUME NEW d \in Devices, Poll(d) \/ PollServe(d) \/ PollFails(d) \/ PollNote(d)
      PROVE  Uses(e, i) \/ Named(owner[e], i)
  BY <1>0, <1>6 DEF Poll, PollServe, PollFails, PollNote
<1> QED BY <1>1, <1>2, <1>r, <1>3, <1>4, <1>5, <1>6 DEF Next, DeviceStep, PollerStep

\* Only a registration that is answered gives a worker an id.
Answered(x) ==
  /\ reg[x] # None /\ reg' = [reg EXCEPT ![x] = None] /\ UNCHANGED <<life, seq>>
  /\ id' = [id EXCEPT ![WorkerOf(x)] = [id |-> reg[x].id, life |-> life]]

LEMMA NamedStep ==
  ASSUME IInv, Next
  PROVE  owner' = owner /\ (id' = id \/ \E x \in Callers : Answered(x))
<1> USE DEF device, memory, poller, workerVars
<1>1. CASE (\E w \in Workers : Boot(w)) \/ \E d \in Devices : Reregister(d)
  BY <1>1 DEF Boot, Reregister
<1>2. ASSUME NEW x \in Callers, Registered(x) \/ RegisterFails(x)
      PROVE  owner' = owner /\ (id' = id \/ Answered(x))
  BY <1>2 DEF Registered, RegisterFails, InsertEntry, Answered
<1>3. CASE Background \/ Crash
  BY <1>3 DEF Background, Crash
<1>4. ASSUME NEW d \in Devices,
             \/ Ask(d) \/ Serve(d) \/ Note(d) \/ Snapshot(d) \/ Abort(d) \/ Exhaust(d) \/ Find(d)
             \/ Post(d) \/ Dedupe(d) \/ Recheck(d) \/ Send(d) \/ Timeout(d) \/ PollerStep(d)
             \/ PollFails(d)
      PROVE  UNCHANGED <<owner, id>>
  BY <1>4 DEF Ask, Serve, Note, Snapshot, Abort, Exhaust, Find, Post, Dedupe, Recheck, Send,
              Timeout, PollerStep, Poll, PollServe, PollFails, PollNote
<1> QED BY <1>1, <1>2, <1>3, <1>4 DEF Next, DeviceStep

\* In a life of the coordinator ids are only added, and a registration has the next one.
LEMMA SeqGrows ==
  ASSUME IInv, Next, ~Crash
  PROVE  /\ life' = life /\ seq \in Nat /\ seq' \in Nat /\ seq <= seq'
         /\ \A x \in Callers : reg'[x] # None => reg'[x] = reg[x] \/ reg'[x].id = seq + 1
<1>0. seq \in Nat /\ WorkerTypeOK
  BY DEF IInv, TypeOK, CoordTypeOK
<1>1. ASSUME NEW x \in Callers, Register(x)
      PROVE  /\ life' = life /\ seq' = seq + 1
             /\ \A y \in Callers : reg'[y] = reg[y] \/ reg'[y].id = seq + 1
  BY <1>0, <1>1, TakeIdEffect DEF WorkerTypeOK
<1>2. CASE ~ \E x \in Callers : Register(x)
  <2>1. UNCHANGED <<life, seq>> /\ (reg' = reg \/ \E x \in Callers : reg' = [reg EXCEPT ![x] = None])
    BY <1>2, RegistrationSteps DEF RegStep, Quiet, InsertEntry
  <2> QED BY <1>0, <2>1 DEF WorkerTypeOK
<1> QED BY <1>0, <1>1, <1>2

LEMMA IdPreserves ==
  ASSUME IInv, Next
  PROVE  IdInv'
<1>1. SUFFICES ASSUME life' = 1, NEW w \in Workers, NEW i \in Ids, Holds(w, i)'
               PROVE  /\ i <= seq' /\ \A v \in Workers : Holds(v, i)' => v = w
                      /\ \A x \in Callers : reg'[x] # None => reg'[x].id # i
  BY DEF IdInv
<1>0. /\ WorkerTypeOK /\ life \in Lives /\ seq \in Nat /\ IdInv /\ RegInv /\ i \in Nat
  BY DEF IInv, TypeOK, CoordTypeOK, Ids
<1>2. /\ ~Crash /\ life = 1 /\ seq' \in Nat /\ seq <= seq'
      /\ \A x \in Callers : reg'[x] # None => reg'[x] = reg[x] \/ reg'[x].id = seq + 1
  <2>1. ~Crash
    BY <1>0, <1>1 DEF Crash, CoordRestart, Lives
  <2> QED BY <1>1, <2>1, SeqGrows
<1>3. owner' = owner /\ (id' = id \/ \E x \in Callers : Answered(x))
  BY NamedStep
<1>4. ASSUME NEW v \in Workers, Holds(v, i)'
      PROVE  \/ Holds(v, i)
             \/ \E x \in Callers : Answered(x) /\ WorkerOf(x) = v /\ reg[x].id = i
  <2>1. CASE Named(v, i)'
    BY <1>0, <1>3, <2>1 DEF Named, Holds, WorkerTypeOK, Answered
  <2>2. CASE ~Named(v, i)'
    <3>1. PICK d \in Devices : owner[d] = v /\ Uses(d, i)'
      BY <1>3, <1>4, <2>2 DEF Holds, Named
    <3>2. Uses(d, i) \/ Named(v, i)
      BY <3>1, UsesStep
    <3> QED BY <3>1, <3>2 DEF Holds, Named
  <2> QED BY <2>1, <2>2
<1>5. \A v \in Workers : Holds(v, i) => i <= seq /\ \A x \in Callers : reg[x] # None => reg[x].id # i
  BY <1>0, <1>2 DEF IdInv
<1>6. CASE Holds(w, i)
  <2>1. ~ \E x \in Callers : Answered(x) /\ reg[x].id = i
    BY <1>5, <1>6 DEF Answered
  <2>2. \A v \in Workers : Holds(v, i)' => v = w
    BY <1>0, <1>2, <1>4, <1>6, <2>1 DEF IdInv
  <2>3. i <= seq' /\ \A x \in Callers : reg'[x] # None => reg'[x].id # i
    BY <1>0, <1>2, <1>5, <1>6
  <2> QED BY <2>2, <2>3
<1>7. CASE ~Holds(w, i)
  <2>1. PICK x \in Callers : Answered(x) /\ WorkerOf(x) = w /\ reg[x].id = i
    BY <1>1, <1>4, <1>7
  <2>2. i <= seq /\ \A y \in Callers \ {x} : reg[y] # None => reg[y].id # i
    BY <1>0, <2>1 DEF RegInv, Answered
  <2>3. \A v \in Workers : ~Holds(v, i)
    BY <1>5, <2>1 DEF Answered
  <2>4. ASSUME NEW v \in Workers, Holds(v, i)' PROVE v = w
    <3>1. PICK y \in Callers : Answered(y) /\ WorkerOf(y) = v /\ reg[y].id = i
      BY <1>4, <2>3, <2>4
    <3>2. y = x
      BY <2>2, <3>1 DEF Answered
    <3> QED BY <2>1, <3>1, <3>2
  <2>5. \A y \in Callers : reg'[y] # None => reg'[y].id # i
    BY <1>0, <2>1, <2>2 DEF Answered, WorkerTypeOK
  <2>6. i <= seq'
    BY <1>0, <1>2, <2>2
  <2> QED BY <2>4, <2>5, <2>6
<1> QED BY <1>6, <1>7

-----------------------------------------------------------------------------
(* Batches are handed out once *)

LEMMA BoundPreserves ==
  ASSUME IInv, CoordStep
  PROVE  BoundInv'
<1>0. CoordTypeOK /\ TypeOK /\ BoundInv /\ StatesInv
  BY DEF IInv, TypeOK
<1>1. CASE UNCHANGED <<life, bound, entries>>
  BY <1>0, <1>1 DEF BoundInv, HasEntry, PrefixOf
<1>2. CASE Collect
  BY <1>0, <1>2 DEF Collect, CoordTypeOK, BoundInv, HasEntry, PrefixOf, histories, bindings
<1>3. CASE \E x \in Callers : reg[x] # None /\ InsertEntry(reg[x].id, reg[x].state)
  <2>1. PICK x \in Callers : reg[x] # None /\ InsertEntry(reg[x].id, reg[x].state)
    BY <1>3
  <2> DEFINE i == reg[x].id
             s == reg[x].state
  <2>2. i \in Ids /\ s \in WorkState
    BY <2>1, RegistrationTypes
  <2>3. life' = life /\ entries' = [entries EXCEPT ![i] = NewAllocator(s)] /\ Bind(i, s, TRUE)
    BY <2>1 DEF InsertEntry
  <2>4. bound \subseteq bound' /\ (Batches > 0 => PrefixOf(i, s) \in bound')
    BY <1>0, <2>2, <2>3, BindEffect DEF CoordTypeOK
  <2> HIDE DEF i, s
  <2>5. entries'[i].state = s /\ \A j \in Ids \ {i} : entries'[j] = entries[j]
    BY <1>0, <2>2, <2>3 DEF CoordTypeOK, NewAllocator
  <2> QED BY <1>0, <2>3, <2>4, <2>5 DEF BoundInv, HasEntry, PrefixOf
<1>4. CASE \E i \in Ids, s \in states : HandOut(i, s)
  <2>1. PICK i \in Ids, s \in states : HandOut(i, s)
    BY <1>4
  <2>2. s \in WorkState /\ HasEntry(i) /\ life' = life
    BY <1>0, <2>1 DEF HandOut, CoordTypeOK
  <2>3. (entries[i].state # s) \in BOOLEAN /\ Bind(i, s, entries[i].state # s)
    BY <2>1 DEF HandOut
  <2>4. bound \subseteq bound' /\ (Batches > 0 /\ entries[i].state # s => PrefixOf(i, s) \in bound')
    BY <1>0, <2>2, <2>3, BindEffect DEF CoordTypeOK
  <2>5. Batches > 0 => PrefixOf(i, s) \in bound'
    BY <1>0, <2>2, <2>4 DEF BoundInv
  <2>6. /\ entries'[i].state = s
        /\ entries' = [entries EXCEPT ![i] = Advance(Rebind(entries[i], s))]
    BY <1>0, <2>1, <2>2, HandOutEffect
  <2>7. \A j \in Ids \ {i} : entries'[j] = entries[j]
    BY <1>0, <2>6 DEF CoordTypeOK
  <2> QED BY <1>0, <2>2, <2>4, <2>5, <2>6, <2>7 DEF BoundInv, HasEntry, PrefixOf
<1>5. CASE Crash
  BY <1>5 DEF Crash, CoordRestart, Fresh, BoundInv, HasEntry
<1> QED BY <1>1, <1>2, <1>3, <1>4, <1>5
     DEF CoordStep, coordVars, histories, bindings, NewEpoch, Publish, MirrorClear, MirrorWrite,
         TakeId, InsertKey, CountSent

\* What HandOut does to a batch of the allocator's present state and to the histories.
LEMMA HandOutBinds ==
  ASSUME IInv, NEW j \in Ids, NEW s \in states, HandOut(j, s)
  PROVE  /\ UNCHANGED <<life, seq>> /\ HasEntry(j) /\ s \in WorkState
         /\ bound \subseteq bound' /\ rebound \subseteq rebound'
         /\ entries[j] \in Alloc /\ Rebind(entries[j], s) \in Alloc /\ entries'[j] \in Alloc
         /\ entries'[j] = Advance(Rebind(entries[j], s)) /\ entries'[j].state = s
         /\ \A i \in Ids \ {j} : entries'[i] = entries[i]
         /\ Batches > 0 => PrefixOf(j, s) \in bound'
         /\ Batches > 0 /\ entries[j].state # s /\ PrefixOf(j, s) \in bound =>
               PrefixOf(j, s) \in rebound'
<1>0. CoordTypeOK /\ TypeOK /\ BoundInv /\ s \in WorkState
  BY DEF IInv, TypeOK, CoordTypeOK
<1>1. HasEntry(j) /\ UNCHANGED <<life, seq>>
  BY DEF HandOut
<1>2. (entries[j].state # s) \in BOOLEAN /\ Bind(j, s, entries[j].state # s)
  BY DEF HandOut
<1>3. /\ bound \subseteq bound' /\ rebound \subseteq rebound'
      /\ Batches > 0 /\ entries[j].state # s =>
            /\ PrefixOf(j, s) \in bound'
            /\ PrefixOf(j, s) \in bound => PrefixOf(j, s) \in rebound'
  BY <1>0, <1>2, BindEffect DEF CoordTypeOK
<1>4. Batches > 0 => PrefixOf(j, s) \in bound'
  BY <1>0, <1>1, <1>3 DEF BoundInv
<1>5. /\ entries[j] \in Alloc /\ Rebind(entries[j], s) \in Alloc /\ entries'[j] \in Alloc
      /\ entries'[j].state = s
      /\ entries' = [entries EXCEPT ![j] = Advance(Rebind(entries[j], s))]
  BY <1>0, HandOutEffect
<1>6. /\ entries'[j] = Advance(Rebind(entries[j], s))
      /\ \A i \in Ids \ {j} : entries'[i] = entries[i]
  BY <1>0, <1>5 DEF CoordTypeOK
<1> QED BY <1>0, <1>1, <1>3, <1>4, <1>5, <1>6

\* A batch that is behind its allocator stays so.
LEMMA BehindKept ==
  ASSUME IInv, CoordStep, NEW w \in Work, Behind(w)
  PROVE  Behind(w)'
<1>0. /\ TypeOK /\ CoordTypeOK /\ RegInv /\ life \in Nat
      /\ w.prefix.id \in Ids /\ w.prefix.life \in Nat /\ w.prefix.state \in WorkState
      /\ w.base \in Nat
      /\ w.prefix = [id |-> w.prefix.id, life |-> w.prefix.life, state |-> w.prefix.state]
  BY DEF IInv, TypeOK, CoordTypeOK, Lives, Work, Prefix, Counters
<1> DEFINE i == w.prefix.id
<1>1. CASE UNCHANGED <<life, bound, rebound, entries>>
  BY <1>1 DEF Behind, HasEntry
<1>2. CASE Collect
  BY <1>0, <1>2 DEF Collect, histories, bindings, Behind, HasEntry, CoordTypeOK
<1>3. CASE \E x \in Callers : reg[x] # None /\ InsertEntry(reg[x].id, reg[x].state)
  <2>1. PICK x \in Callers : reg[x] # None /\ InsertEntry(reg[x].id, reg[x].state)
    BY <1>3
  <2>2. reg[x].id \in Ids /\ reg[x].state \in WorkState
    BY <2>1, RegistrationTypes
  <2>3. /\ UNCHANGED life /\ entries' = [entries EXCEPT ![reg[x].id] = NewAllocator(reg[x].state)]
        /\ Bind(reg[x].id, reg[x].state, TRUE)
    BY <2>1 DEF InsertEntry
  <2>4. bound \subseteq bound' /\ rebound \subseteq rebound'
    BY <1>0, <2>2, <2>3, BindEffect DEF CoordTypeOK
  <2>5. SUFFICES ASSUME w.prefix.life = life, w.base < Batches, w.prefix \notin rebound'
                 PROVE  /\ w.prefix \in bound'
                        /\ entries'[i] # None /\ entries'[i].state = w.prefix.state =>
                              w.base < entries'[i].next
    BY <2>3 DEF Behind, HasEntry
  <2>6. /\ w.prefix \in bound
        /\ entries[i] # None /\ entries[i].state = w.prefix.state => w.base < entries[i].next
    BY <2>4, <2>5 DEF Behind, HasEntry
  <2>7. i # reg[x].id
    BY <1>0, <2>1, <2>5, <2>6 DEF RegInv
  <2>8. entries'[i] = entries[i]
    BY <1>0, <2>3, <2>7 DEF CoordTypeOK
  <2> QED BY <2>4, <2>6, <2>8
<1>4. CASE \E j \in Ids, s \in states : HandOut(j, s)
  <2>1. PICK j \in Ids, s \in states : HandOut(j, s)
    BY <1>4
  <2>2. /\ UNCHANGED life /\ bound \subseteq bound' /\ rebound \subseteq rebound'
        /\ entries[j] \in Alloc /\ Rebind(entries[j], s) \in Alloc /\ entries'[j] \in Alloc
        /\ entries'[j] = Advance(Rebind(entries[j], s)) /\ entries'[j].state = s
        /\ \A k \in Ids \ {j} : entries'[k] = entries[k]
        /\ Batches > 0 /\ entries[j].state # s /\ PrefixOf(j, s) \in bound =>
               PrefixOf(j, s) \in rebound'
        /\ HasEntry(j)
    BY <2>1, HandOutBinds
  <2>3. SUFFICES ASSUME w.prefix.life = life, w.base < Batches, w.prefix \notin rebound'
                 PROVE  /\ w.prefix \in bound'
                        /\ entries'[i] # None /\ entries'[i].state = w.prefix.state =>
                              w.base < entries'[i].next
    BY <2>2 DEF Behind, HasEntry
  <2>4. /\ w.prefix \in bound
        /\ entries[i] # None /\ entries[i].state = w.prefix.state => w.base < entries[i].next
    BY <2>2, <2>3 DEF Behind, HasEntry
  <2>5. CASE i # j \/ s # w.prefix.state
    BY <1>0, <2>2, <2>4, <2>5
  <2>6. CASE i = j /\ s = w.prefix.state
    <3>1. w.prefix = PrefixOf(j, s)
      BY <1>0, <2>3, <2>6 DEF PrefixOf
    <3>2. entries[j].state = s
      BY <1>0, <2>2, <2>3, <2>4, <3>1
    <3>3. entries'[j] = Advance(entries[j])
      BY <2>2, <3>2 DEF Rebind
    <3>4. entries[j].next \in Nat /\ entries'[j].next >= entries[j].next /\ entries'[j].next \in Nat
      BY <2>2, <3>3 DEF Advance, Alloc, Counters
    <3>5. w.base < entries[j].next
      BY <2>2, <2>4, <2>6, <3>2 DEF HasEntry
    <3> QED BY <1>0, <2>2, <2>4, <2>6, <3>4, <3>5
  <2> QED BY <2>5, <2>6
<1>5. CASE Crash
  <2>1. life' = life + 1
    BY <1>5 DEF Crash, CoordRestart
  <2> QED BY <1>0, <2>1 DEF Behind
<1> QED BY <1>1, <1>2, <1>3, <1>4, <1>5
     DEF CoordStep, coordVars, histories, bindings, NewEpoch, Publish, MirrorClear, MirrorWrite,
         TakeId, InsertKey, CountSent

\* A new batch is behind its allocator, and no batch before it is the same.
LEMMA NewBatch ==
  ASSUME IInv, NEW j \in Ids, NEW s \in states, HandOut(j, s)
  PROVE  LET h == Handed(j, s)
         IN  /\ h \in Work /\ h.prefix.life = life' /\ h.prefix.id = j /\ life' \in Nat
             /\ h.base < Batches =>
                   /\ h.prefix \in bound'
                   /\ h.base < entries'[j].next
             /\ \A w \in Work : Behind(w) /\ w.base < Batches /\ w.prefix \notin rebound' => w # h
<1> DEFINE a == Rebind(entries[j], s)
           h == Handed(j, s)
<1>0. TypeOK /\ life \in Nat
  BY DEF IInv, TypeOK, CoordTypeOK, Lives
<1>1. /\ UNCHANGED life /\ HasEntry(j) /\ s \in WorkState
      /\ rebound \subseteq rebound' /\ entries[j] \in Alloc /\ a \in Alloc
      /\ entries'[j] = Advance(a)
      /\ Batches > 0 => PrefixOf(j, s) \in bound'
      /\ Batches > 0 /\ entries[j].state # s /\ PrefixOf(j, s) \in bound =>
             PrefixOf(j, s) \in rebound'
  BY HandOutBinds
<1>2. /\ h = [prefix |-> PrefixOf(j, s), base |-> a.next] /\ h \in Work
      /\ PrefixOf(j, s).life = life /\ PrefixOf(j, s).id = j /\ PrefixOf(j, s).state = s
  BY <1>0, <1>1, HandOutEffect DEF Handed, PrefixOf
<1>3. a.next \in Nat /\ entries[j].next \in Nat
  BY <1>1 DEF Alloc, Counters
<1>4. a.next < Batches => a.next < entries'[j].next
  <2>1. a.next < Batches => Advance(a).next = a.next + 1
    BY <1>1, AllocatorTypes
  <2> QED BY <1>1, <1>3, <2>1
<1>5. ASSUME NEW w \in Work, Behind(w), w.base < Batches, w.prefix \notin rebound' PROVE w # h
  <2>1. SUFFICES ASSUME w = h PROVE FALSE
    OBVIOUS
  <2>2. w.prefix = PrefixOf(j, s) /\ w.base = a.next
    BY <1>2, <2>1
  <2>3. w.prefix \notin rebound /\ Batches > 0
    BY <1>1, <1>3, <1>5, <2>2
  <2>4. /\ w.prefix \in bound
        /\ entries[j].state = s => w.base < entries[j].next
    BY <1>1, <1>2, <1>5, <2>2, <2>3 DEF Behind
  <2>5. entries[j].state = s
    BY <1>1, <1>5, <2>2, <2>3, <2>4
  <2>6. a = entries[j]
    BY <2>5 DEF Rebind
  <2> QED BY <1>3, <2>2, <2>4, <2>5, <2>6
<1>6. h.base < Batches => Batches > 0
  BY <1>2, <1>3
<1> QED BY <1>0, <1>1, <1>2, <1>4, <1>5, <1>6

\* Where a device's batch comes from.
LEMMA WorkStep ==
  ASSUME IInv, Next
  PROVE  \/ \A e \in Devices : work'[e] \in {work[e], None}
         \/ \E d \in Devices, j \in Ids, s \in states :
               HandOut(j, s) /\ work' = [work EXCEPT ![d] = Handed(j, s)]
<1>0. WorkerTypeOK /\ \A d \in Devices : LabelInv(d)
  BY DEF IInv, TypeOK
<1> USE DEF WorkerTypeOK, device, memory, poller, workerVars, Goto, Again, Rest
<1>1. CASE Background \/ Crash
  BY <1>0, <1>1 DEF Background, Crash
<1>2. ASSUME NEW w \in Workers, Boot(w) PROVE UNCHANGED work
  BY <1>2 DEF Boot
<1>r. ASSUME NEW x \in Callers, Registered(x) \/ RegisterFails(x) PROVE UNCHANGED work
  BY <1>r DEF Registered, RegisterFails
<1>3. ASSUME NEW d \in Devices, Serve(d)
      PROVE  \/ work' = [work EXCEPT ![d] = None]
             \/ \E j \in Ids, s \in states :
                   HandOut(j, s) /\ work' = [work EXCEPT ![d] = Handed(j, s)]
  <2>1. wid[d].id \in Ids /\ state[d] \in states
    BY <1>0, <1>3 DEF Serve, LabelInv, Id
  <2> QED BY <1>3, <2>1 DEF Serve
<1>4. ASSUME NEW d \in Devices,
             \/ Reregister(d) \/ Ask(d) \/ Note(d) \/ Snapshot(d) \/ Abort(d) \/ Exhaust(d)
             \/ Find(d) \/ Post(d) \/ Dedupe(d) \/ Recheck(d) \/ Send(d) \/ Timeout(d)
             \/ PollerStep(d) \/ PollFails(d)
      PROVE  work' \in {work, [work EXCEPT ![d] = None]}
  BY <1>4 DEF Reregister, Ask, Note, Snapshot, Abort, Exhaust, Find, Post, Dedupe, Recheck, Send,
              Timeout, PollerStep, Poll, PollServe, PollFails, PollNote
<1> QED BY <1>0, <1>1, <1>2, <1>r, <1>3, <1>4 DEF Next, DeviceStep

LEMMA WorkPreserves ==
  ASSUME IInv, Next, CoordStep, NEW e \in Devices
  PROVE  WorkInv(e)'
<1>0. /\ WorkerTypeOK /\ None \notin Work
      /\ \A d \in Devices : WorkInv(d) /\ (work[d] # None => work[d] \in Work)
  BY DEF IInv, TypeOK, WorkerTypeOK, Work
<1>1. ASSUME NEW w \in Work, Behind(w)
      PROVE  /\ w.prefix.life <= life'
             /\ w.prefix.life = life' /\ w.base < Batches /\ w.prefix \notin rebound' =>
                   /\ w.prefix \in bound'
                   /\ entries'[w.prefix.id] # None /\ entries'[w.prefix.id].state = w.prefix.state =>
                         w.base < entries'[w.prefix.id].next
  BY <1>1, BehindKept DEF Behind, HasEntry
<1>2. rebound \subseteq rebound'
  <2>1. CASE \E i \in Ids, s \in states : HandOut(i, s)
    BY <2>1, HandOutBinds
  <2>2. CASE \E x \in Callers : reg[x] # None /\ InsertEntry(reg[x].id, reg[x].state)
    BY <2>2 DEF InsertEntry, Bind
  <2> QED BY <2>1, <2>2 DEF CoordStep, coordVars, histories, bindings, NewEpoch, Publish,
               MirrorClear, MirrorWrite, Collect, TakeId, InsertKey, CountSent, Crash, CoordRestart
<1>3. SUFFICES ASSUME work'[e] # None
               PROVE  /\ Behind(work[e])'
                      /\ work'[e].base < Batches /\ work'[e].prefix \notin rebound' =>
                            \A d \in Devices \ {e} : work'[d] # work'[e]
  BY DEF WorkInv
<1>4. CASE \A d \in Devices : work'[d] \in {work[d], None}
  <2>1. work'[e] = work[e]
    BY <1>3, <1>4
  <2>2. Behind(work[e])'
    BY <1>0, <1>1, <1>3, <2>1 DEF WorkInv, Behind, HasEntry
  <2> QED BY <1>0, <1>2, <1>3, <1>4, <2>1, <2>2 DEF WorkInv
<1>5. CASE \E d \in Devices, j \in Ids, s \in states :
              HandOut(j, s) /\ work' = [work EXCEPT ![d] = Handed(j, s)]
  <2>1. PICK d \in Devices, j \in Ids, s \in states :
               HandOut(j, s) /\ work' = [work EXCEPT ![d] = Handed(j, s)]
    BY <1>5
  <2> DEFINE h == Handed(j, s)
  <2>2. /\ h \in Work /\ h.prefix.life = life' /\ h.prefix.id = j /\ life' \in Nat
        /\ h.base < Batches => h.prefix \in bound' /\ h.base < entries'[j].next
        /\ \A w \in Work : Behind(w) /\ w.base < Batches /\ w.prefix \notin rebound' => w # h
    BY <2>1, NewBatch
  <2> HIDE DEF h
  <2>3. work'[d] = h /\ \A f \in Devices \ {d} : work'[f] = work[f]
    BY <1>0, <2>1 DEF WorkerTypeOK, h
  <2>4. CASE e = d
    <3>1. Behind(work[e])'
      BY <2>2, <2>3, <2>4 DEF Behind, HasEntry
    <3>2. ASSUME h.base < Batches, h.prefix \notin rebound', NEW f \in Devices \ {e}
          PROVE  work[f] # h
      <4>1. SUFFICES ASSUME work[f] = h PROVE FALSE
        OBVIOUS
      <4>2. Behind(h)
        BY <1>0, <2>2, <4>1 DEF WorkInv
      <4> QED BY <2>2, <3>2, <4>2
    <3> QED BY <2>3, <2>4, <3>1, <3>2
  <2>5. CASE e # d
    <3>1. work'[e] = work[e]
      BY <2>3, <2>5
    <3>2. Behind(work[e])'
      BY <1>0, <1>1, <1>3, <3>1 DEF WorkInv, Behind, HasEntry
    <3>3. ASSUME work[e].base < Batches, work[e].prefix \notin rebound',
                 NEW f \in Devices \ {e}
          PROVE  work'[f] # work[e]
      <4>1. CASE f = d
        <5>1. work[e] \in Work /\ Behind(work[e])
          BY <1>0, <1>3, <3>1 DEF WorkInv
        <5> QED BY <2>2, <2>3, <3>3, <4>1, <5>1
      <4>2. CASE f # d
        BY <1>0, <1>2, <1>3, <2>3, <3>1, <3>3, <4>2 DEF WorkInv
      <4> QED BY <4>1, <4>2
    <3> QED BY <3>1, <3>2, <3>3
  <2> QED BY <2>4, <2>5
<1> QED BY <1>4, <1>5, WorkStep

-----------------------------------------------------------------------------
(* Solutions are sent as often as they have chances *)

\* What a step does to all that ChanceInv and SentInv speak of.
LEMMA SharedStep ==
  ASSUME IInv, Next
  PROVE  \/ Crash
         \/ (NewEpoch \/ Publish \/ MirrorClear \/ MirrorWrite \/ Collect) /\ UNCHANGED workerVars
         \/ UNCHANGED <<head, published, mirroring, latest, seen, states, chances, sent>>
         \/ \E d \in Devices : Dedupe(d) \/ Send(d)
<1> DEFINE Same == UNCHANGED <<head, published, mirroring, latest, seen, states, chances, sent>>
<1>1. CASE Background \/ Crash
  BY <1>1 DEF Background
<1>2. CASE (\E w \in Workers : Boot(w)) \/ \E d \in Devices : Reregister(d)
  BY <1>2 DEF Boot, Reregister, Register, TakeId, histories
<1>3. ASSUME NEW x \in Callers, Registered(x) \/ RegisterFails(x) PROVE Same
  BY <1>3 DEF Registered, RegisterFails, InsertEntry, coordVars
<1>4. ASSUME NEW d \in Devices,
             \/ Ask(d) \/ Serve(d) \/ Note(d) \/ Snapshot(d) \/ Abort(d) \/ Exhaust(d) \/ Find(d)
             \/ Post(d) \/ Recheck(d) \/ Timeout(d) \/ PollerStep(d) \/ PollFails(d)
      PROVE  Same
  BY <1>4 DEF Ask, Serve, HandOut, Note, Snapshot, Abort, Exhaust, Find, Post, Recheck, Timeout,
              PollerStep, Poll, PollServe, PollFails, PollNote, coordVars
<1> QED BY <1>1, <1>2, <1>3, <1>4 DEF Next, DeviceStep

\* How a device comes to be in the handler of its solution, and past the recheck.
LEMMA HandlerStep ==
  ASSUME IInv, Next, NEW e \in Devices
  PROVE  /\ pc'[e] = "posted" =>
              \/ pc[e] = "posted" /\ state'[e] = state[e]
              \/ latest # None /\ state'[e] = latest /\ UNCHANGED coordVars
         /\ pc'[e] = "submit" =>
              \/ pc[e] = "submit" /\ state'[e] = state[e] /\ sol'[e] = sol[e]
              \/ /\ Dedupe(e) /\ sol[e] \notin seen.keys /\ InsertKey(sol[e])
                 /\ pc[e] = "posted" /\ state'[e] = state[e] /\ sol'[e] = sol[e]
                 /\ sol[e].prefix.state = state[e]
         /\ pc'[e] = "sign" =>
              \/ pc[e] = "sign" /\ state'[e] = state[e] /\ sol'[e] = sol[e]
              \/ /\ Recheck(e) /\ sol[e].prefix.state.challenge \in Readable /\ UNCHANGED coordVars
                 /\ pc[e] = "submit" /\ state'[e] = state[e] /\ sol'[e] = sol[e]
<1>0. WorkerTypeOK
  BY DEF IInv, TypeOK
<1> USE DEF WorkerTypeOK, device, memory, poller, workerVars, Goto, Again, Rest
<1> DEFINE Kept == pc'[e] \in {"posted", "submit", "sign"} =>
                     pc'[e] = pc[e] /\ state'[e] = state[e] /\ sol'[e] = sol[e]
<1>1. CASE Background \/ Crash
  BY <1>0, <1>1 DEF Background, Crash
<1>2. CASE \E w \in Workers : Boot(w)
  BY <1>0, <1>2 DEF Boot
<1>3. ASSUME NEW d \in Devices, Reregister(d) \/ Ask(d) \/ Serve(d) \/ Note(d) \/ Snapshot(d)
      PROVE  Kept
  BY <1>0, <1>3 DEF Reregister, Ask, Serve, Note, Snapshot
<1>r. ASSUME NEW x \in Callers, Registered(x) \/ RegisterFails(x) PROVE Kept
  BY <1>0, <1>r DEF Registered, RegisterFails
<1>4. ASSUME NEW d \in Devices, Abort(d) \/ Exhaust(d) \/ Find(d) \/ Send(d) \/ Timeout(d)
      PROVE  Kept
  BY <1>0, <1>4 DEF Abort, Exhaust, Find, Send, Timeout
<1>5. ASSUME NEW d \in Devices, PollerStep(d) \/ PollFails(d) PROVE Kept
  BY <1>0, <1>5 DEF PollerStep, Poll, PollServe, PollFails, PollNote
<1>6. ASSUME NEW d \in Devices, Post(d)
      PROVE  \/ Kept
             \/ pc'[e] = "posted" /\ latest # None /\ state'[e] = latest /\ UNCHANGED coordVars
  BY <1>0, <1>6 DEF Post
<1>7. ASSUME NEW d \in Devices, Dedupe(d)
      PROVE  \/ Kept
             \/ /\ e = d /\ sol[e] \notin seen.keys /\ InsertKey(sol[e]) /\ pc'[e] = "submit"
                /\ pc[e] = "posted" /\ state'[e] = state[e] /\ sol'[e] = sol[e]
                /\ sol[e].prefix.state = state[e]
  BY <1>0, <1>7 DEF Dedupe
<1>8. ASSUME NEW d \in Devices, Recheck(d)
      PROVE  \/ Kept
             \/ /\ e = d /\ sol[e].prefix.state.challenge \in Readable /\ UNCHANGED coordVars
                /\ pc'[e] = "sign"
                /\ pc[e] = "submit" /\ state'[e] = state[e] /\ sol'[e] = sol[e]
  BY <1>0, <1>8 DEF Recheck
<1> QED BY <1>0, <1>1, <1>2, <1>3, <1>r, <1>4, <1>5, <1>6, <1>7, <1>8 DEF Next, DeviceStep

\* The mirror gives chances to what can be read, once to what had none.
LEMMA ChancesStep ==
  ASSUME IInv, MirrorClear, NEW c \in Epochs
  PROVE  /\ published \in WorkState /\ published \in states /\ mirroring' = published
         /\ UNCHANGED <<head, latest, states, sent>>
         /\ chances[c] \in Nat /\ chances'[c] \in Nat /\ chances[c] <= chances'[c]
         /\ chances'[c] > chances[c] =>
               c \in Readable /\ Begins(c, published) /\ chances'[c] = chances[c] + 1
         /\ c \in Readable /\ Begins(c, published) => chances'[c] = chances[c] + 1
         /\ seen' = IF seen.epoch = published.epoch THEN seen
                    ELSE [epoch |-> published.epoch, keys |-> {}]
<1>0. CoordTypeOK /\ StatesInv
  BY DEF IInv, TypeOK
<1>1. published \in states /\ published \in WorkState
  BY <1>0 DEF MirrorClear, StatesInv, CoordTypeOK
<1>2. /\ chances[c] \in Nat
      /\ chances'[c] = chances[c] + (IF c \in Readable /\ Begins(c, published) THEN 1 ELSE 0)
  BY <1>0 DEF MirrorClear, CoordTypeOK
<1>3. /\ mirroring' = published /\ UNCHANGED <<head, latest, states, sent>>
      /\ seen' = IF seen.epoch = published.epoch THEN seen
                 ELSE [epoch |-> published.epoch, keys |-> {}]
  BY DEF MirrorClear
<1> QED BY <1>1, <1>2, <1>3

LEMMA ChancePreserves ==
  ASSUME IInv, Next
  PROVE  ChanceInv'
<1>0. /\ CoordTypeOK /\ WorkerTypeOK /\ StatesInv /\ ChanceInv /\ head \in Nat /\ Lag \in Nat
      /\ \A d \in Devices : LabelInv(d)
      /\ \A c \in Epochs : c \in Nat /\ chances[c] \in Nat
      /\ \A s \in states : s \in WorkState /\ s.challenge \in Epochs /\ s # None
  BY DEF IInv, TypeOK, CoordTypeOK, WorkState, Epochs
<1>1. CASE Crash
  BY <1>1 DEF Crash, CoordRestart, Fresh, ChanceInv
<1>2. CASE NewEpoch /\ UNCHANGED workerVars
  <2>1. head' = head + 1 /\ UNCHANGED <<mirroring, latest, chances, pc, state>>
    BY <1>2 DEF NewEpoch, histories, workerVars, device
  <2>2. \A c \in Epochs : c <= head /\ c \in Readable' => c \in Readable
    BY <1>0, <2>1 DEF Readable
  <2>3. \A s \in states : s.challenge \in Readable' => s.challenge \in Readable
    BY <1>0, <2>2 DEF StatesInv
  <2>4. \A c \in Epochs : chances[c] > 0 => c <= head'
    BY <1>0, <2>1 DEF ChanceInv
  <2>5. \A s \in {mirroring, latest} :
           s # None /\ s.challenge \in Readable' => chances[s.challenge] > 0
    BY <1>0, <2>3 DEF ChanceInv, StatesInv
  <2>6. \A d \in Devices :
           pc[d] \in {"posted", "submit", "sign"} /\ state[d].challenge \in Readable' =>
             chances[state[d].challenge] > 0
    BY <1>0, <2>3 DEF ChanceInv, LabelInv
  <2> QED BY <2>1, <2>4, <2>5, <2>6 DEF ChanceInv
<1>3. CASE MirrorClear /\ UNCHANGED workerVars
  <2>1. /\ mirroring' = published /\ UNCHANGED <<head, latest, pc, state>> /\ published \in states
    BY <1>0, <1>3, ChancesStep DEF MirrorClear, workerVars, device, StatesInv
  <2>2. \A c \in Epochs : /\ chances'[c] \in Nat /\ chances[c] <= chances'[c]
                          /\ chances'[c] > chances[c] => c \in Readable
    BY <1>3, ChancesStep
  <2>3. \A c \in Epochs : chances[c] > 0 => chances'[c] > 0
    BY <1>0, <2>2
  <2>4. Readable' = Readable
    BY <2>1 DEF Readable
  <2>5. published.challenge \in Readable => chances'[published.challenge] > 0
    <3>1. CASE chances[published.challenge] = 0
      BY <1>0, <1>3, <2>1, <3>1, ChancesStep DEF Begins
    <3>2. CASE chances[published.challenge] # 0
      BY <1>0, <2>1, <2>3, <3>2
    <3> QED BY <3>1, <3>2
  <2>6. \A c \in Epochs : chances'[c] > 0 => c <= head'
    BY <1>0, <2>1, <2>2 DEF ChanceInv, Readable
  <2>7. \A s \in {mirroring', latest'} :
           s # None /\ s.challenge \in Readable => chances'[s.challenge] > 0
    BY <1>0, <2>1, <2>3, <2>5 DEF ChanceInv, StatesInv
  <2>8. \A d \in Devices :
           pc[d] \in {"posted", "submit", "sign"} /\ state[d].challenge \in Readable =>
             chances'[state[d].challenge] > 0
    BY <1>0, <2>3 DEF ChanceInv, LabelInv
  <2> QED BY <2>1, <2>4, <2>6, <2>7, <2>8 DEF ChanceInv
<1>4. ASSUME UNCHANGED <<head, chances>>, {mirroring', latest'} \subseteq {mirroring, latest, None}
      PROVE  ChanceInv'
  <2>1. Readable' = Readable
    BY <1>4 DEF Readable
  <2>2. ASSUME NEW d \in Devices, pc'[d] \in {"posted", "submit", "sign"},
               state'[d].challenge \in Readable
        PROVE  chances[state'[d].challenge] > 0
    <3>1. \/ pc[d] \in {"posted", "submit", "sign"} /\ state'[d] = state[d]
          \/ latest # None /\ state'[d] = latest
      BY <2>2, HandlerStep
    <3> QED BY <1>0, <2>2, <3>1 DEF ChanceInv
  <2> QED BY <1>0, <1>4, <2>1, <2>2 DEF ChanceInv
<1>5. CASE (Publish \/ MirrorWrite \/ Collect) /\ UNCHANGED workerVars
  BY <1>4, <1>5 DEF Publish, MirrorWrite, Collect, histories
<1>6. CASE \E d \in Devices : Dedupe(d) \/ Send(d)
  BY <1>4, <1>6 DEF Dedupe, Send, InsertKey, CountSent, coordVars, histories
<1>7. CASE UNCHANGED <<head, published, mirroring, latest, seen, states, chances, sent>>
  BY <1>4, <1>7
<1> QED BY <1>1, <1>2, <1>3, <1>5, <1>6, <1>7, SharedStep

LEMMA CountsAreNaturals ==
  ASSUME NEW s
  PROVE  /\ IsFiniteSet(Signing(s)) /\ IsFiniteSet(Handling(s))
         /\ Cardinality(Signing(s)) \in Nat /\ Cardinality(Handling(s)) \in Nat
         /\ Cardinality(Signing(s)) <= Cardinality(Handling(s))
<1>1. IsFiniteSet(Handling(s)) /\ Signing(s) \subseteq Handling(s)
  BY FS_Subset DEF Handling, Signing
<1> QED BY <1>1, FS_Subset, FS_CardinalityType

LEMMA TimesAreNaturals ==
  ASSUME CoordTypeOK, NEW s \in Solution
  PROVE  Times(s) \in Nat /\ Challenge(s) \in Epochs /\ chances[Challenge(s)] \in Nat
BY DEF Times, CoordTypeOK, Challenge, Solution, Prefix, WorkState

\* Only Dedupe adds to the handlers of a solution, and only Recheck to those that sign.
LEMMA SigningStep ==
  ASSUME IInv, Next, NEW s \in Solution
  PROVE  /\ Signing(s)' \subseteq Handling(s)
         /\ \/ Signing(s)' \subseteq Signing(s)
            \/ /\ UNCHANGED coordVars /\ Handling(s)' \subseteq Handling(s)
               /\ Challenge(s) \in Readable /\ chances[Challenge(s)] > 0
         /\ \/ Handling(s)' \subseteq Handling(s)
            \/ /\ s \notin seen.keys /\ InsertKey(s)
               /\ \E d \in Devices : Handling(s)' \subseteq Handling(s) \cup {d}
<1>0. /\ WorkerTypeOK /\ ChanceInv /\ \A d \in Devices : LabelInv(d)
  BY DEF IInv, TypeOK
<1>1. Signing(s)' \subseteq Handling(s)
  <2>1. ASSUME NEW e \in Devices, pc'[e] = "sign", sol'[e] = s
        PROVE  pc[e] \in {"submit", "sign"} /\ sol[e] = s
    BY <2>1, HandlerStep
  <2> QED BY <2>1 DEF Signing, Handling
<1>2. CASE \E d \in Devices : Dedupe(d) /\ sol[d] = s /\ s \notin seen.keys /\ InsertKey(s)
  <2>1. PICK d \in Devices : Dedupe(d) /\ sol[d] = s /\ s \notin seen.keys /\ InsertKey(s)
    BY <1>2
  <2>2. \A e \in Devices \ {d} : pc'[e] = pc[e] /\ sol'[e] = sol[e]
    BY <1>0, <2>1 DEF Dedupe, Goto, Again, WorkerTypeOK
  <2>3. pc'[d] # "sign"
    BY <1>0, <2>1 DEF Dedupe, Goto, Again, WorkerTypeOK
  <2>4. Handling(s)' \subseteq Handling(s) \cup {d} /\ Signing(s)' \subseteq Signing(s)
    BY <2>2, <2>3 DEF Handling, Signing
  <2> QED BY <1>1, <2>1, <2>4
<1>3. CASE ~ \E d \in Devices : Dedupe(d) /\ sol[d] = s /\ s \notin seen.keys /\ InsertKey(s)
  <2>1. ASSUME NEW e \in Devices, pc'[e] \in {"submit", "sign"}, sol'[e] = s
        PROVE  pc[e] \in {"submit", "sign"} /\ sol[e] = s
    BY <1>3, <2>1, HandlerStep
  <2>2. Handling(s)' \subseteq Handling(s)
    BY <2>1 DEF Handling
  <2>3. CASE \E e \in Devices : /\ pc[e] = "submit" /\ sol[e] = s
                                /\ Challenge(s) \in Readable /\ UNCHANGED coordVars
    <3>1. PICK e \in Devices : /\ pc[e] = "submit" /\ sol[e] = s
                               /\ Challenge(s) \in Readable /\ UNCHANGED coordVars
      BY <2>3
    <3>2. sol[e].prefix.state = state[e]
      BY <1>0, <3>1 DEF LabelInv
    <3>3. chances[Challenge(s)] > 0
      BY <1>0, <3>1, <3>2 DEF ChanceInv, Challenge
    <3> QED BY <1>1, <2>2, <3>1, <3>3
  <2>4. CASE ~ \E e \in Devices : /\ pc[e] = "submit" /\ sol[e] = s
                                  /\ Challenge(s) \in Readable /\ UNCHANGED coordVars
    <3>1. ASSUME NEW e \in Devices, pc'[e] = "sign", sol'[e] = s
          PROVE  pc[e] = "sign" /\ sol[e] = s
      BY <2>4, <3>1, HandlerStep DEF Challenge
    <3>2. Signing(s)' \subseteq Signing(s)
      BY <3>1 DEF Signing
    <3> QED BY <1>1, <2>2, <3>2
  <2> QED BY <2>3, <2>4
<1> QED BY <1>2, <1>3

LEMMA CountSentEffect ==
  ASSUME CoordTypeOK, NEW t, CountSent(t)
  PROVE  /\ UNCHANGED <<head, states, chances, seen>>
         /\ \A s : Times(s)' = IF s = t THEN Times(s) + 1 ELSE Times(s)
<1>0. \A s \in DOMAIN sent : sent[s] \in Nat
  BY DEF CoordTypeOK
<1>1. sent' = [s \in DOMAIN sent \cup {t} |->
                 (IF s \in DOMAIN sent THEN sent[s] ELSE 0) + (IF s = t THEN 1 ELSE 0)]
  BY DEF CountSent
<1>2. DOMAIN sent' = DOMAIN sent \cup {t}
  BY <1>1
<1>3. ASSUME NEW s PROVE Times(s)' = IF s = t THEN Times(s) + 1 ELSE Times(s)
  BY <1>0, <1>1, <1>2 DEF Times
<1> QED BY <1>3 DEF CountSent

\* A send counts for the solution of its handler, which ends with it.
LEMMA SendEffect ==
  ASSUME IInv, NEW d \in Devices, Send(d), CountSent(sol[d]), NEW s \in Solution
  PROVE  /\ sol[d] \in Solution
         /\ sol[d] = s => /\ Times(s)' = Times(s) + 1
                          /\ Cardinality(Signing(s)') = Cardinality(Signing(s)) - 1
                          /\ Cardinality(Handling(s)') = Cardinality(Handling(s)) - 1
         /\ sol[d] # s => Times(s)' = Times(s)
<1>0. CoordTypeOK /\ WorkerTypeOK /\ LabelInv(d) /\ pc[d] = "sign"
  BY DEF IInv, TypeOK, Send
<1>1. sol[d] \in Solution
  BY <1>0 DEF LabelInv, WorkerTypeOK
<1>2. \A t : Times(t)' = IF t = sol[d] THEN Times(t) + 1 ELSE Times(t)
  BY <1>0, CountSentEffect
<1>3. ASSUME sol[d] = s
      PROVE  /\ Cardinality(Signing(s)') = Cardinality(Signing(s)) - 1
             /\ Cardinality(Handling(s)') = Cardinality(Handling(s)) - 1
  <2>1. pc'[d] = "fetch" /\ \A e \in Devices \ {d} : pc'[e] = pc[e] /\ sol'[e] = sol[e]
    BY <1>0 DEF Send, Again, WorkerTypeOK
  <2>2. /\ Signing(s)' = Signing(s) \ {d} /\ d \in Signing(s)
        /\ Handling(s)' = Handling(s) \ {d} /\ d \in Handling(s)
    BY <1>0, <1>3, <2>1 DEF Signing, Handling
  <2> QED BY <2>2, CountsAreNaturals, FS_RemoveElement
<1> QED BY <1>1, <1>2, <1>3

LEMMA SentPreserves ==
  ASSUME IInv, Next, TypeOK'
  PROVE  SentInv'
<1> SUFFICES ASSUME NEW s \in Solution
             PROVE  /\ Times(s)' + Cardinality(Signing(s)') <= chances'[Challenge(s)]
                    /\ Challenge(s) \in Readable' /\ chances'[Challenge(s)] > 0 =>
                          Times(s)' + Cardinality(Handling(s)')
                              + (IF s \in seen'.keys THEN 0 ELSE 1)
                            <= chances'[Challenge(s)]
  BY DEF SentInv, Challenge
<1> DEFINE T == Times(s)
           T2 == Times(s)'
           G == Cardinality(Signing(s))
           G2 == Cardinality(Signing(s)')
           H == Cardinality(Handling(s))
           H2 == Cardinality(Handling(s)')
           c == Challenge(s)
           C == chances[c]
           C2 == chances'[c]
           K == IF s \in seen.keys THEN 0 ELSE 1
           K2 == IF s \in seen'.keys THEN 0 ELSE 1
<1>0. /\ CoordTypeOK /\ WorkerTypeOK /\ SentInv /\ ChanceInv /\ StatesInv
      /\ \A d \in Devices : LabelInv(d)
  BY DEF IInv, TypeOK
<1>n. /\ T \in Nat /\ C \in Nat /\ c \in Epochs /\ G \in Nat /\ H \in Nat /\ G <= H
      /\ IsFiniteSet(Signing(s)) /\ IsFiniteSet(Handling(s))
  BY <1>0, TimesAreNaturals, CountsAreNaturals
<1>m. /\ T2 \in Nat /\ C2 \in Nat /\ G2 \in Nat /\ H2 \in Nat /\ G2 <= H2
      /\ IsFiniteSet(Signing(s)') /\ IsFiniteSet(Handling(s)')
  <2>1. T2 \in Nat /\ C2 \in Nat
    BY <1>n DEF TypeOK, CoordTypeOK, Times
  <2>2. Signing(s)' \subseteq Handling(s)' /\ IsFiniteSet(Handling(s)')
    BY FS_Subset DEF Handling, Signing
  <2> QED BY <2>1, <2>2, FS_Subset, FS_CardinalityType
<1>k. K \in 0..1 /\ K2 \in 0..1
  OBVIOUS
<1>i. T + G <= C /\ (c \in Readable /\ C > 0 => T + H + K <= C)
  BY <1>0 DEF SentInv
<1>goal. SUFFICES T2 + G2 <= C2 /\ (c \in Readable' /\ C2 > 0 => T2 + H2 + K2 <= C2)
  OBVIOUS
<1>1. CASE Crash
  <2>1. T2 = 0
    BY <1>1 DEF Crash, CoordRestart, Fresh, Times
  <2>2. Signing(s)' = {} /\ C2 = 0
    BY <1>1, <1>n DEF Crash, CoordRestart, Fresh, Signing
  <2>3. G2 = 0
    BY <2>2, FS_EmptySet
  <2> HIDE DEF T2, G2, C2, H2, K2
  <2> QED BY <2>1, <2>2, <2>3
<1>2. CASE NewEpoch /\ UNCHANGED workerVars
  <2>1. /\ T2 = T /\ G2 = G /\ H2 = H /\ K2 = K /\ C2 = C /\ head' = head + 1
    BY <1>2 DEF NewEpoch, histories, workerVars, device, Times, Signing, Handling
  <2>2. C > 0 /\ c \in Readable' => c \in Readable
    BY <1>0, <1>n, <2>1 DEF ChanceInv, Readable, CoordTypeOK, Epochs
  <2> HIDE DEF T, T2, G, G2, H, H2, K, K2, C, C2, c
  <2> QED BY <1>i, <2>1, <2>2
<1>3. CASE MirrorClear /\ UNCHANGED workerVars
  <2>1. /\ T2 = T /\ G2 = G /\ H2 = H
    BY <1>3 DEF MirrorClear, workerVars, device, Times, Signing, Handling
  <2>2. /\ C <= C2 /\ UNCHANGED head
        /\ C2 > C => c \in Readable /\ Begins(c, published) /\ C2 = C + 1
        /\ c \in Readable /\ Begins(c, published) => C2 = C + 1
        /\ seen' = IF seen.epoch = published.epoch THEN seen
                   ELSE [epoch |-> published.epoch, keys |-> {}]
    BY <1>3, <1>n, ChancesStep
  <2>3. Readable' = Readable
    BY <2>2 DEF Readable
  <2>4. CASE c \notin Readable
    <3> HIDE DEF T, T2, G, G2, H, H2, K, K2, C, C2, c
    <3> QED BY <1>n, <1>m, <1>i, <2>1, <2>2, <2>3, <2>4
  <2>5. CASE c \in Readable /\ C = 0
    <3>1. Handling(s) = {}
      <4>1. SUFFICES ASSUME NEW d \in Devices, pc[d] \in {"submit", "sign"}, sol[d] = s
                     PROVE  FALSE
        BY DEF Handling
      <4>2. sol[d].prefix.state = state[d]
        BY <1>0, <4>1 DEF LabelInv
      <4>3. chances[state[d].challenge] > 0
        BY <1>0, <2>5, <4>1, <4>2 DEF ChanceInv, Challenge
      <4> QED BY <2>5, <4>1, <4>2, <4>3 DEF Challenge
    <3>2. H = 0
      BY <3>1, FS_EmptySet
    <3> HIDE DEF T, T2, G, G2, H, H2, K, K2, C, C2, c
    <3> QED BY <1>n, <1>m, <1>i, <1>k, <2>1, <2>2, <2>5, <3>2
  <2>6. CASE c \in Readable /\ C > 0
    <3>1. CASE seen.epoch = published.epoch
      <4>1. K2 = K
        BY <2>2, <3>1
      <4> HIDE DEF T, T2, G, G2, H, H2, K, K2, C, C2, c
      <4> QED BY <1>n, <1>m, <1>i, <1>k, <2>1, <2>2, <2>6, <4>1
    <3>2. CASE seen.epoch # published.epoch
      <4>1. Begins(c, published)
        BY <1>n, <2>6, <3>2 DEF Begins
      <4> HIDE DEF T, T2, G, G2, H, H2, K, K2, C, C2, c
      <4>2. C2 = C + 1 /\ T + H <= C
        BY <1>n, <1>i, <1>k, <2>2, <2>6, <4>1
      <4> QED BY <1>n, <1>m, <1>i, <1>k, <2>1, <4>2
    <3> QED BY <3>1, <3>2
  <2> QED BY <1>n, <2>4, <2>5, <2>6
<1>4. ASSUME T2 = T, UNCHANGED <<head, chances>>, seen.keys \subseteq seen'.keys
      PROVE  T2 + G2 <= C2 /\ (c \in Readable' /\ C2 > 0 => T2 + H2 + K2 <= C2)
  <2>1. Readable' = Readable /\ C2 = C
    BY <1>4 DEF Readable
  <2>2. K2 <= K
    BY <1>4
  <2>3. T2 + G2 <= C2
    <3>1. CASE Signing(s)' \subseteq Signing(s)
      <4>1. G2 <= G
        BY <1>n, <3>1, FS_Subset
      <4> HIDE DEF T, T2, G, G2, H, H2, K, K2, C, C2, c
      <4> QED BY <1>n, <1>m, <1>i, <1>4, <2>1, <4>1
    <3>2. CASE c \in Readable /\ C > 0
      <4>1. G2 <= H
        BY <1>n, SigningStep, FS_Subset
      <4> HIDE DEF T, T2, G, G2, H, H2, K, K2, C, C2, c
      <4> QED BY <1>n, <1>m, <1>i, <1>k, <1>4, <2>1, <3>2, <4>1
    <3> QED BY <3>1, <3>2, SigningStep
  <2>4. ASSUME c \in Readable, C > 0 PROVE T2 + H2 + K2 <= C2
    <3>1. CASE Handling(s)' \subseteq Handling(s)
      <4>1. H2 <= H
        BY <1>n, <3>1, FS_Subset
      <4> HIDE DEF T, T2, G, G2, H, H2, K, K2, C, C2, c
      <4> QED BY <1>n, <1>m, <1>i, <1>k, <1>4, <2>1, <2>2, <2>4, <4>1
    <3>2. CASE /\ s \notin seen.keys /\ InsertKey(s)
               /\ \E d \in Devices : Handling(s)' \subseteq Handling(s) \cup {d}
      <4>1. PICK d \in Devices : Handling(s)' \subseteq Handling(s) \cup {d}
        BY <3>2
      <4>2. K = 1 /\ K2 = 0
        BY <1>0, <3>2 DEF InsertKey, CoordTypeOK
      <4>3. /\ IsFiniteSet(Handling(s) \cup {d})
            /\ Cardinality(Handling(s) \cup {d}) \in {H, H + 1}
        BY <1>n, FS_AddElement
      <4>4. H2 <= Cardinality(Handling(s) \cup {d})
        BY <4>1, <4>3, FS_Subset
      <4> HIDE DEF T, T2, G, G2, H, H2, K, K2, C, C2, c
      <4>5. H2 <= H + 1
        BY <1>n, <1>m, <4>3, <4>4
      <4> QED BY <1>n, <1>m, <1>i, <1>4, <2>1, <2>4, <4>2, <4>5
    <3> QED BY <3>1, <3>2, SigningStep
  <2> QED BY <2>1, <2>3, <2>4
<1>5. ASSUME NEW d \in Devices, Send(d), CountSent(sol[d]), sol[d] = s
      PROVE  T2 + G2 <= C2 /\ (c \in Readable' /\ C2 > 0 => T2 + H2 + K2 <= C2)
  <2>1. T2 = T + 1 /\ G2 = G - 1 /\ H2 = H - 1
    BY <1>5, SendEffect
  <2>2. UNCHANGED <<head, chances, seen>>
    BY <1>0, <1>5, CountSentEffect
  <2>3. Readable' = Readable /\ C2 = C /\ K2 = K
    BY <2>2 DEF Readable
  <2> HIDE DEF T, T2, G, G2, H, H2, K, K2, C, C2, c
  <2> QED BY <1>n, <1>m, <1>i, <1>k, <2>1, <2>3
<1>6. ASSUME NEW d \in Devices, Send(d), CountSent(sol[d]), sol[d] # s
      PROVE  T2 = T /\ UNCHANGED <<head, chances>> /\ seen.keys \subseteq seen'.keys
  BY <1>0, <1>6, SendEffect, CountSentEffect
<1>7. ASSUME UNCHANGED sent PROVE T2 = T
  BY <1>7 DEF Times
<1>8. CASE (Publish \/ MirrorWrite \/ Collect) /\ UNCHANGED workerVars
  <2>1. UNCHANGED <<sent, head, chances, seen>>
    BY <1>8 DEF Publish, MirrorWrite, Collect, histories
  <2> QED BY <1>4, <1>7, <2>1
<1>9. CASE \E d \in Devices : Dedupe(d) \/ Send(d)
  <2>1. PICK d \in Devices : Dedupe(d) \/ Send(d)
    BY <1>9
  <2>2. CASE UNCHANGED coordVars \/ InsertKey(sol[d])
    <3>1. UNCHANGED <<sent, head, chances>> /\ seen.keys \subseteq seen'.keys
      BY <1>0, <2>2 DEF coordVars, InsertKey, histories, CoordTypeOK
    <3> QED BY <1>4, <1>7, <3>1
  <2>3. CASE Send(d) /\ CountSent(sol[d])
    BY <1>4, <1>5, <1>6, <2>3
  <2> QED BY <2>1, <2>2, <2>3 DEF Dedupe, Send
<1>10. CASE UNCHANGED <<head, published, mirroring, latest, seen, states, chances, sent>>
  BY <1>4, <1>7, <1>10
<1> QED BY <1>1, <1>2, <1>3, <1>8, <1>9, <1>10, SharedStep

-----------------------------------------------------------------------------
LEMMA NextPreserves == IInv /\ Next => IInv'
<1> SUFFICES ASSUME IInv, Next PROVE IInv'
  OBVIOUS
<1>1. CoordStep
  BY StepsOfTheCoordinator
<1>2. TypeOK'
  BY <1>1, CoordTypePreserves, WorkerTypePreserves DEF TypeOK
<1>3. StatesInv' /\ RegInv' /\ BoundInv' /\ IdInv' /\ ChanceInv' /\ SentInv'
  BY <1>1, <1>2, StatesPreserve, RegPreserves, BoundPreserves, IdPreserves, ChancePreserves,
     SentPreserves
<1>4. \A d \in Devices : LabelInv(d)' /\ WorkInv(d)'
  BY <1>1, LabelPreserves, WorkPreserves
<1> QED BY <1>2, <1>3, <1>4 DEF IInv

LEMMA StutterPreserves == IInv /\ UNCHANGED vars => IInv'
<1> SUFFICES ASSUME IInv, UNCHANGED vars PROVE IInv'
  OBVIOUS
<1> USE DEF IInv, vars, coordVars, workerVars, device, memory, poller, HasEntry
<1>1. TypeOK' /\ StatesInv' /\ RegInv' /\ BoundInv'
  BY DEF TypeOK, CoordTypeOK, WorkerTypeOK, StatesInv, RegInv, BoundInv, PrefixOf
<1>2. IdInv' /\ ChanceInv'
  BY DEF IdInv, Holds, Uses, ChanceInv, Readable
<1>3. \A d \in Devices : LabelInv(d)' /\ WorkInv(d)'
  BY DEF LabelInv, WorkInv, Behind
<1>4. SentInv'
  <2>1. /\ \A s : Times(s)' = Times(s) /\ Signing(s)' = Signing(s) /\ Handling(s)' = Handling(s)
        /\ Readable' = Readable
    BY DEF Times, Signing, Handling, Readable
  <2> QED BY <2>1 DEF SentInv, Challenge
<1> QED BY <1>1, <1>2, <1>3, <1>4

THEOREM Invariance == Spec => []IInv
BY InitEstablishes, NextPreserves, StutterPreserves, PTL DEF Spec

\* The state of the coordinator and of its workers is always well typed: no handler or
\* device reads a copy, an id or a batch that is not there.
THEOREM TypeCorrectness == Spec => []TypeOK
<1>1. IInv => TypeOK
  BY DEF IInv
<1> QED BY <1>1, Invariance, PTL

\* A solution that several posts bring is sent no more often than SeenState began anew
\* while its challenge could be read, however the published state goes back and forth.
THEOREM SolutionsSentOnce == Spec => []SentOnce
<1>1. ASSUME IInv PROVE SentOnce
  <2>1. SUFFICES ASSUME NEW s \in DOMAIN sent
                 PROVE  sent[s] <= chances[Challenge(s)]
    BY DEF SentOnce, Challenge
  <2>2. CoordTypeOK /\ SentInv /\ s \in Solution
    BY <1>1 DEF IInv, TypeOK, CoordTypeOK
  <2>3. /\ Times(s) \in Nat /\ chances[Challenge(s)] \in Nat
        /\ Cardinality(Signing(s)) \in Nat
    BY <2>2, TimesAreNaturals, CountsAreNaturals
  <2>4. Times(s) + Cardinality(Signing(s)) <= chances[Challenge(s)] /\ Times(s) = sent[s]
    BY <2>2 DEF SentInv, Times
  <2> QED BY <2>3, <2>4
<1> QED BY <1>1, Invariance, PTL

\* In the first life of the coordinator devices of different workers never search the
\* same nonce, whatever answers were lost and entries collected.
THEOREM RangesDisjoint == Spec => []WorkersSearchDisjoint
<1>1. ASSUME IInv PROVE WorkersSearchDisjoint
  <2>1. SUFFICES ASSUME NEW d \in Devices, NEW e \in Devices, life = 1, owner[d] # owner[e],
                        pc[d] = "mine", pc[e] = "mine"
                 PROVE  Searched(d) \cap Searched(e) = {}
    BY DEF WorkersSearchDisjoint, Disjoint
  <2>2. /\ work[d] \in Work /\ work[e] \in Work
        /\ owner[d] \in Workers /\ owner[e] \in Workers
        /\ work[d] # None /\ work[e] # None
    BY <1>1, <2>1 DEF IInv, TypeOK, WorkerTypeOK, LabelInv
  <2>3. work[d].prefix.id \in Ids /\ work[e].prefix.id \in Ids
    BY <2>2 DEF Work, Prefix
  <2>4. Holds(owner[d], work[d].prefix.id) /\ Holds(owner[e], work[e].prefix.id)
    BY <2>2 DEF Holds, Uses
  <2>5. work[d].prefix.id # work[e].prefix.id
    BY <1>1, <2>1, <2>2, <2>3, <2>4 DEF IInv, IdInv
  <2> QED BY <2>5 DEF Searched
<1> QED BY <1>1, Invariance, PTL

\* No two devices are ever handed the same batch unless their allocator was bound to its
\* state a second time, across lost answers, pollers and restarts.
THEOREM BatchesHandedOutOnce == Spec => []BatchesDisjoint
<1>1. ASSUME IInv PROVE BatchesDisjoint
  <2>1. SUFFICES ASSUME NEW d \in Devices, NEW e \in Devices, d # e, pc[d] = "mine",
                        work[d].base < Batches, work[d].prefix \notin rebound
                 PROVE  work[d] # work[e]
    BY DEF BatchesDisjoint
  <2>2. work[d] # None /\ WorkInv(d)
    BY <1>1, <2>1 DEF IInv, LabelInv
  <2> QED BY <2>1, <2>2 DEF WorkInv
<1> QED BY <1>1, Invariance, PTL
-----------------------------------------------------------------------------
(* The coordinator implements its solution log *)

LEMMA MirrorTakesUp ==
  ASSUME IInv, MirrorClear
  PROVE  \E C \in SUBSET Epochs : Log!TakeUp(C)
<1> DEFINE C == {c \in Epochs : c \in Readable /\ Begins(c, published)}
<1>1. \A c \in C : c <= head /\ head <= c + Lag
  BY DEF Readable
<1>2. chances \in [Epochs -> Nat] /\ UNCHANGED <<head, states, sent>>
  BY DEF IInv, TypeOK, CoordTypeOK, MirrorClear
<1>3. chances' = [c \in Epochs |-> chances[c] +
                    (IF c \in Readable /\ Begins(c, published) THEN 1 ELSE 0)]
  BY DEF MirrorClear
<1>4. chances' = [c \in Epochs |-> IF c \in C THEN chances[c] + 1 ELSE chances[c]]
  BY <1>2, <1>3
<1>5. C \in SUBSET Epochs
  OBVIOUS
<1>6. Log!TakeUp(C)
  BY <1>1, <1>2, <1>4 DEF Log!TakeUp
<1> QED BY <1>5, <1>6

\* What is past the recheck was published in this life and has a chance left.
LEMMA SendsAreDue ==
  ASSUME IInv, NEW d \in Devices, Send(d), CountSent(sol[d])
  PROVE  sol[d] \in Solution /\ Log!Send(sol[d])
<1> DEFINE s == sol[d]
<1>0. CoordTypeOK /\ SentInv /\ pc[d] = "sign" /\ LabelInv(d) /\ WorkerTypeOK
  BY DEF IInv, TypeOK, Send
<1>1. s \in Solution /\ s.prefix.state \in states
  BY <1>0 DEF LabelInv, WorkerTypeOK
<1>2. /\ Times(s) \in Nat /\ chances[Challenge(s)] \in Nat /\ Cardinality(Signing(s)) \in Nat
      /\ IsFiniteSet(Signing(s))
  BY <1>0, <1>1, TimesAreNaturals, CountsAreNaturals
<1>3. Cardinality(Signing(s)) # 0
  <2>1. d \in Signing(s)
    BY <1>0 DEF Signing
  <2> QED BY <1>2, <2>1, FS_EmptySet
<1>4. Times(s) + Cardinality(Signing(s)) <= chances[Challenge(s)]
  BY <1>0, <1>1 DEF SentInv
<1>5. Times(s) < chances[Challenge(s)]
  BY <1>2, <1>3, <1>4
<1>6. sent' = [t \in DOMAIN sent \cup {s} |-> IF t = s THEN Times(s) + 1 ELSE sent[t]]
  <2>1. sent' = [t \in DOMAIN sent \cup {s} |->
                  (IF t \in DOMAIN sent THEN sent[t] ELSE 0) + (IF t = s THEN 1 ELSE 0)]
    BY DEF CountSent
  <2>2. ASSUME NEW t \in DOMAIN sent \cup {s}
        PROVE  (IF t \in DOMAIN sent THEN sent[t] ELSE 0) + (IF t = s THEN 1 ELSE 0)
                 = IF t = s THEN Times(s) + 1 ELSE sent[t]
    BY <1>0 DEF Times, CoordTypeOK
  <2> QED BY <2>1, <2>2
<1>7. UNCHANGED <<head, states, chances>>
  BY DEF CountSent
<1> QED BY <1>1, <1>5, <1>6, <1>7 DEF Log!Send, Log!Copies, Times, Challenge

LEMMA StepsOfTheLog == IInv /\ [Next]_vars => [Log!Next]_(Log!logVars)
<1> SUFFICES ASSUME IInv, [Next]_vars PROVE Log!Next \/ UNCHANGED <<head, states, chances, sent>>
  BY DEF Log!logVars
<1>1. CASE UNCHANGED vars
  BY <1>1 DEF vars, coordVars
<1>2. CASE Crash
  BY <1>2 DEF Crash, CoordRestart, Fresh, Log!Next, Log!Restart, Log!Untaken
<1>3. CASE NewEpoch
  BY <1>3 DEF NewEpoch, histories, Log!Next, Log!NewEpoch
<1>4. CASE Publish
  <2>1. PICK s \in WorkState : /\ s.epoch <= head /\ s.challenge <= head
                               /\ states' = states \cup {s}
    BY <1>4 DEF Publish
  <2>2. UNCHANGED <<head, chances, sent>>
    BY <1>4 DEF Publish
  <2>3. Log!Publish(s)
    BY <2>1, <2>2 DEF Log!Publish
  <2> QED BY <2>3 DEF Log!Next
<1>5. CASE MirrorClear
  BY <1>5, MirrorTakesUp DEF Log!Next
<1>6. CASE MirrorWrite \/ Collect
  BY <1>6 DEF MirrorWrite, Collect, histories
<1>7. ASSUME NEW d \in Devices, Dedupe(d) \/ Send(d)
      PROVE  Log!Next \/ UNCHANGED <<head, states, chances, sent>>
  <2>1. CASE Send(d) /\ CountSent(sol[d])
    BY <2>1, SendsAreDue DEF Log!Next
  <2>2. CASE UNCHANGED coordVars \/ InsertKey(sol[d])
    BY <2>2 DEF InsertKey, histories, coordVars
  <2> QED BY <1>7, <2>1, <2>2 DEF Dedupe, Send
<1> QED BY <1>1, <1>2, <1>3, <1>4, <1>5, <1>6, <1>7, SharedStep

\* The coordinator, with handlers that copy an old state, wait, repeat and time out,
\* sends nothing the log does not allow: a solution only for a state published since the
\* start, and again only when its challenge was taken up again while it could be read.
THEOREM Refinement == Spec => ImplementsSolutionLog
<1>1. Init => Log!Init
  BY DEF Init, CoordInit, Log!Init, Log!Untaken
<1>2. IInv /\ [Next]_vars => [Log!Next]_(Log!logVars)
  BY StepsOfTheLog
<1> QED BY <1>1, <1>2, Invariance, PTL DEF Spec, ImplementsSolutionLog, Log!Spec
-----------------------------------------------------------------------------
(* Old copies of `latest` *)

\* Only a handler of work that begins copies `latest`, and it copies what it is now.
LEMMA CopiesStep ==
  ASSUME IInv, Next, NEW e \in Devices
  PROVE  /\ pc'[e] = "asked" => (pc[e] = "asked" /\ state'[e] = state[e]) \/ state'[e] = latest
         /\ ppc'[e] = "asked" => (ppc[e] = "asked" /\ pstate'[e] = pstate[e]) \/ pstate'[e] = latest
<1>0. WorkerTypeOK
  BY DEF IInv, TypeOK
<1> USE DEF WorkerTypeOK, device, memory, poller, workerVars, Goto, Again, Rest
<1> DEFINE P == /\ pc'[e] = "asked" => (pc[e] = "asked" /\ state'[e] = state[e]) \/ state'[e] = latest
                /\ ppc'[e] = "asked" => (ppc[e] = "asked" /\ pstate'[e] = pstate[e]) \/ pstate'[e] = latest
<1>1. CASE Background \/ Crash
  BY <1>0, <1>1 DEF Background, Crash
<1>2. CASE \E w \in Workers : Boot(w)
  BY <1>0, <1>2 DEF Boot
<1>3. ASSUME NEW d \in Devices, Reregister(d) \/ Ask(d) \/ Serve(d) \/ Note(d) \/ Snapshot(d)
      PROVE  P
  BY <1>0, <1>3 DEF Reregister, Ask, Serve, Note, Snapshot
<1>r. ASSUME NEW x \in Callers, Registered(x) \/ RegisterFails(x) PROVE P
  BY <1>0, <1>r DEF Registered, RegisterFails
<1>4. ASSUME NEW d \in Devices, Abort(d) \/ Exhaust(d) \/ Find(d) \/ Timeout(d)
      PROVE  P
  BY <1>0, <1>4 DEF Abort, Exhaust, Find, Timeout
<1>5. ASSUME NEW d \in Devices, Post(d) \/ Dedupe(d) \/ Recheck(d) \/ Send(d) PROVE P
  BY <1>0, <1>5 DEF Post, Dedupe, Recheck, Send
<1>6. ASSUME NEW d \in Devices, PollerStep(d) \/ PollFails(d) PROVE P
  BY <1>0, <1>6 DEF PollerStep, Poll, PollServe, PollFails, PollNote
<1> QED BY <1>1, <1>2, <1>3, <1>r, <1>4, <1>5, <1>6 DEF Next, DeviceStep

\* A handler of register copies it when it begins, too.
LEMMA RegistrationCopies ==
  ASSUME IInv, Next, ~Crash, NEW x \in Callers, reg'[x] # None
  PROVE  reg'[x] = reg[x] \/ reg'[x].state = latest
<1>0. reg \in [Callers -> Registration \cup {None}]
  BY DEF IInv, TypeOK, WorkerTypeOK
<1>1. ASSUME NEW y \in Callers, Register(y) PROVE reg'[x] = reg[x] \/ reg'[x].state = latest
  BY <1>0, <1>1 DEF Register
<1> QED BY <1>0, <1>1, RegistrationSteps DEF RegStep

\* Who changes the allocators.
LEMMA EntriesStep ==
  ASSUME IInv, Next
  PROVE  \/ UNCHANGED entries
         \/ Crash \/ Collect
         \/ \E x \in Callers : Registered(x)
         \/ \E d \in Devices : Serve(d) /\ HandOut(wid[d].id, state[d])
         \/ \E d \in Devices : PollServe(d) /\ HandOut(pid[d].id, pstate[d])
<1>1. CASE Background \/ Crash
  BY <1>1 DEF Background, NewEpoch, Publish, MirrorClear, MirrorWrite
<1>2. CASE (\E w \in Workers : Boot(w)) \/ \E d \in Devices : Reregister(d)
  BY <1>2 DEF Boot, Reregister, Register, TakeId
<1>3. ASSUME NEW x \in Callers, RegisterFails(x) PROVE UNCHANGED entries
  BY <1>3 DEF RegisterFails, coordVars
<1>4. ASSUME NEW d \in Devices, Serve(d)
      PROVE  UNCHANGED entries \/ HandOut(wid[d].id, state[d])
  BY <1>4 DEF Serve, coordVars
<1>5. ASSUME NEW d \in Devices, PollServe(d)
      PROVE  UNCHANGED entries \/ HandOut(pid[d].id, pstate[d])
  BY <1>5 DEF PollServe, coordVars
<1>6. ASSUME NEW d \in Devices,
             \/ Ask(d) \/ Note(d) \/ Snapshot(d) \/ Abort(d) \/ Exhaust(d) \/ Find(d)
             \/ Post(d) \/ Dedupe(d) \/ Recheck(d) \/ Send(d) \/ Timeout(d) \/ Poll(d)
             \/ PollFails(d) \/ PollNote(d)
      PROVE  UNCHANGED entries
  BY <1>6 DEF Ask, Note, Snapshot, Abort, Exhaust, Find, Post, Dedupe, InsertKey, Recheck, Send,
              CountSent, Timeout, Poll, PollFails, PollNote, coordVars
<1> QED BY <1>1, <1>2, <1>3, <1>4, <1>5, <1>6 DEF Next, DeviceStep, PollerStep

\* An allocator that a call binds away from `latest` was asked for with an old copy.
LEMMA UnsettledByACopy ==
  ASSUME IInv, NEW i \in Ids, NEW s \in WorkState, UNCHANGED latest,
         HandOut(i, s) \/ InsertEntry(i, s)
  PROVE  s # latest \/ Settled \subseteq Settled'
<1>1. SUFFICES ASSUME s = latest, NEW j \in Settled, HasEntry(j)' PROVE entries'[j].state = latest
  BY DEF Settled
<1>2. TypeOK /\ CoordTypeOK /\ j \in Ids
  BY DEF IInv, TypeOK, Settled
<1>3. entries' = [entries EXCEPT ![i] = entries'[i]] /\ entries'[i].state = s
  <2>1. CASE HandOut(i, s)
    BY <1>2, <2>1, HandOutEffect DEF CoordTypeOK
  <2>2. CASE InsertEntry(i, s)
    BY <1>2, <2>2 DEF InsertEntry, NewAllocator, CoordTypeOK
  <2> QED BY <2>1, <2>2
<1>4. j # i => entries'[j] = entries[j]
  BY <1>2, <1>3 DEF CoordTypeOK
<1> QED BY <1>1, <1>3, <1>4 DEF Settled, HasEntry

LEMMA OldCopiesStep ==
  ASSUME IInv, [Next]_vars, UNCHANGED <<life, latest>>
  PROVE  OldCopies' \subseteq OldCopies /\ (Settled \subseteq Settled' \/ OldCopies' # OldCopies)
<1>0. /\ CoordTypeOK /\ WorkerTypeOK /\ TypeOK /\ \A d \in Devices : LabelInv(d)
      /\ life \in Nat /\ states \subseteq WorkState
  BY DEF IInv, TypeOK, CoordTypeOK, Lives
<1>1. CASE UNCHANGED vars
  BY <1>1 DEF vars, coordVars, workerVars, device, poller, OldCopies, Settled, HasEntry
<1>2. CASE Next
  <2>0. ~Crash
    BY <1>0 DEF Crash, CoordRestart
  <2>1. OldCopies' \subseteq OldCopies
    <3>1. ASSUME NEW e \in Devices
          PROVE  /\ pc'[e] = "asked" /\ state'[e] # latest => pc[e] = "asked" /\ state[e] # latest
                 /\ ppc'[e] = "asked" /\ pstate'[e] # latest => ppc[e] = "asked" /\ pstate[e] # latest
      BY <1>2, CopiesStep
    <3>2. ASSUME NEW x \in Callers, reg'[x] # None, reg'[x].state # latest
          PROVE  reg[x] # None /\ reg[x].state # latest
      BY <1>2, <2>0, <3>2, RegistrationCopies
    <3> QED BY <3>1, <3>2 DEF OldCopies
  <2>2. ASSUME UNCHANGED entries
        PROVE  Settled \subseteq Settled'
    BY <2>2 DEF Settled, HasEntry
  <2>3. ASSUME Collect
        PROVE  Settled \subseteq Settled'
    BY <1>0, <2>3 DEF Collect, Settled, HasEntry, CoordTypeOK
  <2>4. ASSUME NEW x \in Callers, Registered(x)
        PROVE  Settled \subseteq Settled' \/ OldCopies' # OldCopies
    <3>1. /\ reg[x] # None /\ InsertEntry(reg[x].id, reg[x].state) /\ reg'[x] = None
      BY <1>0, <2>4 DEF Registered, WorkerTypeOK
    <3>2. reg[x].id \in Ids /\ reg[x].state \in WorkState
      BY <3>1, RegistrationTypes
    <3>3. CASE reg[x].state = latest
      BY <3>1, <3>2, <3>3, UnsettledByACopy
    <3>4. CASE reg[x].state # latest
      <4>1. <<"register", x>> \in OldCopies /\ <<"register", x>> \notin OldCopies'
        BY <3>1, <3>4 DEF OldCopies
      <4> QED BY <4>1
    <3> QED BY <3>3, <3>4
  <2>5. ASSUME NEW d \in Devices, Serve(d), HandOut(wid[d].id, state[d])
        PROVE  Settled \subseteq Settled' \/ OldCopies' # OldCopies
    <3>1. wid[d].id \in Ids /\ state[d] \in WorkState /\ pc[d] = "asked"
      BY <1>0, <2>5 DEF Serve, LabelInv, WorkerTypeOK, Id
    <3>2. pc'[d] # "asked"
      BY <1>0, <2>5 DEF Serve, Again, Goto, WorkerTypeOK
    <3>3. CASE state[d] = latest
      BY <1>2, <2>5, <3>1, <3>3, UnsettledByACopy
    <3>4. CASE state[d] # latest
      <4>1. <<"device", d>> \in OldCopies /\ <<"device", d>> \notin OldCopies'
        BY <3>1, <3>2, <3>4 DEF OldCopies
      <4> QED BY <4>1
    <3> QED BY <3>3, <3>4
  <2>6. ASSUME NEW d \in Devices, PollServe(d), HandOut(pid[d].id, pstate[d])
        PROVE  Settled \subseteq Settled' \/ OldCopies' # OldCopies
    <3>1. pid[d].id \in Ids /\ pstate[d] \in WorkState /\ ppc[d] = "asked"
      BY <1>0, <2>6 DEF PollServe, LabelInv, WorkerTypeOK, Id
    <3>2. ppc'[d] # "asked"
      BY <1>0, <2>6 DEF PollServe, Rest, WorkerTypeOK
    <3>3. CASE pstate[d] = latest
      BY <1>2, <2>6, <3>1, <3>3, UnsettledByACopy
    <3>4. CASE pstate[d] # latest
      <4>1. <<"poller", d>> \in OldCopies /\ <<"poller", d>> \notin OldCopies'
        BY <3>1, <3>2, <3>4 DEF OldCopies
      <4> QED BY <4>1
    <3> QED BY <3>3, <3>4
  <2>7. Settled \subseteq Settled' \/ OldCopies' # OldCopies
    BY <1>2, <2>0, <2>2, <2>3, <2>4, <2>5, <2>6, EntriesStep
  <2> QED BY <2>1, <2>7
<1> QED BY <1>1, <1>2

\* While `latest` stays what it is, handlers of register and work with an old copy only
\* get fewer, and whenever an allocator is bound away from `latest` one of them is gone.
THEOREM OldCopiesAreUsedUp == Spec => OldCopiesRunOut
<1>1. IInv /\ [Next]_vars =>
        [UNCHANGED <<life, latest>> =>
           /\ OldCopies' \subseteq OldCopies
           /\ Settled \subseteq Settled' \/ OldCopies' # OldCopies]_vars
  BY OldCopiesStep
<1> QED BY <1>1, Invariance, PTL DEF Spec, OldCopiesRunOut
=============================================================================

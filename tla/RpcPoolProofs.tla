---------------------------- MODULE RpcPoolProofs ----------------------------
(***************************************************************************)
(* For every group of endpoints, every set of callers and every bound: an  *)
(* answer from a healthy endpoint is fresh, an unhealthy one answers only  *)
(* when the healthy ones failed, a call fails only when all did, and a     *)
(* broadcast reaches every node that stays up.  The argument: what a probe *)
(* found is a lower bound of where the node is now, and whoever of a       *)
(* caller's copy is no longer to be asked failed, is foreign or has taken  *)
(* the transaction.                                                        *)
(***************************************************************************)
EXTENDS RpcPool, WellFoundedInduction, TLAPS

USE PoolAssumption

LEMMA BlocksAreNaturals ==
  MaxBlock + MaxLag + 1 \in Nat /\ Blocks \subseteq Nat /\ 0 \in Blocks
BY DEF Blocks

\* A set of block numbers has a largest one.
LEMMA LargestBlock ==
  ASSUME NEW S, S \subseteq Blocks, S # {}
  PROVE  \E b \in S : \A k \in S : k <= b
<1> DEFINE M == MaxBlock + MaxLag + 1
           T == {M - k : k \in S}
<1>1. T \subseteq Nat /\ T # {}
  <2>1. \A k \in S : k \in Nat /\ M \in Nat /\ k <= M
    BY BlocksAreNaturals DEF Blocks
  <2>2. \A k \in S : M - k \in Nat
    <3> HIDE DEF M
    <3> QED BY <2>1
  <2> HIDE DEF M
  <2> QED BY <2>2
<1>2. PICK t \in T : \A u \in T : ~ (<<u, t>> \in OpToRel(<, Nat))
  <2>1. IsWellFoundedOn(OpToRel(<, Nat), Nat)
    BY NatLessThanWellFounded
  <2> QED BY <1>1, <2>1, WFMin
<1>3. \A u \in T : ~ (u < t)
  BY <1>1, <1>2 DEF OpToRel
<1>4. PICK b \in S : t = M - b
  OBVIOUS
<1>5. \A k \in S : k <= b
  <2> TAKE k \in S
  <2>1. ~ (M - k < M - b)
    BY <1>3, <1>4
  <2>2. M \in Nat /\ k \in Nat /\ b \in Nat
    BY BlocksAreNaturals
  <2> QED BY <2>1, <2>2
<1> QED BY <1>5

\* So the freshest block of a refresh is one, whoever answered.
LEMMA FreshestType ==
  ASSUME NEW f \in [Endpoints -> Blocks \cup {None}]
  PROVE  Freshest(f) \in Blocks
<1> DEFINE S == {f[e] : e \in Answered(f)} \cup {0}
<1>1. S \subseteq Blocks /\ S # {}
  BY BlocksAreNaturals DEF Answered
<1>2. PICK b \in S : \A k \in S : k <= b
  BY <1>1, LargestBlock
<1>3. /\ b \in Blocks
      /\ b = 0 \/ \E e \in Answered(f) : f[e] = b
      /\ \A e \in Answered(f) : f[e] <= b
  BY <1>1, <1>2
<1> QED BY <1>3 DEF Freshest

LEMMA InitEstablishes == Init => IInv
<1> SUFFICES ASSUME Init PROVE IInv
  OBVIOUS
<1>1. TypeOK
  <2>1. height \in [Endpoints -> {0, MaxBlock + MaxLag + 1}]
    BY DEF Init
  <2>2. {0, MaxBlock + MaxLag + 1} \subseteq Blocks
    BY BlocksAreNaturals DEF Blocks
  <2>3. height \in [Endpoints -> Blocks]
    BY ONLY <2>1, <2>2
  <2>4. 0 \in Blocks /\ outages \in 0..MaxOutages
    BY BlocksAreNaturals DEF Init
  <2> QED BY <2>3, <2>4 DEF Init, TypeOK
<1>2. HealthInv /\ FreshEnough /\ HealthyFirst
  BY DEF Init, HealthInv, Answered, FreshEnough, HealthyFirst
<1>3. \A c \in Callers : AskedInv(c) /\ CopyInv(c)
  BY DEF Init, AskedInv, CopyInv
<1> QED BY <1>1, <1>2, <1>3 DEF IInv

-----------------------------------------------------------------------------
\* Blocks, outages and probes leave what a caller relies on alone.
LEMMA NetworkPreserves ==
  ASSUME IInv, NEW e \in Endpoints, NewBlock(e) \/ GoDown(e) \/ Recover(e)
  PROVE  IInv'
<1> USE DEF IInv, group, callers
<1>0. /\ height' \in [Endpoints -> Blocks]
      /\ \A i \in Endpoints : height[i] <= height'[i]
  BY DEF NewBlock, GoDown, Recover, TypeOK, Blocks, Own
<1>1. TypeOK'
  BY <1>0 DEF NewBlock, GoDown, Recover, TypeOK
<1>2. HealthInv'
  <2>1. /\ UNCHANGED group /\ found \in [Endpoints -> Blocks \cup {None}] /\ freshest \in Blocks
        /\ height \in [Endpoints -> Blocks] /\ healthy \subseteq Endpoints
    BY DEF NewBlock, GoDown, Recover, TypeOK
  <2>2. \A i \in Answered(found) : i \in Endpoints /\ found[i] \in Blocks
    BY <2>1 DEF Answered
  <2>3. /\ \A i \in Endpoints : height[i] \in Nat /\ height'[i] \in Nat
        /\ freshest \in Nat /\ \A i \in Answered(found) : found[i] \in Nat
    BY <1>0, <2>1, <2>2, BlocksAreNaturals
  <2>4. \A i \in Answered(found) : found[i] <= height'[i]
    BY <1>0, <2>2, <2>3 DEF HealthInv
  <2>5. booted => \A i \in healthy : freshest - height'[i] <= MaxLag
    BY <1>0, <2>1, <2>3 DEF HealthInv
  <2> QED BY <2>1, <2>4, <2>5 DEF HealthInv, Answered, Own
<1>3. FreshEnough' /\ HealthyFirst'
  BY DEF NewBlock, GoDown, Recover, TypeOK, FreshEnough, HealthyFirst
<1>4. ASSUME NEW c \in Callers PROVE (AskedInv(c) /\ CopyInv(c))'
  <2>1. /\ AskedInv(c) /\ CopyInv(c) /\ known[c] \in Nat /\ usable[c] \subseteq Endpoints
        /\ \A i \in Endpoints : height[i] \in Nat /\ height'[i] \in Nat
    BY <1>0, BlocksAreNaturals DEF TypeOK
  <2>2. /\ UNCHANGED <<at, kind, todo, usable, known, answer, block, reached, booted>>
        /\ alive'[c] \subseteq alive[c] /\ alive'[c] \cap down' = {}
    BY <2>1 DEF NewBlock, GoDown, Recover, TypeOK, CopyInv
  <2>3. AskedInv(c)'
    BY <2>1, <2>2 DEF AskedInv
  <2>4. CopyInv(c)'
    BY <1>0, <2>1, <2>2 DEF CopyInv, Own
  <2> QED BY <2>3, <2>4
<1> QED BY <1>1, <1>2, <1>3, <1>4

LEMMA HealthLoopPreserves ==
  ASSUME IInv, HealthLoop
  PROVE  IInv'
<1> USE DEF IInv
<1>0. UNCHANGED <<network, callers>> /\ (booted => booted')
  BY DEF HealthLoop, Probe, Apply
<1>1. TypeOK' /\ HealthInv'
  <2>1. CASE Probe
    <3>1. PICK e \in probing :
            /\ found' = [found EXCEPT ![e] = IF e \in down THEN None ELSE height[e]]
            /\ probing' = probing \ {e}
      BY <2>1 DEF Probe
    <3>2. TypeOK'
      BY <2>1, <3>1 DEF Probe, TypeOK, network, callers
    <3>3. \A i \in Answered(found') : found'[i] <= height[i]
      <4> TAKE i \in Answered(found')
      <4>1. i \in Endpoints /\ height[i] \in Nat
        BY BlocksAreNaturals DEF Answered, TypeOK
      <4>2. CASE i = e
        BY <3>1, <4>1, <4>2 DEF TypeOK, Answered
      <4>3. CASE i # e
        BY <3>1, <4>1, <4>3 DEF TypeOK, HealthInv, Answered
      <4> QED BY <4>2, <4>3
    <3> QED BY <2>1, <3>2, <3>3 DEF Probe, HealthInv, Answered, network, callers
  <2>2. CASE Apply
    <3>1. Freshest(found) \in Blocks
      BY FreshestType DEF TypeOK
    <3>2. TypeOK'
      BY <2>2, <3>1 DEF Apply, TypeOK, network, callers, Fit, Answered
    <3>3. Answered(found') = {}
      BY <2>2 DEF Apply, Answered
    <3>4. \A e \in Fit(found) : e \in Own /\ Freshest(found) - height[e] <= MaxLag
      <4> TAKE e \in Fit(found)
      <4>1. /\ e \in Endpoints \ Foreign /\ e \in Answered(found)
            /\ Freshest(found) - found[e] <= MaxLag
        BY DEF Fit, Answered
      <4>2. found[e] <= height[e] /\ found[e] \in Nat /\ height[e] \in Nat
        BY <4>1, BlocksAreNaturals DEF HealthInv, TypeOK, Answered
      <4>3. Freshest(found) \in Nat /\ e \in Own
        BY <3>1, <4>1, BlocksAreNaturals DEF Own
      <4> HIDE DEF IInv
      <4> QED BY <4>1, <4>2, <4>3
    <3> QED BY <2>2, <3>2, <3>3, <3>4 DEF Apply, HealthInv, network
  <2> QED BY <2>1, <2>2 DEF HealthLoop
<1>2. FreshEnough' /\ HealthyFirst'
  BY <1>0 DEF FreshEnough, HealthyFirst, callers
<1>3. ASSUME NEW c \in Callers PROVE (AskedInv(c) /\ CopyInv(c))'
  BY <1>0 DEF AskedInv, CopyInv, callers, network
<1> QED BY <1>1, <1>2, <1>3

-----------------------------------------------------------------------------
\* What is shown of the caller that takes a step, for the others nothing changes.
LEMMA OneCaller ==
  ASSUME IInv, NEW c \in Callers, UNCHANGED <<network, group>>, TypeOK',
         \A d \in Callers \ {c} :
            /\ at'[d] = at[d] /\ kind'[d] = kind[d] /\ todo'[d] = todo[d]
            /\ usable'[d] = usable[d] /\ known'[d] = known[d] /\ alive'[d] = alive[d]
            /\ answer'[d] = answer[d] /\ block'[d] = block[d] /\ reached'[d] = reached[d],
         (AskedInv(c) /\ CopyInv(c))',
         at'[c] = "done" /\ kind'[c] = "call" /\ answer'[c] # None =>
            \/ answer'[c] \in usable'[c] /\ known'[c] - block'[c] <= MaxLag
            \/ answer'[c] \notin usable'[c] /\ usable'[c] \cap alive'[c] = {}
  PROVE  IInv'
<1> USE DEF IInv
<1>1. HealthInv'
  BY DEF HealthInv, network, group
<1>2. \A d \in Callers : (AskedInv(d) /\ CopyInv(d))'
  BY DEF AskedInv, CopyInv, network, group
<1>3. usable'[c] \subseteq Own
  BY DEF CopyInv
<1>4. FreshEnough'
  <2>1. None \notin usable'[c]
    BY <1>3 DEF Own
  <2> QED BY <1>3, <2>1 DEF FreshEnough, Own
<1>5. HealthyFirst'
  BY DEF HealthyFirst
<1> QED BY <1>1, <1>2, <1>4, <1>5

LEMMA CopyPreserves ==
  ASSUME IInv, NEW c \in Callers, (\E k \in {"call", "broadcast"} : Start(c, k)) \/ ListAll(c)
  PROVE  IInv'
<1> USE DEF IInv
<1>0. /\ UNCHANGED <<network, group, Unasked>>
      /\ booted /\ at[c] \in {"idle", "empty"}
  BY DEF Start, ListAll, CopyInv
<1>1. CASE \E S \in SUBSET Endpoints : Copy(c, S)
  <2>1. PICK S \in SUBSET Endpoints : Copy(c, S)
    BY <1>1
  <2>2. TypeOK'
    BY <1>0, <2>1 DEF Start, ListAll, Copy, TypeOK, network, group, Unasked
  <2>3. AskedInv(c)'
    BY <1>0, <2>1, <2>2 DEF Copy, AskedInv, CopyInv, TypeOK, Unasked
  <2>4. CopyInv(c)'
    BY <1>0, <2>1, <2>2 DEF Copy, CopyInv, TypeOK, HealthInv, network, group
  <2>5. \A d \in Callers \ {c} :
            /\ at'[d] = at[d] /\ kind'[d] = kind[d] /\ todo'[d] = todo[d]
            /\ usable'[d] = usable[d] /\ known'[d] = known[d] /\ alive'[d] = alive[d]
            /\ answer'[d] = answer[d] /\ block'[d] = block[d] /\ reached'[d] = reached[d]
    BY <1>0, <2>1 DEF Start, ListAll, Copy, TypeOK, Unasked
  <2>6. at'[c] = "asking"
    BY <2>1 DEF Copy, TypeOK
  <2> QED BY <1>0, <2>2, <2>3, <2>4, <2>5, <2>6, OneCaller
<1>2. CASE ~ \E S \in SUBSET Endpoints : Copy(c, S)
  <2>1. /\ UNCHANGED <<todo, usable, known, alive>>
        /\ at' = [at EXCEPT ![c] = "empty"] /\ kind' = [kind EXCEPT ![c] = "call"]
    BY <1>2 DEF Start, ListAll, TypeOK
  <2>2. TypeOK'
    BY <1>0, <2>1 DEF TypeOK, network, group, Unasked
  <2>3. (AskedInv(c) /\ CopyInv(c))'
    BY <1>0, <2>1 DEF AskedInv, CopyInv, TypeOK, network, group, Unasked
  <2>4. at'[c] = "empty"
    BY <2>1 DEF TypeOK
  <2>5. \A d \in Callers \ {c} :
            /\ at'[d] = at[d] /\ kind'[d] = kind[d] /\ todo'[d] = todo[d]
            /\ usable'[d] = usable[d] /\ known'[d] = known[d] /\ alive'[d] = alive[d]
            /\ answer'[d] = answer[d] /\ block'[d] = block[d] /\ reached'[d] = reached[d]
    BY <1>0, <2>1 DEF TypeOK, Unasked
  <2> QED BY <1>0, <2>2, <2>3, <2>4, <2>5, OneCaller
<1> QED BY <1>1, <1>2

\* An endpoint is asked: it answers, fails, takes the transaction or refuses it.
LEMMA AskPreserves ==
  ASSUME IInv, NEW c \in Callers, NEW e \in Endpoints,
         Answer(c, e) \/ Fail(c, e) \/ Take(c, e) \/ Refuse(c, e)
  PROVE  IInv'
<1> USE DEF IInv
<1>0. /\ UNCHANGED <<network, group, Copied>> /\ booted
      /\ at[c] = "asking" /\ e \in todo[c] /\ (e \in usable[c] \/ todo[c] \cap usable[c] = {})
      /\ AskedInv(c) /\ CopyInv(c)
  BY DEF Answer, Fail, Take, Refuse, Asks, IsFirst, CopyInv
<1>1. TypeOK'
  <2> USE DEF network, group, Copied, Unasked
  <2>1. CASE Answer(c, e)  BY <1>0, <2>1 DEF Answer, TypeOK
  <2>2. CASE Fail(c, e)    BY <1>0, <2>2 DEF Fail, Next1, TypeOK
  <2>3. CASE Take(c, e)    BY <1>0, <2>3 DEF Take, Next1, TypeOK
  <2>4. CASE Refuse(c, e)  BY <1>0, <2>4 DEF Refuse, Next1, TypeOK
  <2> QED BY <2>1, <2>2, <2>3, <2>4
<1>2. \A d \in Callers \ {c} :
            /\ at'[d] = at[d] /\ kind'[d] = kind[d] /\ todo'[d] = todo[d]
            /\ usable'[d] = usable[d] /\ known'[d] = known[d] /\ alive'[d] = alive[d]
            /\ answer'[d] = answer[d] /\ block'[d] = block[d] /\ reached'[d] = reached[d]
  BY <1>0 DEF Answer, Fail, Take, Refuse, Next1, TypeOK, Copied, Unasked
<1>3. CopyInv(c)'
  BY <1>0 DEF Answer, Fail, Take, Refuse, Next1, TypeOK, Copied, CopyInv, network, group
<1>4. CASE Answer(c, e)
  <2>1. /\ kind[c] = "call" /\ answer'[c] = e /\ at'[c] = "done" /\ todo' = todo
        /\ block'[c] = height[e]
    BY <1>4 DEF Answer, Asks, TypeOK
  <2>2. AskedInv(c)'
    BY <1>0, <2>1 DEF AskedInv, Copied
  <2>3. \/ e \in usable'[c] /\ known'[c] - block'[c] <= MaxLag
        \/ e \notin usable'[c] /\ usable'[c] \cap alive'[c] = {}
    <3>1. CASE e \in usable[c]
      BY <1>0, <2>1, <3>1 DEF CopyInv, Copied
    <3>2. CASE e \notin usable[c]
      <4>1. alive[c] \ todo[c] \subseteq Foreign /\ usable[c] \cap Foreign = {}
        BY <1>0, <2>1 DEF AskedInv, CopyInv, Own
      <4> QED BY <1>0, <3>2, <4>1 DEF Copied
    <3> QED BY <3>1, <3>2
  <2> QED BY <1>0, <1>1, <1>2, <1>3, <2>1, <2>2, <2>3, OneCaller
<1>5. CASE Fail(c, e)
  <2>1. /\ kind[c] = "call" /\ UNCHANGED Unasked /\ todo'[c] = todo[c] \ {e}
        /\ e \in down \cup Foreign /\ (at'[c] = "done" => todo'[c] = {})
        /\ at'[c] \in {"asking", "done"}
    BY <1>0, <1>5 DEF Fail, Asks, Next1, TypeOK
  <2>2. answer'[c] = None
    BY <1>0, <2>1 DEF AskedInv, Unasked
  <2>3. AskedInv(c)'
    BY <1>0, <2>1, <2>2 DEF AskedInv, CopyInv, Copied, Unasked
  <2> QED BY <1>0, <1>1, <1>2, <1>3, <2>2, <2>3, OneCaller
<1>6. CASE Take(c, e) \/ Refuse(c, e)
  <2>1. /\ kind[c] = "broadcast" /\ todo'[c] = todo[c] \ {e}
        /\ e \in down \cup Foreign \cup reached'[c] /\ reached[c] \subseteq reached'[c]
        /\ answer'[c] \in {answer[c]} \cup reached'[c]
        /\ at'[c] = "done" => todo'[c] = {}
    BY <1>0, <1>6 DEF Take, Refuse, Asks, Next1, TypeOK, Unasked
  <2>2. AskedInv(c)'
    BY <1>0, <2>1 DEF AskedInv, CopyInv, Copied
  <2>3. kind'[c] # "call"
    BY <1>0, <2>1 DEF Copied
  <2> QED BY <1>0, <1>1, <1>2, <1>3, <2>2, <2>3, OneCaller
<1> QED BY <1>4, <1>5, <1>6

LEMMA ReturnPreserves ==
  ASSUME IInv, NEW c \in Callers, Return(c)
  PROVE  IInv'
<1> USE DEF IInv
<1>1. TypeOK'
  BY BlocksAreNaturals DEF Return, TypeOK, network, group
<1>2. \A d \in Callers \ {c} :
            /\ at'[d] = at[d] /\ kind'[d] = kind[d] /\ todo'[d] = todo[d]
            /\ usable'[d] = usable[d] /\ known'[d] = known[d] /\ alive'[d] = alive[d]
            /\ answer'[d] = answer[d] /\ block'[d] = block[d] /\ reached'[d] = reached[d]
  BY DEF Return, TypeOK
<1>3. (AskedInv(c) /\ CopyInv(c))' /\ at'[c] = "idle" /\ UNCHANGED <<network, group>>
  BY DEF Return, TypeOK, AskedInv, CopyInv
<1> QED BY <1>1, <1>2, <1>3, OneCaller

LEMMA Inductive == Spec => []IInv
<1>1. IInv /\ [Next]_vars => IInv'
  <2> SUFFICES ASSUME IInv, [Next]_vars PROVE IInv'
    OBVIOUS
  <2>1. CASE HealthLoop
    BY <2>1, HealthLoopPreserves
  <2>2. ASSUME NEW c \in Callers, CallerStep(c) PROVE IInv'
    <3>1. CASE (\E k \in {"call", "broadcast"} : Start(c, k)) \/ ListAll(c)
      BY <3>1, CopyPreserves
    <3>2. CASE Return(c)
      BY <3>2, ReturnPreserves
    <3>3. ASSUME NEW e \in Endpoints, Answer(c, e) \/ Fail(c, e) \/ Take(c, e) \/ Refuse(c, e)
          PROVE  IInv'
      BY <3>3, AskPreserves
    <3> QED BY <2>2, <3>1, <3>2, <3>3 DEF CallerStep
  <2>3. ASSUME NEW e \in Endpoints, NewBlock(e) \/ GoDown(e) \/ Recover(e) PROVE IInv'
    BY <2>3, NetworkPreserves
  <2>4. CASE UNCHANGED vars
    BY <2>4 DEF vars, network, group, callers, IInv, TypeOK, HealthInv, FreshEnough,
                HealthyFirst, AskedInv, CopyInv, Answered
  <2> QED BY <2>1, <2>2, <2>3, <2>4 DEF Next
<1> QED BY <1>1, InitEstablishes, PTL DEF Spec

-----------------------------------------------------------------------------
\* The pool's state is well typed for any endpoints, callers and bounds; there is a
\* freshest block in every refresh, also when nobody answers.
THEOREM TypeCorrectness == Spec => []TypeOK
<1>1. IInv => TypeOK
  BY DEF IInv
<1> QED BY <1>1, Inductive, PTL

\* `call` never returns, from an endpoint it took for healthy, what is of another chain
\* or older than rpc_max_block_lag allows, measured by the last refresh it knew.
THEOREM AnswersAreFresh == Spec => []FreshEnough
<1>1. IInv => FreshEnough
  BY DEF IInv
<1> QED BY <1>1, Inductive, PTL

\* `call` returns an unhealthy endpoint's answer only after the healthy ones failed.
THEOREM FailoverInOrder == Spec => []HealthyFirst
<1>1. IInv => HealthyFirst
  BY DEF IInv
<1> QED BY <1>1, Inductive, PTL

\* `call` reports an error only when every endpoint of its copy failed.
THEOREM FailsOnlyTogether == Spec => []FailsTogether
<1>1. IInv => FailsTogether
  BY DEF IInv, AskedInv, FailsTogether
<1> QED BY <1>1, Inductive, PTL

\* broadcast_raw_tx reaches every node of the right chain that stays up meanwhile, and
\* never reports an endpoint that did not take the transaction.
THEOREM FanoutComplete == Spec => []FanoutReachesAll
<1>1. IInv => FanoutReachesAll
  BY DEF IInv, AskedInv, FanoutReachesAll
<1> QED BY <1>1, Inductive, PTL
=============================================================================

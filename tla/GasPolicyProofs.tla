--------------------------- MODULE GasPolicyProofs ---------------------------
(***************************************************************************)
(* The fee properties of GasPolicy for all configurations, base fees and   *)
(* numbers of replacements.                                                *)
(***************************************************************************)
EXTENDS GasPolicy, TLAPS

(* Fees are natural numbers, whatever is done to them. *)
LEMMA SaturateNat ==
  ASSUME NEW a \in Nat
  PROVE  Saturate(a) \in Nat /\ Saturate(a) <= a /\ (a <= MaxU => Saturate(a) = a)
BY GasAssumption DEF Saturate, Min2

LEMMA ProductNat ==
  ASSUME NEW a \in Nat, NEW b \in Nat
  PROVE  a * b \in Nat
OBVIOUS

(* Percentages: a hundred parts and q more, divided by a hundred. *)
LEMMA Hundredth ==
  ASSUME NEW a \in Nat, NEW q \in Nat
  PROVE  /\ a <= (100 * a + q) \div 100
         /\ 100 <= q => a < (100 * a + q) \div 100
OBVIOUS

LEMMA RaisedNat ==
  ASSUME NEW fee \in Nat, NEW percent \in Nat
  PROVE  Raised(fee, percent) \in Nat
<1>1. fee * (100 + percent) \in Nat
  BY ProductNat
<1>2. Saturate(fee * (100 + percent)) \in Nat
  BY <1>1, SaturateNat
<1> QED
  BY <1>2 DEF Raised

(* Short of saturation bump_eip1559 never lowers a fee, and raises it when the *)
(* percentage is worth at least one wei.                                       *)
LEMMA RaisedGrows ==
  ASSUME NEW fee \in Nat, NEW percent \in Nat,
         fee * (100 + percent) <= MaxU
  PROVE  /\ fee <= Raised(fee, percent)
         /\ 100 <= fee * percent => fee < Raised(fee, percent)
<1> DEFINE q == fee * percent
<1>1. q \in Nat
  BY ProductNat
<1>2. fee * (100 + percent) = 100 * fee + q
  OBVIOUS
<1>3. Raised(fee, percent) = (100 * fee + q) \div 100
  <2>1. 100 * fee + q \in Nat /\ 100 * fee + q <= MaxU
    BY <1>1, <1>2
  <2> QED
    BY <2>1, <1>2, SaturateNat DEF Raised
<1> HIDE DEF q
<1>4. fee <= (100 * fee + q) \div 100 /\ (100 <= q => fee < (100 * fee + q) \div 100)
  BY <1>1, Hundredth
<1> QED
  BY <1>3, <1>4 DEF q

(* What plan_gas and the late-epoch bump yield. *)
LEMMA PlanFees ==
  ASSUME NEW c \in Configs, NEW base \in Nat
  PROVE  /\ PlanMaxFee(c, base) = c.cap
         /\ LateMaxFee(c, base) \in Nat
         /\ c.lateTip <= LateMaxFee(c, base)
<1>1. c.tip \in Nat /\ c.cap \in Nat /\ c.lateTip \in Nat /\ c.lateTip <= MaxU
  BY GasAssumption DEF ConfigType
<1>2. Saturate(base + c.tip) \in Nat /\ Saturate(2 * base) \in Nat
  BY <1>1, SaturateNat
<1>3. PlanMaxFee(c, base) = c.cap
  BY <1>1, <1>2 DEF PlanMaxFee, Max2, Min2
<1> DEFINE b == Saturate(2 * base)
<1>4. b \in Nat
  BY <1>2
<1>5. LateMaxFee(c, base) = Saturate(c.lateTip + b)
  BY DEF LateMaxFee
<1> HIDE DEF b
<1>6. Saturate(c.lateTip + b) \in Nat /\ c.lateTip <= Saturate(c.lateTip + b)
  BY <1>1, <1>4, GasAssumption DEF Saturate, Min2
<1> QED
  BY <1>3, <1>5, <1>6

LEMMA PlanGas ==
  ASSUME NEW c \in Configs, NEW estimate \in Nat
  PROVE  PlanGasLimit(c, estimate) \in 0..c.gasCap
<1>1. c.gas \in Nat /\ c.gasCap \in Nat
  BY GasAssumption DEF ConfigType
<1>2. (6 * estimate + 4) \div 5 \in Nat
  OBVIOUS
<1> DEFINE e == (6 * estimate + 4) \div 5
<1> HIDE DEF e
<1> QED
  BY <1>1, <1>2 DEF PlanGasLimit, Max2, Min2, MinGas, e

(* The whole configuration is typed. *)
LEMMA ConfigTyped ==
  ASSUME cfg \in Configs
  PROVE  /\ cfg.tip \in Nat /\ cfg.cap \in Nat /\ cfg.lateTip \in Nat
         /\ cfg.bumpPercent \in Nat /\ cfg.gasCap \in Nat
BY GasAssumption DEF ConfigType

LEMMA InitInv == Init => GasInv
<1> SUFFICES ASSUME Init PROVE GasInv
  OBVIOUS
<1> USE DEF Init
<1>1. 0 \in 0..MaxBumps
  BY GasAssumption
<1>2. 0 \in 0..cfg.gasCap
  BY ConfigTyped
<1> QED
  BY <1>1, <1>2 DEF GasInv, PlansFirst, TypeOK, TipWithinMaxFee, MaxFeeBounded

LEMMA PlanInv ==
  ASSUME GasInv, Plan
  PROVE  GasInv'
<1>1. PICK base \in BaseFees \cup {0}, estimate \in Estimates \cup {MinGas}, left \in Countdown :
        LET bump == cfg.lateTip > 0 /\ left <= cfg.lateBlocks /\ cfg.lateTip > cfg.tip
            planned == PlanMaxFee(cfg, base)
        IN /\ gasLimit' = PlanGasLimit(cfg, estimate)
           /\ late' = bump
           /\ tip' = IF bump THEN cfg.lateTip ELSE cfg.tip
           /\ maxFee' = IF bump THEN Max2(LateMaxFee(cfg, base), planned) ELSE planned
  BY DEF Plan
<1>2. base \in Nat /\ estimate \in Nat
  BY GasAssumption DEF MinGas
<1>3. cfg \in Configs /\ cfg' = cfg /\ phase' = "live" /\ bumps' = bumps
  BY DEF Plan, GasInv, TypeOK
<1>4. PlanGasLimit(cfg, estimate) \in 0..cfg.gasCap
  BY <1>2, <1>3, PlanGas
<1>5. /\ PlanMaxFee(cfg, base) = cfg.cap
      /\ LateMaxFee(cfg, base) \in Nat
      /\ cfg.lateTip <= LateMaxFee(cfg, base)
  BY <1>2, <1>3, PlanFees
<1>6. /\ cfg.tip \in Nat /\ cfg.cap \in Nat /\ cfg.lateTip \in Nat
  BY <1>3, ConfigTyped
<1> DEFINE bump == cfg.lateTip > 0 /\ left <= cfg.lateBlocks /\ cfg.lateTip > cfg.tip
<1>7. /\ late' \in BOOLEAN /\ tip' \in Nat /\ maxFee' \in Nat
      /\ tip' <= maxFee' \/ (cfg.cap < cfg.tip /\ ~late')
  <2>1. CASE bump
    <3>1. tip' = cfg.lateTip /\ maxFee' = Max2(LateMaxFee(cfg, base), cfg.cap)
      BY <1>1, <1>5, <2>1
    <3> QED
      BY <1>1, <1>5, <1>6, <3>1 DEF Max2
  <2>2. CASE ~bump
    <3>1. tip' = cfg.tip /\ maxFee' = cfg.cap /\ ~late'
      BY <1>1, <1>5, <2>2
    <3>2. late' \in BOOLEAN
      BY <1>1
    <3> QED
      BY <1>1, <1>6, <2>2, <3>1, <3>2
  <2> QED
    BY <2>1, <2>2
<1>8. late' \/ maxFee' = cfg.cap
  BY <1>1, <1>5
<1>9. TypeOK'
  BY <1>1, <1>3, <1>4, <1>7 DEF GasInv, TypeOK
<1>10. bumps = 0
  BY DEF Plan, GasInv, PlansFirst
<1>11. TipWithinMaxFee'
  BY <1>3, <1>7, <1>10 DEF TipWithinMaxFee
<1>12. MaxFeeBounded'
  BY <1>3, <1>6, <1>7, <1>8, <1>10 DEF MaxFeeBounded, Max2
<1> QED
  BY <1>9, <1>11, <1>10, <1>12, <1>3 DEF GasInv, PlansFirst

LEMMA BumpInv ==
  ASSUME GasInv, Bump
  PROVE  GasInv'
<1>1. /\ cfg \in Configs /\ tip \in Nat /\ maxFee \in Nat /\ bumps \in 0..MaxBumps
      /\ late \in BOOLEAN
  BY DEF GasInv, TypeOK
<1>2. cfg.bumpPercent \in Nat /\ cfg.cap \in Nat
  BY <1>1, ConfigTyped
<1>3. BumpedTip \in Nat /\ Raised(maxFee, cfg.bumpPercent) \in Nat
  BY <1>1, <1>2, RaisedNat DEF BumpedTip
<1>4. /\ BumpedMaxFee \in Nat /\ BumpedTip <= BumpedMaxFee
      /\ BumpedMaxFee <= Max2(cfg.cap, BumpedTip)
  BY <1>2, <1>3 DEF BumpedMaxFee, Max2, Min2
<1>5. /\ tip' = BumpedTip /\ maxFee' = BumpedMaxFee /\ bumps' = bumps + 1
      /\ cfg' = cfg /\ phase' = "live" /\ gasLimit' = gasLimit /\ late' = late
      /\ bumps < MaxBumps
  BY DEF Bump
<1>6. bumps' \in 0..MaxBumps
  BY <1>1, <1>5, GasAssumption
<1>7. TypeOK'
  BY <1>1, <1>3, <1>4, <1>5, <1>6 DEF GasInv, TypeOK
<1>8. TipWithinMaxFee'
  BY <1>4, <1>5 DEF TipWithinMaxFee
<1>9. MaxFeeBounded'
  BY <1>4, <1>5 DEF MaxFeeBounded
<1> QED
  BY <1>5, <1>7, <1>8, <1>9 DEF GasInv, PlansFirst

THEOREM Invariance == Spec => []GasInv
<1>1. Init => GasInv
  BY InitInv
<1>2. GasInv /\ [Next]_gasVars => GasInv'
  <2> SUFFICES ASSUME GasInv, [Next]_gasVars PROVE GasInv'
    OBVIOUS
  <2>1. CASE Plan
    BY <2>1, PlanInv
  <2>2. CASE Bump
    BY <2>2, BumpInv
  <2>3. CASE UNCHANGED gasVars
    BY <2>3 DEF GasInv, TypeOK, PlansFirst, TipWithinMaxFee, MaxFeeBounded, gasVars
  <2> QED
    BY <2>1, <2>2, <2>3 DEF Next
<1> QED
  BY <1>1, <1>2, PTL DEF Spec

(* Fees are natural numbers and the gas limit is within its cap, whatever is      *)
(* planned, bumped or saturated.                                                  *)
THEOREM TypeCorrectness == Spec => []TypeOK
BY Invariance, PTL DEF GasInv

(* For any configuration, sensible or not, and any number of replacements: only the *)
(* plan of a configuration with its tip above its cap is ever malformed, and no     *)
(* late-epoch bump and no replacement.                                              *)
THEOREM TipPayable == Spec => []TipWithinMaxFee
BY Invariance, PTL DEF GasInv

(* MAX_FEE_GWEI_CAP bounds the max fee but for the tip and an unreplaced late    *)
(* bump.                                                                         *)
THEOREM FeesAreCapped == Spec => []MaxFeeBounded
BY Invariance, PTL DEF GasInv

(* A bump worth a wei always raises the tip. *)
THEOREM BumpsMakeProgress == Spec => []BumpRaisesTip
<1>1. GasInv => BumpRaisesTip
  <2> SUFFICES ASSUME GasInv, 100 <= tip * cfg.bumpPercent,
                      tip * (100 + cfg.bumpPercent) <= MaxU
               PROVE  tip < BumpedTip
    BY DEF BumpRaisesTip
  <2>1. tip \in Nat /\ cfg.bumpPercent \in Nat
    BY ConfigTyped DEF GasInv, TypeOK
  <2> QED
    BY <2>1, RaisedGrows DEF BumpedTip
<1> QED
  BY <1>1, Invariance, PTL

(* A replacement never lowers the tip, and the max fee only back to the cap. *)
THEOREM BumpsAreMonotone == Spec => BumpNeverLowers
<1>1. GasInv /\ [Next]_gasVars =>
        [bumps' > bumps =>
           \/ Max2(tip, maxFee) * (100 + cfg.bumpPercent) > MaxU
           \/ tip <= tip' /\ (maxFee <= maxFee' \/ cfg.cap < maxFee)]_gasVars
  <2> SUFFICES ASSUME GasInv, Next, bumps' > bumps,
                      ~(Max2(tip, maxFee) * (100 + cfg.bumpPercent) > MaxU)
               PROVE  tip <= tip' /\ (maxFee <= maxFee' \/ cfg.cap < maxFee)
    OBVIOUS
  <2>1. cfg \in Configs /\ tip \in Nat /\ maxFee \in Nat /\ bumps \in Nat
    BY DEF GasInv, TypeOK
  <2>2. cfg.bumpPercent \in Nat /\ cfg.cap \in Nat
    BY <2>1, ConfigTyped
  <2>3. Bump
    BY <2>1 DEF Next, Plan
  <2>4. phase = "live" /\ tip' = BumpedTip /\ maxFee' = BumpedMaxFee
    BY <2>3 DEF Bump
  <2> DEFINE m == 100 + cfg.bumpPercent
             most == Max2(tip, maxFee)
  <2>5. most \in Nat /\ tip <= most /\ maxFee <= most
    BY <2>1 DEF Max2
  <2>6. maxFee * m <= MaxU /\ tip * m <= MaxU
    <3>1. maxFee * m \in Nat /\ tip * m \in Nat /\ most * m \in Nat /\ m \in Nat
      BY <2>1, <2>2, <2>5, ProductNat
    <3>2. most * m <= MaxU
      BY <3>1, GasAssumption
    <3> HIDE DEF most, m
    <3>3. tip * m <= most * m /\ maxFee * m <= most * m
      BY <2>1, <2>5, <3>1
    <3> QED
      BY <3>1, <3>2, <3>3, GasAssumption
  <2>7. tip <= BumpedTip /\ maxFee <= Raised(maxFee, cfg.bumpPercent)
    BY <2>1, <2>2, <2>6, RaisedGrows DEF BumpedTip
  <2>8. BumpedTip \in Nat /\ Raised(maxFee, cfg.bumpPercent) \in Nat
    BY <2>1, <2>2, RaisedNat DEF BumpedTip
  <2>9. maxFee <= BumpedMaxFee \/ cfg.cap < maxFee
    BY <2>1, <2>2, <2>7, <2>8 DEF BumpedMaxFee, Max2, Min2
  <2> QED
    BY <2>4, <2>7, <2>9
<1> QED
  BY <1>1, Invariance, PTL DEF Spec, BumpNeverLowers

-----------------------------------------------------------------------------
(* The max fee of the whole life of a transaction.                           *)

LEMMA SaturateMonotone ==
  ASSUME NEW a \in Nat, NEW b \in Nat, a <= b
  PROVE  Saturate(a) <= Saturate(b)
BY GasAssumption DEF Saturate, Min2

(* Raising by a percentage keeps the order of fees, also where it saturates. *)
LEMMA RaisedMonotone ==
  ASSUME NEW a \in Nat, NEW b \in Nat, NEW percent \in Nat, a <= b
  PROVE  Raised(a, percent) <= Raised(b, percent)
<1> DEFINE p == a * (100 + percent)
           q == b * (100 + percent)
<1>1. p \in Nat /\ q \in Nat /\ p <= q
  <2>1. 100 + percent \in Nat
    OBVIOUS
  <2> QED
    BY <2>1, ProductNat
<1>2. Raised(a, percent) = Saturate(p) \div 100 /\ Raised(b, percent) = Saturate(q) \div 100
  BY DEF Raised
<1> HIDE DEF p, q
<1>3. Saturate(p) \in Nat /\ Saturate(q) \in Nat /\ Saturate(p) <= Saturate(q)
  BY <1>1, SaturateNat, SaturateMonotone
<1>4. Saturate(p) \div 100 <= Saturate(q) \div 100
  BY <1>3
<1> QED
  BY <1>2, <1>4

(* Bumping a max fee at or above the cap leaves the cap or the tip. *)
LEMMA BumpedFromCap ==
  ASSUME TypeOK, CapFits, cfg.cap <= maxFee
  PROVE  BumpedMaxFee = Max2(cfg.cap, BumpedTip)
<1>1. /\ cfg.cap \in Nat /\ cfg.bumpPercent \in Nat /\ maxFee \in Nat /\ tip \in Nat
  BY ConfigTyped DEF TypeOK
<1>2. cfg.cap <= Raised(cfg.cap, cfg.bumpPercent)
  BY <1>1, RaisedGrows DEF CapFits
<1>3. Raised(cfg.cap, cfg.bumpPercent) <= Raised(maxFee, cfg.bumpPercent)
  BY <1>1, RaisedMonotone
<1>4. /\ Raised(cfg.cap, cfg.bumpPercent) \in Nat
      /\ Raised(maxFee, cfg.bumpPercent) \in Nat
  BY <1>1, RaisedNat
<1>5. Min2(Raised(maxFee, cfg.bumpPercent), cfg.cap) = cfg.cap
  BY <1>1, <1>2, <1>3, <1>4 DEF Min2
<1> QED
  BY <1>5 DEF BumpedMaxFee

LEMMA PinnedStep == GasInv /\ MaxFeePinned /\ [Next]_gasVars => MaxFeePinned'
<1> SUFFICES ASSUME GasInv, MaxFeePinned, [Next]_gasVars, CapFits', phase' = "live"
             PROVE  /\ cfg'.cap <= maxFee'
                    /\ bumps' = 0 /\ ~late' => maxFee' = cfg'.cap
                    /\ 0 < bumps' => maxFee' = Max2(cfg'.cap, tip')
  BY DEF MaxFeePinned
<1>1. CASE Plan
  <2>1. PICK base \in BaseFees \cup {0}, bump \in BOOLEAN :
           /\ late' = bump
           /\ tip' = IF bump THEN cfg.lateTip ELSE cfg.tip
           /\ maxFee' = IF bump THEN Max2(LateMaxFee(cfg, base), PlanMaxFee(cfg, base))
                                ELSE PlanMaxFee(cfg, base)
    BY <1>1 DEF Plan
  <2>2. base \in Nat /\ cfg \in Configs /\ cfg' = cfg /\ bumps' = 0
    BY <1>1, GasAssumption DEF Plan, GasInv, TypeOK, PlansFirst
  <2>3. PlanMaxFee(cfg, base) = cfg.cap /\ LateMaxFee(cfg, base) \in Nat
    BY <2>2, PlanFees
  <2>4. cfg.cap \in Nat
    BY <2>2, ConfigTyped
  <2>5. CASE bump = TRUE
    BY <2>1, <2>2, <2>3, <2>4, <2>5 DEF Max2
  <2>6. CASE bump = FALSE
    BY <2>1, <2>2, <2>3, <2>4, <2>6 DEF Max2
  <2> QED
    BY <2>5, <2>6
<1>2. CASE Bump
  <2>1. cfg' = cfg /\ tip' = BumpedTip /\ maxFee' = BumpedMaxFee /\ phase = "live"
    BY <1>2 DEF Bump
  <2>2. CapFits /\ cfg.cap <= maxFee
    BY <2>1 DEF CapFits, MaxFeePinned
  <2>3. maxFee' = Max2(cfg.cap, tip')
    BY <2>1, <2>2, BumpedFromCap DEF GasInv
  <2>4. cfg.cap \in Nat /\ tip' \in Nat
    BY <2>1, ConfigTyped, RaisedNat DEF GasInv, TypeOK, BumpedTip
  <2>5. 0 < bumps'
    BY <1>2, GasAssumption DEF Bump, GasInv, TypeOK
  <2> QED
    BY <2>1, <2>3, <2>4, <2>5 DEF Max2
<1>3. CASE UNCHANGED gasVars
  BY <1>3 DEF gasVars, MaxFeePinned, CapFits
<1> QED
  BY <1>1, <1>2, <1>3 DEF Next

(* Whatever the base fee, the estimate and the percentage: a plan's max fee is the  *)
(* cap; after a replacement it is the cap, or the tip where that has outgrown it.   *)
THEOREM MaxFeeAtCap == Spec => []MaxFeePinned
<1>1. Init => MaxFeePinned
  BY DEF Init, MaxFeePinned
<1> QED
  BY <1>1, PinnedStep, Invariance, PTL DEF Spec

(* The advice to raise FEE_BUMP_PERCENT against "replacement transaction             *)
(* underpriced" helps only where the bumped tip exceeds the cap: a replacement that  *)
(* raises the max fee, late-epoch bumps and tips above the cap included, sets it to  *)
(* such a tip.                                                                       *)
THEOREM MaxFeeRaisedByTip == Spec => RaisedByTipOnly
<1>1. GasInv /\ MaxFeePinned /\ [Next]_gasVars =>
        [bumps' > bumps /\ CapFits /\ maxFee < maxFee'
           => cfg.cap < tip' /\ maxFee' = tip']_gasVars
  <2> SUFFICES ASSUME GasInv, MaxFeePinned, Next, bumps' > bumps, CapFits, maxFee < maxFee'
               PROVE  cfg.cap < tip' /\ maxFee' = tip'
    OBVIOUS
  <2>1. Bump
    BY DEF Next, Plan, GasInv, TypeOK
  <2>2. phase = "live" /\ tip' = BumpedTip /\ maxFee' = BumpedMaxFee
    BY <2>1 DEF Bump
  <2>3. cfg.cap <= maxFee
    BY <2>2 DEF MaxFeePinned
  <2>4. maxFee' = Max2(cfg.cap, tip')
    BY <2>2, <2>3, BumpedFromCap DEF GasInv
  <2>5. cfg.cap \in Nat /\ maxFee \in Nat /\ tip' \in Nat
    BY <2>2, ConfigTyped, RaisedNat DEF GasInv, TypeOK, BumpedTip
  <2> QED
    BY <2>3, <2>4, <2>5 DEF Max2
<1> QED
  BY <1>1, MaxFeeAtCap, Invariance, PTL DEF Spec, RaisedByTipOnly
=============================================================================

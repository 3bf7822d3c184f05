------------------------------ MODULE GasPolicy ------------------------------
(***************************************************************************)
(* The fees of one transaction over its life: plan_gas (gas.rs), the       *)
(* late-epoch bump of do_submit (submitter.rs) and the repeated            *)
(* bump_eip1559 of the replacement loop.  Fees are natural numbers of wei, *)
(* kept in u128: multiplication saturates.                                 *)
(***************************************************************************)
EXTENDS Integers

CONSTANTS
  Configs,    \* the AppConfigs considered: records as in ConfigType
  BaseFees,   \* base fees the chain may have; fee_history may fail (0 is used)
  Estimates,  \* gas estimates; estimate_gas may fail (200 000 is used)
  Countdown,  \* epoch_blocks_left values of the WorkState
  MaxU,       \* u128::MAX
  MaxBumps    \* bound: replacements of the transaction

\* Floats in gwei are rounded to wei once, by gwei_to_wei.  gas is the configured
\* GAS_LIMIT_OVERRIDE, 0 without one.
ConfigType ==
  [tip : Nat, cap : Nat, bumpPercent : Nat, lateTip : Nat, lateBlocks : Nat,
   gas : Nat, gasCap : Nat]

MinGas == 200000

\* Without an override plan_gas panics on a gas cap below its lower clamp, and there
\* is no transaction.  Nothing relates PRIORITY_GWEI to MAX_FEE_GWEI_CAP.
ASSUME GasAssumption ==
  /\ Configs \subseteq ConfigType
  /\ \A c \in Configs : c.gas > 0 \/ MinGas <= c.gasCap
  /\ \A c \in Configs : c.tip <= MaxU /\ c.lateTip <= MaxU /\ c.cap <= MaxU
  /\ BaseFees \subseteq Nat /\ Estimates \subseteq Nat /\ Countdown \subseteq Nat
  /\ MaxU \in Nat /\ MaxBumps \in Nat

VARIABLES
  cfg,      \* the configuration, fixed at start
  phase,    \* "planning", "live" (signed and broadcast)
  tip,      \* GasPlan.max_priority_fee_per_gas
  maxFee,   \* GasPlan.max_fee_per_gas
  gasLimit, \* GasPlan.gas_limit
  late,     \* whether the late-epoch bump was applied
  bumps     \* replacements so far

gasVars == <<cfg, phase, tip, maxFee, gasLimit, late, bumps>>

Max2(a, b) == IF a >= b THEN a ELSE b
Min2(a, b) == IF a <= b THEN a ELSE b
Saturate(a) == Min2(a, MaxU)

TypeOK ==
  /\ cfg \in Configs
  /\ phase \in {"planning", "live"}
  /\ tip \in Nat /\ maxFee \in Nat
  /\ gasLimit \in 0..cfg.gasCap
  /\ late \in BOOLEAN
  /\ bumps \in 0..MaxBumps

Init ==
  /\ cfg \in Configs
  /\ phase = "planning"
  /\ tip = 0 /\ maxFee = 0 /\ gasLimit = 0
  /\ late = FALSE /\ bumps = 0

(* Mutant: only the estimate is capped. *)
PlanGasLimitUncapped(c, estimate) ==
  IF c.gas > 0 THEN c.gas ELSE Max2(MinGas, Min2((6 * estimate + 4) \div 5, c.gasCap))

\* The override, or ceil(1.2 * estimate) but at least 200 000; the cap holds for both.
PlanGasLimit(c, estimate) ==
  Min2(IF c.gas > 0 THEN c.gas ELSE Max2(MinGas, (6 * estimate + 4) \div 5), c.gasCap)

\* cap.max(base + tip).min(cap)
PlanMaxFee(c, base) == Min2(Max2(c.cap, Saturate(base + c.tip)), c.cap)

LateMaxFee(c, base) == Saturate(c.lateTip + Saturate(2 * base))

\* plan_gas, then the late-epoch bump, then sign and broadcast.
Plan ==
  /\ phase = "planning"
  /\ \E base \in BaseFees \cup {0}, estimate \in Estimates \cup {MinGas}, left \in Countdown :
        LET bump == cfg.lateTip > 0 /\ left <= cfg.lateBlocks /\ cfg.lateTip > cfg.tip
            planned == PlanMaxFee(cfg, base)
        IN /\ gasLimit' = PlanGasLimit(cfg, estimate)
           /\ late' = bump
           /\ tip' = IF bump THEN cfg.lateTip ELSE cfg.tip
           /\ maxFee' = IF bump THEN Max2(LateMaxFee(cfg, base), planned) ELSE planned
  /\ phase' = "live"
  /\ UNCHANGED <<cfg, bumps>>

(* Mutants: the percentage instead of a raise by it; rounding before multiplying. *)
RaisedToPercent(fee, percent) == Saturate(fee * percent) \div 100
RaisedRounded(fee, percent) == fee + (fee \div 100) * percent

\* bump_eip1559 on one fee.
Raised(fee, percent) == Saturate(fee * (100 + percent)) \div 100

BumpedTip == Raised(tip, cfg.bumpPercent)
(* Mutants: the tip is not looked at; the cap is not looked at. *)
BumpedMaxFeeTipless == Min2(Raised(maxFee, cfg.bumpPercent), cfg.cap)
BumpedMaxFeeUncapped == Max2(Raised(maxFee, cfg.bumpPercent), BumpedTip)

BumpedMaxFee == Max2(Min2(Raised(maxFee, cfg.bumpPercent), cfg.cap), BumpedTip)

\* One round of the replacement loop for this row; a bump that changes nothing is
\* skipped.  Whether the node takes it is not this module's concern.
Bump ==
  /\ phase = "live" /\ bumps < MaxBumps
  /\ BumpedTip # tip \/ BumpedMaxFee # maxFee
  /\ tip' = BumpedTip
  /\ maxFee' = BumpedMaxFee
  /\ bumps' = bumps + 1
  /\ UNCHANGED <<cfg, phase, gasLimit, late>>

Next == Plan \/ Bump

Spec == Init /\ [][Next]_gasVars

-----------------------------------------------------------------------------
\* A transaction whose tip exceeds its max fee, which nodes refuse as malformed, is the
\* plan of a configuration whose tip exceeds its cap.  A late-epoch bump never makes
\* one, and the first replacement repairs it for good, cap and rounding regardless.
TipWithinMaxFee ==
  phase = "live" => tip <= maxFee \/ (cfg.cap < cfg.tip /\ ~late /\ bumps = 0)

\* MAX_FEE_GWEI_CAP is exceeded only by a late-epoch bump not yet replaced, or by
\* what the tip itself needs.
MaxFeeBounded ==
  phase = "live" => maxFee <= Max2(cfg.cap, tip) \/ (late /\ bumps = 0)

\* A replacement never bids less: short of saturation the tip does not fall, and
\* the max fee falls only back to the cap a late-epoch bump had exceeded.
BumpNeverLowers ==
  [][bumps' > bumps =>
       \/ Max2(tip, maxFee) * (100 + cfg.bumpPercent) > MaxU
       \/ /\ tip <= tip'
          /\ maxFee <= maxFee' \/ cfg.cap < maxFee
       ]_gasVars

\* Unless the tip is so small that the percentage rounds away, a replacement bids
\* a higher tip: the loop does not get stuck on a bump that changes nothing.
BumpRaisesTip ==
  phase = "live" /\ 100 <= tip * cfg.bumpPercent /\ tip * (100 + cfg.bumpPercent) <= MaxU
     => tip < BumpedTip

\* The invariant behind the theorems of GasPolicyProofs.
PlansFirst == phase = "planning" => bumps = 0
GasInv == TypeOK /\ PlansFirst /\ TipWithinMaxFee /\ MaxFeeBounded

\* Unless raising the cap itself overflows a u128: a plan's max fee is the cap, whatever
\* base fee and tip are; after any number of replacements it is the cap, or the tip
\* where that has outgrown the cap.  Nothing else that gas.rs computes gets through.
CapFits == cfg.cap * (100 + cfg.bumpPercent) <= MaxU

MaxFeePinned ==
  phase = "live" /\ CapFits =>
    /\ cfg.cap <= maxFee
    /\ bumps = 0 /\ ~late => maxFee = cfg.cap
    /\ 0 < bumps => maxFee = Max2(cfg.cap, tip)

\* FEE_BUMP_PERCENT raises the max fee in one way only: by raising the tip above the
\* cap, and then just to the tip.
RaisedByTipOnly ==
  [][bumps' > bumps /\ CapFits /\ maxFee < maxFee' => cfg.cap < tip' /\ maxFee' = tip']_gasVars

\* What nodes ask of a replacement: both fees at least ten percent up.
ReplacementAcceptable ==
  [][bumps' > bumps => 11 * maxFee <= 10 * maxFee' /\ 11 * tip <= 10 * tip']_gasVars
=============================================================================

----------------------------- MODULE MCGasPolicy -----------------------------
(* Small fees around the places where rounding, the cap and the late-epoch tip *)
(* decide, tips above the cap among them, and a u128 small enough to saturate. *)
EXTENDS GasPolicy

MCConfigs ==
  [tip : {0, 3, 7, 100, 450}, cap : {400, 1000}, bumpPercent : {0, 10, 15, 20},
   lateTip : {0, 300, 1200}, lateBlocks : {5},
   gas : {0, 250000}, gasCap : {200000, 300000}]
\* FEE_BUMP_PERCENT=20, as the README advises against underpriced replacements.
MCReadmeConfigs == {c \in MCConfigs : c.bumpPercent = 20 /\ c.tip = 100}
MCBaseFees == {100, 700}
MCEstimates == {150000, 170001, 260000}
MCCountdown == {5, 6}
MCMaxU == 200000
MCMaxBumps == 12
=============================================================================

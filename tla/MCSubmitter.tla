----------------------------- MODULE MCSubmitter -----------------------------
(* Two solutions found in the first of two epochs, two nonces, one fee bump. *)
EXTENDS Submitter, TLC

CONSTANTS a, b

MCSols == {a, b}
MCEpochOf == [s \in MCSols |-> 0]
MCFaults == FaultKinds \ {"cancel"}
MCNoFaults == {}
MCHangUps == {"cancel"}

\* Bound: the one failed write and the one restart are not looked at together.
OneMisfortune == dbErrors + restarts <= 1

\* Both solutions are for the same epoch and are only compared for equality.
MCSymmetry == Permutations(MCSols)
=============================================================================

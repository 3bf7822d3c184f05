------------------------------ MODULE MCCluster ------------------------------
EXTENDS Cluster, TLC

CONSTANTS d1, d2, w1, w2

MCDevices == {d1, d2}
MCOneDevice == {d1}
MCWorkers == {w1, w2}
MCOneWorker == {w1}
MCNothing == {}
MCFirst == {0}
MCSymmetry == Permutations(MCDevices) \cup Permutations(MCWorkers)
\* Either one worker has all devices, registers once and sees the state go back, or there
\* are several, which see it change once.
MCBound == IF \E w \in Workers : \A d \in Devices : owner[d] = w THEN seq <= 1 ELSE changes <= 1
=============================================================================

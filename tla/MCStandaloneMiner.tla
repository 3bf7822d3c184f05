-------------------------- MODULE MCStandaloneMiner --------------------------
(* One device, which shares everything with the watcher and the consumer, and *)
(* nothing but the queue with other devices.                                  *)
EXTENDS StandaloneMiner

CONSTANT d1

MCDevices == {d1}
MCSizes == {1, 2}
MCWinning == {2}
=============================================================================

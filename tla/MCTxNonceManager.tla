--------------------------- MODULE MCTxNonceManager ---------------------------
(* Two concurrent callers of allocate, three nonces, three starts. *)
EXTENDS TxNonceManager

CONSTANTS h1, h2, s1, s2

MCHandlers == {h1, h2}
MCSolutions == {s1, s2}
MCMaxNonce == 3
MCMaxBoots == 3

=============================================================================

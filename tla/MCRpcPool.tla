------------------------------ MODULE MCRpcPool ------------------------------
(* Two nodes of the right chain and one of another, one caller. *)
EXTENDS RpcPool

CONSTANTS a, b, x, c

MCEndpoints == {a, b, x}
MCForeign == {x}
MCCallers == {c}
=============================================================================

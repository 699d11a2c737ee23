---------------------------- MODULE MCRpcServer -----------------------------
(***************************************************************************)
(* Instances of RpcServer for TLC.                                         *)
(***************************************************************************)
EXTENDS RpcServer, TLC

CONSTANTS q1, q2, q3, q4

MCCalls == {q1, q2, q3, q4}

\* Every kind of request whose slots are accounted for.
MCKinds == {"stray", "rejected", "odd", "call"}

MCForbidden == {"forbidden", "call"}
=============================================================================

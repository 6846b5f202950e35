---------------------------- MODULE MCRpcClient ----------------------------
(* RpcClient for TLC: callers are interchangeable. *)
EXTENDS RpcClient, TLC

AnyOrder == Permutations(Callers)
=============================================================================

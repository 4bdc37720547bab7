----------------------------- MODULE MCRpcCall ------------------------------
(* TLC instances of RpcCall. *)
EXTENDS RpcCall, TLC

CallSymmetry == Permutations(Calls)

=============================================================================

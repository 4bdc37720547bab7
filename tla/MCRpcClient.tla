---------------------------- MODULE MCRpcClient -----------------------------
(* TLC instances of RpcClient. *)
EXTENDS RpcClient

=============================================================================

----------------------------- MODULE MCRpcCall -----------------------------
(* Instances of RpcCall for TLC: two calls, one after the other or at once. *)
EXTENDS RpcCall
=============================================================================

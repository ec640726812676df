-------------------------- MODULE MCRpcConnection --------------------------
(* A streaming query, a refresh, one request that does not decode, one too large. *)
EXTENDS RpcConnection

CONSTANTS query, refresh, bad, huge
=============================================================================

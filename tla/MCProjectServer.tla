-------------------------- MODULE MCProjectServer --------------------------
(* Constants for model-checking ProjectServer: a file that both roots name,  *)
(* and a root whose file changes.                                            *)
EXTENDS ProjectServer, TLC

CONSTANTS r1, r2, d1, d2

SharedDb == (r1 :> {d1, d2}) @@ (r2 :> {d2})
=============================================================================

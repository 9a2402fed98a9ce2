------------------------------ MODULE MCShutdown ----------------------------
(* Shutdown for TLC. *)
EXTENDS Shutdown, TLC

Handlers == Permutations(Req)
=============================================================================

-------------------------------- MODULE MCJwks -------------------------------
(* Jwks for TLC: every request reaches the one server. *)
EXTENDS Jwks, TLC

CONSTANTS a

OneServer == [r \in Call |-> a]

Symmetry == Permutations(Call)
=============================================================================

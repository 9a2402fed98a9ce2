----------------------------- MODULE MCTagWrites ----------------------------
(* TagWrites for TLC: a network n1 with its subnets. *)
EXTENDS TagWrites, TLC

CONSTANT n1

OneFamily == [x \in Uuid |-> IF x = n1 THEN Nil ELSE n1]

Symmetric == Permutations(Req) \cup Permutations(Desc) \cup Permutations(Tag)
=============================================================================

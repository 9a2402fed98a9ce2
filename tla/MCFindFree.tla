----------------------------- MODULE MCFindFree -----------------------------
(* FindFree for TLC: every prefix of a W-bit address space as the parent.  *)
EXTENDS FindFree

AllParents == Prefix

\* A parent that ends at the highest address, for the search that wraps.
TopParents == {p \in Prefix : p.len = 2 /\ lastAddr(p) = 2^W - 1}
=============================================================================

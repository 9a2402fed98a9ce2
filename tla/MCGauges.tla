------------------------------- MODULE MCGauges -----------------------------
(* Gauges for TLC: replicas with the loop, one server without it. *)
EXTENDS Gauges

CONSTANTS a, b

BothModes == {[servers |-> {a, b}, loop |-> TRUE, maxOps |-> 2],
              [servers |-> {a}, loop |-> FALSE, maxOps |-> 7]}
=============================================================================

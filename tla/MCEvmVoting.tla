----------------------------- MODULE MCEvmVoting -----------------------------
(* Instances of EvmVoting. *)
EXTENDS EvmVoting
CONSTANTS d1, d2, d3, m1
MCTime == [c \in Direct |-> IF c = d1 THEN 1 ELSE 2]
==============================================================================

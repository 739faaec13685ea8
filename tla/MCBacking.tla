------------------------------ MODULE MCBacking ------------------------------
(* Instances of Backing: digits are binary. *)
EXTENDS Backing, Sequences
CONSTANTS f1, f2, t1, t2, s1, h1, h2, g, x1, x2, x3, y1, y2, y3, u1, u2
MCEvent ==
  [c \in Outward |->
    CASE c = x1 -> [tx |-> 1, token |-> t1, amount |-> 13, to |-> u1]
      [] c = x2 -> [tx |-> 1, token |-> t1, amount |-> 5, to |-> u2]
      [] c = x3 -> [tx |-> 2, token |-> s1, amount |-> 65541, to |-> u2]]
MCIndex == [c \in Outward |-> IF c = x2 THEN 1 ELSE 0]
MCUid == [c \in Inward |-> IF c = y3 THEN g ELSE h1]
MCOutputs ==
  [c \in Inward |->
    CASE c = y1 -> <<[value |-> 1, locked |-> FALSE], [value |-> 1, locked |-> FALSE]>>
      [] c = y2 -> <<[value |-> 1, locked |-> FALSE]>>
      [] c = y3 -> <<[value |-> 1, locked |-> FALSE], [value |-> 1, locked |-> TRUE]>>]
MCDecimals == [t \in Native |-> 4]
MCFirstMap == {[chain |-> Evm, token |-> t1, uid |-> h1], [chain |-> Hathor, token |-> s1, uid |-> g]}
MCRemaps == {[chain |-> Evm, token |-> t1, uid |-> h2], [chain |-> Evm, token |-> t2, uid |-> h1]}
MCCirculating == [u \in Uids |-> IF u = g THEN 2 ELSE 0]
==============================================================================

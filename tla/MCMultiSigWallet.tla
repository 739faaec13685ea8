-------------------------- MODULE MCMultiSigWallet --------------------------
(* Small instances of MultiSigWallet: three accounts, every kind of call.  *)
EXTENDS MultiSigWallet, TLC

CONSTANTS a1, a2, a3, null, pay

Owner1(o, a) == [op |-> o, owner |-> a]
Swap(a, b) == [op |-> "replaceOwner", owner |-> a, newOwner |-> b]

MCSelfCall ==
  {Owner1("addOwner", a) : a \in {a2, a3, null}}
  \cup {Owner1("removeOwner", a) : a \in {a1, a2}}
  \cup {Swap(a1, a2), Swap(a2, a3), Swap(a1, null)}
  \cup [op : {"changeRequirement"}, n : {0, 1, 2}]
=============================================================================

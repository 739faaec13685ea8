------------------------------- MODULE Roster -------------------------------
(* Arrays of accounts, as the Federation keeps its members and the         *)
(* MultiSigWallet its owners: added at the end, removed by swap-and-pop.   *)
EXTENDS Naturals, Sequences

Elements(ms) == {ms[i] : i \in DOMAIN ms}

NoDuplicates(ms) == \A i, j \in DOMAIN ms : ms[i] = ms[j] => i = j

\* Fault: the last position is popped, whoever is removed.
PopOnly(ms, a) == SubSeq(ms, 1, Len(ms) - 1)

\* The loop puts the last member in the place of the first occurrence of a
\* before the last position, if there is one; then the array is popped.
SwapAndPop(ms, a) ==
  [i \in 1..(Len(ms) - 1) |->
     IF ms[i] = a /\ \A j \in 1..(i - 1) : ms[j] # a THEN ms[Len(ms)] ELSE ms[i]]

\* The first occurrence of a becomes b.
Substitute(ms, a, b) ==
  [i \in DOMAIN ms |->
     IF ms[i] = a /\ \A j \in 1..(i - 1) : ms[j] # a THEN b ELSE ms[i]]
=============================================================================

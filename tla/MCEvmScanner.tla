---------------------------- MODULE MCEvmScanner ----------------------------
(* Instances of EvmScanner. *)
EXTENDS EvmScanner

\* The code's loop over pages 1..ceil((to - from) / PageSize), as the set of the
\* [first, last] ranges it reads; PageEnd's ranges are the same.
CodeRanges(from, upto) ==
  LET pages == (upto - from + PageSize - 1) \div PageSize
      first(p) == from + (p - 1) * PageSize
  IN  {<<first(p), IF p = pages THEN upto ELSE first(p) + PageSize - 1>> : p \in 1..pages}
EndOf(first, upto) == IF upto - first <= PageSize THEN upto ELSE first + PageSize - 1
ModelRanges(from, upto) ==
  {r \in (from..upto) \X (from..upto) :
     /\ r[2] = EndOf(r[1], upto)
     /\ \/ r[1] = from
        \/ /\ (r[1] - from) % PageSize = 0
           /\ EndOf(r[1] - PageSize, upto) = r[1] - 1}
ASSUME PagesAgree ==
  \A from \in 1..9 : \A upto \in (from + 1)..12 : ModelRanges(from, upto) = CodeRanges(from, upto)
=============================================================================

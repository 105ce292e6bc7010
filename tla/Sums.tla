-------------------------------- MODULE Sums --------------------------------
(* The sum of a sequence of numbers, place by place: as a function of the  *)
(* place rather than a fold, what it comes to can be proved (SetLemmas).   *)
EXTENDS Integers, Sequences

SumSeq(s) == LET sum[i \in 0..Len(s)] == IF i = 0 THEN 0 ELSE sum[i - 1] + s[i]
             IN sum[Len(s)]
=============================================================================

--------------------------------- MODULE Totals ---------------------------------
(***************************************************************************)
(* The sum of the numbers of a sequence, which the envelope and the search *)
(* both add lengths with.                                                  *)
(***************************************************************************)
EXTENDS Integers, Sequences

Total(lengths) ==
    LET sum[i \in 0..Len(lengths)] == IF i = 0 THEN 0 ELSE sum[i-1] + lengths[i]
    IN sum[Len(lengths)]

================================================================================

-------------------------- MODULE StageAggregation --------------------------
(***************************************************************************)
(* The arithmetic of collectStageCustomMetrics: from the bytes read by the *)
(* tasks of the buffer, the largest value and the largest distance to the  *)
(* average relative to the range, which the dashboards show as skewness.   *)
(* The code computes in doubles; here a fraction is a numerator and a      *)
(* denominator, and rounding is left out.  The code applies the same       *)
(* steps to the input bytes and to the shuffle bytes.                      *)
(***************************************************************************)
EXTENDS Integers, Sequences, FiniteSetsExt

total(bytes) == FoldFunction(+, 0, bytes)

maxBytesRead(bytes) == Max(Range(bytes))

\* Mutant: the range of equal values stays zero.
rangeBytesRead_Zero(bytes) == Max(Range(bytes)) - Min(Range(bytes))

\* Mutant: the range is taken for the largest value.
rangeBytesRead_Max(bytes) == Max(Range(bytes))

rangeBytesRead(bytes) ==
  LET range == Max(Range(bytes)) - Min(Range(bytes))
  IN  IF range = 0 THEN 1 ELSE range

\* |x - total / n| / range, as |n * x - total| / (n * range).
maxRelDistance(bytes) ==
  LET n == Len(bytes)
  IN  [num |-> Max({ Max({n * x - total(bytes), total(bytes) - n * x}) :
                     x \in Range(bytes) }),
       den |-> n * rangeBytesRead(bytes)]
=============================================================================

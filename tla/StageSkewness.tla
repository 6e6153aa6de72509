--------------------------- MODULE StageSkewness ---------------------------
(***************************************************************************)
(* The arithmetic of collectStageCustomMetrics on the buffers that the     *)
(* listener gathers: whatever tasks Spark's events have put there, the     *)
(* aggregates of the next stage record are computed from their bytes.      *)
(***************************************************************************)
EXTENDS MetricsListener, StageAggregation

CONSTANT BytesRead    \* the input bytes, or the shuffle bytes, of each task

ASSUME BytesAssumption == BytesRead \in [TaskIds -> Nat]

inputBytesRead ==
  [i \in DOMAIN taskMetricsBuffer |-> BytesRead[taskMetricsBuffer[i].id]]

Even == Cardinality(Range(inputBytesRead)) = 1

\* The skewness is a defined number between 0 and 1: no buffer that a completed
\* stage may aggregate, not even one of equal values, divides by zero.
SkewnessIsDefined ==
  taskMetricsBuffer # <<>> =>
    LET d == maxRelDistance(inputBytesRead)
    IN  d.den > 0 /\ d.num \in 0..d.den

\* It is zero exactly when all tasks read the same; otherwise one end of the
\* range is at least half the range away from the average, and at most the
\* range less the n-th part the extreme task contributes to the average itself.
SkewnessMeasuresImbalance ==
  taskMetricsBuffer # <<>> =>
    LET d == maxRelDistance(inputBytesRead)
        n == Len(inputBytesRead)
    IN  IF Even THEN d.num = 0
                ELSE 2 * d.num >= d.den /\ n * d.num <= (n - 1) * d.den
=============================================================================

----------------------- MODULE StageAggregationProofs -----------------------
(***************************************************************************)
(* Proofs about the skewness of a stage, for any number of tasks, any      *)
(* number of bytes and any events that fill the buffer.                    *)
(***************************************************************************)
EXTENDS StageSkewness, MetricsListenerProofs, InductionLemmas

-----------------------------------------------------------------------------
(* The fold of total.                                                      *)

\* What a function that folds the bytes of a set of tasks satisfies.
SumsUp(f, bytes) ==
  f = [T \in SUBSET (DOMAIN bytes) |->
         IF T = {} THEN 0
         ELSE bytes[CHOOSE x \in T : TRUE] + f[T \ {CHOOSE x \in T : TRUE}]]

\* Such a function exists for every list.
LEMMA SumExists ==
  ASSUME NEW bytes \in Seq(Int)
  PROVE  \E f \in [SUBSET (DOMAIN bytes) -> Int] : SumsUp(f, bytes)
<1> DEFINE D == DOMAIN bytes
           step == [p \in D \X Int |-> bytes[p[1]] + p[2]]
           pick == [T \in SUBSET D |-> CHOOSE x \in T : TRUE]
<1>1. FoldArguments(D, Int, 0, step, pick)
  <2>1. IsFiniteSet(D)
    <3>1. D = 1..Len(bytes) /\ Len(bytes) \in Nat
      OBVIOUS
    <3>2. QED
      BY <3>1, FS_Interval
  <2>2. step \in [D \X Int -> Int]
    OBVIOUS
  <2>3. \A T \in SUBSET D : T # {} => pick[T] \in T
    OBVIOUS
  <2>4. QED
    BY <2>1, <2>2, <2>3 DEF FoldArguments
<1>2. \E f \in [SUBSET D -> Int] : IsFold(f, D, 0, step, pick)
  <2> HIDE DEF D, step, pick
  <2>1. QED
    BY <1>1, FoldExists
<1>3. PICK f \in [SUBSET D -> Int] : IsFold(f, D, 0, step, pick)
  BY <1>2
<1>4. ASSUME NEW T \in SUBSET D, T # {}
      PROVE  f[T] = bytes[CHOOSE x \in T : TRUE] + f[T \ {CHOOSE x \in T : TRUE}]
  <2> DEFINE x == CHOOSE y \in T : TRUE
  <2>1. x \in T /\ pick[T] = x
    BY <1>4
  <2>2. f[T] = step[<<x, f[T \ {x}]>>]
    BY <1>3, <1>4, <2>1 DEF IsFold
  <2>3. <<x, f[T \ {x}]>> \in D \X Int
    BY <1>3, <2>1
  <2>4. step[<<x, f[T \ {x}]>>] = bytes[x] + f[T \ {x}]
    BY <2>3
  <2>5. QED
    BY <2>2, <2>4
<1>5. SumsUp(f, bytes)
  <2>1. f = [T \in SUBSET D |-> f[T]]
    BY <1>3
  <2>2. \A T \in SUBSET D :
          f[T] = IF T = {} THEN 0
                 ELSE bytes[CHOOSE x \in T : TRUE] + f[T \ {CHOOSE x \in T : TRUE}]
    BY <1>3, <1>4 DEF IsFold
  <2>3. QED
    BY <2>1, <2>2 DEF SumsUp
<1>6. QED
  BY <1>3, <1>5

\* The total of a list is what such a function has for all its tasks.
LEMMA TotalSumsUp ==
  ASSUME NEW bytes \in Seq(Int)
  PROVE  \E g : SumsUp(g, bytes) /\ total(bytes) = g[DOMAIN bytes]
<1>1. PICK f : SumsUp(f, bytes)
  BY SumExists
<1>2. QED
  BY <1>1 DEF SumsUp, total, FoldFunction, FoldFunctionOnSet, MapThenFoldSet

\* The arithmetic of one task more.
LEMMA OneMore ==
  ASSUME NEW k \in Nat, NEW bound \in Int
  PROVE  /\ (k + 1) * bound = k * bound + bound
         /\ k * bound \in Int
         /\ ((k + 1) - 1) * bound = k * bound
         /\ (k - 1) * bound = k * bound - bound
  OBVIOUS

\* A value more, where the bound had left one value out.
LEMMA ValueMore ==
  ASSUME NEW part \in Int, NEW rest \in Int, NEW value \in Int,
         NEW bound \in Int, NEW times \in Int
  PROVE  /\ part + (times - bound) <= rest /\ bound <= value =>
              part + times <= value + rest
         /\ rest <= part + (times - bound) /\ value <= bound =>
              value + rest <= part + times
  OBVIOUS

\* The total of values between low and high, and what is known of it when one of
\* the values is.
LEMMA TotalBounds ==
  ASSUME NEW bytes \in Seq(Int), bytes # <<>>, NEW low \in Int, NEW high \in Int,
         \A i \in 1..Len(bytes) : low <= bytes[i] /\ bytes[i] <= high
  PROVE  /\ total(bytes) \in Int
         /\ \A j \in 1..Len(bytes) :
              /\ bytes[j] + (Len(bytes) - 1) * low <= total(bytes)
              /\ total(bytes) <= bytes[j] + (Len(bytes) - 1) * high
<1> DEFINE D == 1..Len(bytes)
<1>0. D = DOMAIN bytes /\ Len(bytes) \in Nat /\ IsFiniteSet(D) /\ Cardinality(D) = Len(bytes)
  BY FS_Interval
<1>1. PICK g : SumsUp(g, bytes) /\ total(bytes) = g[D]
  BY <1>0, TotalSumsUp
<1> DEFINE Whole(T, k) == k * low <= g[T] /\ g[T] <= k * high
           Around(T, k) == \A j \in T : /\ bytes[j] + (k - 1) * low <= g[T]
                                        /\ g[T] <= bytes[j] + (k - 1) * high
           Good == {T \in SUBSET D : /\ g[T] \in Int
                                     /\ Whole(T, Cardinality(T))
                                     /\ Around(T, Cardinality(T))}
<1>2. {} \in Good
  <2>1. g[{}] = 0 /\ Cardinality({}) = 0
    BY <1>1, <1>0, FS_EmptySet DEF SumsUp
  <2>2. QED
    BY <2>1
<1>3. ASSUME NEW T \in SUBSET D, T # {}, \A x \in T : T \ {x} \in Good
      PROVE  T \in Good
  <2> DEFINE x == CHOOSE y \in T : TRUE
             R == T \ {x}
             k == Cardinality(R)
  <2>1. x \in T /\ R \in Good /\ R \in SUBSET D
    BY <1>3
  <2>2. g[T] = bytes[x] + g[R]
    BY <1>0, <1>1, <1>3 DEF SumsUp
  <2>3. Cardinality(T) = k + 1 /\ k \in Nat
    <3>1. IsFiniteSet(T) /\ IsFiniteSet(R)
      BY <1>0, <2>1, FS_Subset
    <3>2. Cardinality(T) \in Nat /\ k \in Nat
      BY <3>1, FS_CardinalityType
    <3>3. k = Cardinality(T) - 1
      BY <2>1, <3>1, FS_RemoveElement
    <3> HIDE DEF k
    <3>4. QED
      BY <3>2, <3>3
  <2>4. g[R] \in Int /\ Whole(R, k) /\ Around(R, k)
    BY <2>1
  <2>5. \A j \in T : bytes[j] \in Int /\ low <= bytes[j] /\ bytes[j] <= high
    OBVIOUS
  <2> HIDE DEF x, k
  <2>6. g[T] \in Int /\ Whole(T, k + 1)
    BY <2>1, <2>2, <2>3, <2>4, <2>5, OneMore
  <2>7. ASSUME NEW j \in T
        PROVE  /\ bytes[j] + ((k + 1) - 1) * low <= g[T]
               /\ g[T] <= bytes[j] + ((k + 1) - 1) * high
    <3>1. CASE j = x
      BY <2>1, <2>2, <2>3, <2>4, <2>5, <3>1, OneMore
    <3>2. CASE j # x
      <4>1. j \in R
        BY <3>2
      <4>2. /\ bytes[j] + (k - 1) * low <= g[R]
            /\ g[R] <= bytes[j] + (k - 1) * high
        BY <2>4, <4>1
      <4>3. /\ bytes[j] + (k * low - low) <= g[R]
            /\ g[R] <= bytes[j] + (k * high - high)
        BY <2>3, <4>2, OneMore
      <4>4. k * low \in Int /\ k * high \in Int /\ bytes[j] \in Int /\ bytes[x] \in Int
        BY <2>1, <2>3, <2>5, OneMore
      <4>5. /\ bytes[j] + k * low <= g[T]
            /\ g[T] <= bytes[j] + k * high
        <5>1. /\ bytes[j] + k * low <= bytes[x] + g[R]
              /\ bytes[x] + g[R] <= bytes[j] + k * high
          BY <2>1, <2>4, <2>5, <4>3, <4>4, ValueMore
        <5>2. QED
          BY <2>2, <5>1
      <4>6. QED
        BY <2>3, <4>5, OneMore
    <3>3. QED
      BY <3>1, <3>2
  <2>8. QED
    BY <2>3, <2>6, <2>7
<1>4. SUBSET D \subseteq Good
  <2> HIDE DEF Good, D
  <2>1. QED
    BY <1>0, <1>2, <1>3, ClosedUnderAddition
<1>5. D \in Good
  BY <1>4
<1>6. QED
  BY <1>0, <1>1, <1>5

-----------------------------------------------------------------------------
(* The distances to the average.                                           *)

\* A list of tasks has a largest and a smallest value.
LEMMA Extremes ==
  ASSUME NEW bytes \in Seq(Int), bytes # <<>>
  PROVE  /\ Range(bytes) \subseteq Int /\ IsFiniteSet(Range(bytes))
         /\ Max(Range(bytes)) \in Range(bytes) /\ Min(Range(bytes)) \in Range(bytes)
         /\ \A x \in Range(bytes) : Min(Range(bytes)) <= x /\ x <= Max(Range(bytes))
<1> DEFINE D == DOMAIN bytes
           R == Range(bytes)
<1>1. D = 1..Len(bytes) /\ Len(bytes) \in Nat /\ Len(bytes) > 0
  OBVIOUS
<1>2. R \subseteq Int /\ R # {}
  BY <1>1 DEF Range
<1>3. IsFiniteSet(R)
  <2>1. bytes \in Surjection(D, R)
    BY DEF Range, Surjection
  <2>2. IsFiniteSet(D)
    BY <1>1, FS_Interval
  <2> HIDE DEF D, R
  <2>3. QED
    BY <2>1, <2>2, FS_Surjection
<1>4. \E least \in R, most \in R : \A x \in R : least <= x /\ x <= most
  <2> HIDE DEF R
  <2>1. QED
    BY <1>2, <1>3, FiniteHasBounds
<1>5. Max(R) \in R /\ \A x \in R : x <= Max(R)
  <2>1. \E most \in R : \A x \in R : most >= x
    BY <1>2, <1>4
  <2>2. Max(R) \in R /\ \A x \in R : Max(R) >= x
    <3> HIDE DEF R
    <3>1. QED
      BY <2>1 DEF Max
  <2>3. QED
    BY <1>2, <2>2
<1>6. Min(R) \in R /\ \A x \in R : Min(R) <= x
  <2> HIDE DEF R
  <2>1. QED
    BY <1>4 DEF Min
<1>7. QED
  BY <1>2, <1>3, <1>5, <1>6

\* The larger of two numbers.
LEMMA MaxOfTwo ==
  ASSUME NEW a \in Int, NEW b \in Int
  PROVE  Max({a, b}) = IF a >= b THEN a ELSE b
<1>1. \E x \in {a, b} : \A y \in {a, b} : x >= y
  OBVIOUS
<1>2. Max({a, b}) \in {a, b} /\ \A y \in {a, b} : Max({a, b}) >= y
  BY <1>1 DEF Max
<1>3. QED
  BY <1>2

\* The distance of the total to n times the largest and the smallest value, and
\* how they make up the range.
LEMMA Distances ==
  ASSUME NEW n \in Nat \ {0}, NEW most \in Int, NEW least \in Int, NEW t \in Int,
         least <= most,
         most + (n - 1) * least <= t, t <= least + (n - 1) * most
  PROVE  /\ 0 <= n * most - t /\ 0 <= t - n * least
         /\ (n * most - t) + (t - n * least) = n * (most - least)
         /\ n * most - t <= (n - 1) * (most - least)
         /\ t - n * least <= (n - 1) * (most - least)
<1>1. /\ (n - 1) * least = n * least - least /\ (n - 1) * most = n * most - most
      /\ n * (most - least) = n * most - n * least
      /\ (n - 1) * (most - least) = n * most - n * least - most + least
  OBVIOUS
<1>2. n * most \in Int /\ n * least \in Int
  OBVIOUS
<1>3. ASSUME NEW nm \in Int, NEW nl \in Int,
             most + (nl - least) <= t, t <= least + (nm - most)
      PROVE  /\ 0 <= nm - t /\ 0 <= t - nl
             /\ (nm - t) + (t - nl) = nm - nl
             /\ nm - t <= nm - nl - most + least
             /\ t - nl <= nm - nl - most + least
  BY ONLY <1>3, most \in Int, least \in Int, t \in Int, least <= most
<1>4. QED
  BY <1>1, <1>2, <1>3

\* Multiples of a larger number are larger.
LEMMA Multiples ==
  ASSUME NEW n \in Nat, NEW a \in Int, NEW b \in Int, a <= b
  PROVE  n * a \in Int /\ n * b \in Int /\ n * a <= n * b
<1>1. n * (b - a) = n * b - n * a
  OBVIOUS
<1>2. n * (b - a) >= 0
  OBVIOUS
<1>3. QED
  BY <1>1, <1>2

\* n times the distances of the values R to the n-th part of t.
DistancesOf(R, n, t) == {Max({n * x - t, t - n * x}) : x \in R}

\* The largest distance is that of the largest or of the smallest value.
LEMMA Farthest ==
  ASSUME NEW R \in SUBSET Int, NEW most \in R, NEW least \in R,
         \A x \in R : least <= x /\ x <= most,
         NEW n \in Nat, NEW t \in Int,
         NEW up \in Nat, up = n * most - t, NEW down \in Nat, down = t - n * least
  PROVE  Max(DistancesOf(R, n, t)) = IF up >= down THEN up ELSE down
<1> DEFINE distance(x) == Max({n * x - t, t - n * x})
           All == DistancesOf(R, n, t)
           larger == IF up >= down THEN up ELSE down
<1>1. ASSUME NEW x \in R
      PROVE  /\ n * x - t \in Int /\ t - n * x \in Int
             /\ n * x - t <= up /\ t - n * x <= down
             /\ distance(x) = IF n * x - t >= t - n * x THEN n * x - t ELSE t - n * x
  <2>1. /\ n * x \in Int /\ n * most \in Int /\ n * least \in Int
        /\ n * x <= n * most /\ n * least <= n * x
    BY Multiples
  <2>2. n * x - t \in Int /\ t - n * x \in Int
    BY <2>1
  <2>3. n * x - t <= up /\ t - n * x <= down
    BY <2>1
  <2>4. QED
    BY <2>2, <2>3, MaxOfTwo
<1>2. \A x \in R : distance(x) \in Int /\ larger >= distance(x)
  <2>1. ASSUME NEW x \in R
        PROVE  distance(x) \in Int /\ larger >= distance(x)
    <3> DEFINE above == n * x - t
               below == t - n * x
    <3>1. /\ above \in Int /\ below \in Int /\ above <= up /\ below <= down
          /\ distance(x) = IF above >= below THEN above ELSE below
      BY <1>1
    <3> HIDE DEF above, below, distance
    <3>2. QED
      BY <3>1
  <2>2. QED
    BY <2>1
<1>3. larger \in All
  <2>1. CASE up >= down
    <3>1. n * most - t = up /\ t - n * most <= down
      BY <1>1
    <3>2. distance(most) = up
      BY <1>1, <2>1, <3>1
    <3>3. All = {distance(x) : x \in R}
      BY DEF DistancesOf
    <3> HIDE DEF distance
    <3>4. QED
      BY <2>1, <3>2, <3>3
  <2>2. CASE ~(up >= down)
    <3>1. n * least - t <= up /\ t - n * least = down
      BY <1>1
    <3>2. distance(least) = down
      BY <1>1, <2>2, <3>1
    <3>3. All = {distance(x) : x \in R}
      BY DEF DistancesOf
    <3> HIDE DEF distance
    <3>4. QED
      BY <2>2, <3>2, <3>3
  <2>3. QED
    BY <2>1, <2>2
<1>4. \A d \in All : d \in Int /\ larger >= d
  <2>1. All = {distance(x) : x \in R}
    BY DEF DistancesOf
  <2> HIDE DEF distance, larger
  <2>2. QED
    BY <1>2, <2>1
<1>5. larger \in Int
  OBVIOUS
<1>6. Max(All) = larger
  <2> HIDE DEF All, larger
  <2>1. Max(All) \in All /\ \A d \in All : Max(All) >= d
    BY <1>3, <1>4 DEF Max
  <2>2. Max(All) \in Int /\ larger >= Max(All) /\ Max(All) >= larger
    BY <1>3, <1>4, <2>1
  <2>3. \A m \in Int : larger >= m /\ m >= larger => m = larger
    BY <1>5
  <2>4. QED
    BY <2>2, <2>3
<1>7. QED
  BY <1>6

\* The two extreme values of a list make up the range, and neither is farther from
\* the average than n-1 n-ths of it.
LEMMA Imbalance ==
  ASSUME NEW bytes \in Seq(Int), bytes # <<>>
  PROVE  \E n \in Nat \ {0}, most \in Range(bytes), least \in Range(bytes),
            up \in Nat, down \in Nat :
           /\ n = Len(bytes) /\ most = Max(Range(bytes)) /\ least = Min(Range(bytes))
           /\ most \in Int /\ least \in Int /\ least <= most
           /\ \A x \in Range(bytes) : least <= x /\ x <= most
           /\ maxRelDistance(bytes).num = IF up >= down THEN up ELSE down
           /\ up + down = n * (most - least)
           /\ up <= (n - 1) * (most - least) /\ down <= (n - 1) * (most - least)
<1>1. PICK R : R = Range(bytes)
  OBVIOUS
<1>2. PICK n : n = Len(bytes)
  OBVIOUS
<1>3. PICK most, least : most = Max(R) /\ least = Min(R)
  OBVIOUS
<1>4. PICK t : t = total(bytes)
  OBVIOUS
<1>5. /\ R \in SUBSET Int /\ most \in R /\ least \in R
      /\ \A x \in R : least <= x /\ x <= most
  BY <1>1, <1>3, Extremes
<1>6. n \in Nat \ {0} /\ most \in Int /\ least \in Int /\ least <= most
  BY <1>2, <1>5
<1>7. t \in Int /\ most + (n - 1) * least <= t /\ t <= least + (n - 1) * most
  <2>1. \A i \in 1..Len(bytes) : least <= bytes[i] /\ bytes[i] <= most
    BY <1>1, <1>5 DEF Range
  <2>2. PICK i \in 1..Len(bytes) : bytes[i] = most
    BY <1>1, <1>5 DEF Range
  <2>3. PICK j \in 1..Len(bytes) : bytes[j] = least
    BY <1>1, <1>5 DEF Range
  <2>4. QED
    BY <1>2, <1>4, <1>6, <2>1, <2>2, <2>3, TotalBounds
<1>8. PICK up, down : up = n * most - t /\ down = t - n * least
  OBVIOUS
<1>9. /\ up \in Nat /\ down \in Nat
      /\ up + down = n * (most - least)
      /\ up <= (n - 1) * (most - least) /\ down <= (n - 1) * (most - least)
  <2>1. n * most \in Int /\ n * least \in Int
    BY <1>6
  <2>2. up \in Int /\ down \in Int
    BY <1>7, <1>8, <2>1
  <2>3. QED
    BY <1>6, <1>7, <1>8, <2>2, Distances
<1>10. maxRelDistance(bytes).num = IF up >= down THEN up ELSE down
  <2>1. maxRelDistance(bytes).num = Max(DistancesOf(R, n, t))
    BY <1>1, <1>2, <1>4 DEF maxRelDistance, DistancesOf
  <2>2. Max(DistancesOf(R, n, t)) = IF up >= down THEN up ELSE down
    <3>1. n \in Nat
      BY <1>6
    <3>2. QED
      BY <3>1, <1>5, <1>7, <1>8, <1>9, Farthest
  <2>3. QED
    BY <2>1, <2>2
<1>11. QED
  BY <1>1, <1>2, <1>3, <1>5, <1>6, <1>9, <1>10

-----------------------------------------------------------------------------
(* The properties.                                                         *)

\* The arithmetic of the skewness, for the gap between the extreme values and the
\* range the code divides by.
LEMMA SkewnessNumbers ==
  ASSUME NEW n \in Nat \ {0}, NEW gap \in Nat, NEW up \in Nat, NEW down \in Nat,
         up + down = n * gap, up <= (n - 1) * gap, down <= (n - 1) * gap,
         NEW num, num = IF up >= down THEN up ELSE down,
         NEW range, range = IF gap = 0 THEN 1 ELSE gap
  PROVE  /\ n * range > 0 /\ num \in 0..n * range
         /\ gap = 0 => num = 0
         /\ gap # 0 => /\ 2 * num >= n * range
                       /\ n * num <= (n - 1) * (n * range)
<1>1. num \in Nat /\ num <= n * gap /\ n * gap <= 2 * num /\ num <= (n - 1) * gap
  <2>1. n * gap \in Int /\ (n - 1) * gap \in Int
    OBVIOUS
  <2>2. QED
    BY <2>1
<1>2. range \in Nat \ {0} /\ gap <= range
  OBVIOUS
<1>3. n * range > 0
  BY <1>2
<1>4. num \in 0..n * range
  <2>1. n * gap \in Int /\ n * range \in Int /\ n * gap <= n * range
    BY <1>2, Multiples
  <2>2. QED
    BY <1>1, <2>1
<1>5. gap = 0 => num = 0
  BY <1>1
<1>6. ASSUME gap # 0
      PROVE  2 * num >= n * range /\ n * num <= (n - 1) * (n * range)
  <2>1. range = gap
    BY <1>6
  <2>2. n * num <= n * ((n - 1) * gap)
    <3>1. n \in Nat /\ (n - 1) * gap \in Int
      OBVIOUS
    <3>2. QED
      BY <1>1, <3>1, Multiples
  <2>3. n * ((n - 1) * gap) = (n - 1) * (n * gap)
    OBVIOUS
  <2>4. n * gap \in Int
    OBVIOUS
  <2>5. QED
    BY <1>1, <2>1, <2>2, <2>3, <2>4
<1>7. QED
  BY <1>3, <1>4, <1>5, <1>6

\* The numerator and denominator of the skewness, and when they are even.
LEMMA Skewness ==
  ASSUME NEW bytes \in Seq(Int), bytes # <<>>
  PROVE  \E n \in Nat \ {0}, gap \in Nat, num \in Nat, den \in Int :
           /\ n = Len(bytes)
           /\ num = maxRelDistance(bytes).num /\ den = maxRelDistance(bytes).den
           /\ gap = 0 <=> Cardinality(Range(bytes)) = 1
           /\ den > 0 /\ num \in 0..den
           /\ gap = 0 => num = 0
           /\ gap # 0 => 2 * num >= den /\ n * num <= (n - 1) * den
<1>1. PICK n \in Nat \ {0}, most \in Range(bytes), least \in Range(bytes),
           up \in Nat, down \in Nat :
        /\ n = Len(bytes) /\ most = Max(Range(bytes)) /\ least = Min(Range(bytes))
        /\ most \in Int /\ least \in Int /\ least <= most
        /\ \A x \in Range(bytes) : least <= x /\ x <= most
        /\ maxRelDistance(bytes).num = IF up >= down THEN up ELSE down
        /\ up + down = n * (most - least)
        /\ up <= (n - 1) * (most - least) /\ down <= (n - 1) * (most - least)
  BY Imbalance
<1>2. PICK gap \in Nat : gap = most - least
  <2>1. most \in Int /\ least \in Int /\ least <= most
    BY <1>1
  <2>2. \A a, b \in Int : a <= b => b - a \in Nat
    OBVIOUS
  <2>3. most - least \in Nat
    BY <2>1, <2>2
  <2>4. QED
    BY <2>3
<1>3. PICK range : range = rangeBytesRead(bytes)
  OBVIOUS
<1>4. range = IF gap = 0 THEN 1 ELSE gap
  BY <1>1, <1>2, <1>3 DEF rangeBytesRead
<1>5. PICK num, den : num = maxRelDistance(bytes).num /\ den = maxRelDistance(bytes).den
  OBVIOUS
<1>6. den = n * range
  BY <1>1, <1>3, <1>5 DEF maxRelDistance
<1>7. num = IF up >= down THEN up ELSE down
  BY <1>1, <1>5
<1>8. up + down = n * gap /\ up <= (n - 1) * gap /\ down <= (n - 1) * gap
  BY <1>1, <1>2
<1>9. /\ den > 0 /\ num \in 0..den
      /\ gap = 0 => num = 0
      /\ gap # 0 => 2 * num >= den /\ n * num <= (n - 1) * den
  BY <1>4, <1>6, <1>7, <1>8, SkewnessNumbers
<1>10. gap = 0 <=> Cardinality(Range(bytes)) = 1
  <2>1. Range(bytes) \subseteq Int /\ IsFiniteSet(Range(bytes))
    BY Extremes
  <2>2. ASSUME gap = 0
        PROVE  Cardinality(Range(bytes)) = 1
    <3>1. most = least
      BY <1>1, <1>2, <2>2
    <3>2. ASSUME NEW x \in Range(bytes)
          PROVE  x = most
      <4>1. x \in Int /\ most <= x /\ x <= most
        BY <1>1, <2>1, <3>1
      <4>2. QED
        BY <1>1, <4>1
    <3>3. Range(bytes) = {most}
      BY <3>2
    <3>4. QED
      BY <3>3, FS_Singleton
  <2>3. ASSUME Cardinality(Range(bytes)) = 1
        PROVE  gap = 0
    <3>1. PICK x : Range(bytes) = {x}
      BY <2>1, <2>3, FS_Singleton
    <3>2. most = least
      BY <3>1
    <3>3. QED
      BY <1>1, <1>2, <3>2
  <2>4. QED
    BY <2>2, <2>3
<1>11. num \in Nat /\ den \in Int
  <2>1. range \in Nat
    BY <1>4
  <2>2. den \in Int
    BY <1>6, <2>1
  <2>3. QED
    BY <1>7, <2>2
<1>12. QED
  BY <1>1, <1>5, <1>9, <1>10, <1>11

\* The buffer is as long as the list of its bytes, which are numbers.
LEMMA BytesOfBuffer ==
  ASSUME TypeOK
  PROVE  /\ inputBytesRead \in Seq(Int) /\ Len(inputBytesRead) = Len(taskMetricsBuffer)
         /\ taskMetricsBuffer # <<>> => inputBytesRead # <<>>
<1>1. taskMetricsBuffer \in Seq(TaskMetrics)
  BY DEF TypeOK
<1>2. PICK n \in Nat : n = Len(taskMetricsBuffer) /\ DOMAIN taskMetricsBuffer = 1..n
  BY <1>1
<1>3. \A i \in 1..n : BytesRead[taskMetricsBuffer[i].id] \in Int
  <2>1. ASSUME NEW i \in 1..n
        PROVE  taskMetricsBuffer[i] \in TaskMetrics
    BY <1>1, <1>2
  <2>2. \A m \in TaskMetrics : m.id \in TaskIds
    BY DEF TaskMetrics
  <2>3. \A id \in TaskIds : BytesRead[id] \in Int
    BY BytesAssumption DEF BytesAssumption
  <2>4. QED
    BY <2>1, <2>2, <2>3
<1>4. inputBytesRead = [i \in 1..n |-> BytesRead[taskMetricsBuffer[i].id]]
  BY <1>2 DEF inputBytesRead
<1>5. inputBytesRead \in [1..n -> Int]
  BY <1>3, <1>4
<1>6. inputBytesRead \in Seq(Int) /\ Len(inputBytesRead) = n
  BY <1>5
<1>7. taskMetricsBuffer # <<>> => n # 0
  BY <1>1, <1>2
<1>8. QED
  BY <1>2, <1>6, <1>7

\* For any buffer the skewness divides by something and is between 0 and 1, equal values
\* and a single task included.
THEOREM Defined == Spec => []SkewnessIsDefined
<1>1. TypeOK => SkewnessIsDefined
  BY BytesOfBuffer, Skewness DEF SkewnessIsDefined
<1>2. QED
  BY <1>1, TypeCorrect, PTL

\* For any buffer the skewness is zero exactly if all its tasks read the same, and
\* otherwise between a half and the part of the range that n tasks allow.
THEOREM Measures == Spec => []SkewnessMeasuresImbalance
<1>1. TypeOK => SkewnessMeasuresImbalance
  BY BytesOfBuffer, Skewness DEF SkewnessMeasuresImbalance, Even
<1>2. QED
  BY <1>1, TypeCorrect, PTL
=============================================================================

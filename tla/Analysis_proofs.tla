----------------------------- MODULE Analysis_proofs -----------------------------
(***************************************************************************)
(* Proofs about what is computed from the records of a run, and from the   *)
(* runs of several experiments: RunRecords, RecoveryDetection, Comparison  *)
(* and MatrixAnalysis, for every number of clients, every retry policy and *)
(* deadline, every window, threshold and length of a run, any number of    *)
(* repetitions, and any factors with any levels.                           *)
(*                                                                         *)
(* 1. Numbers.  Least and greatest members, and first-order induction:     *)
(*    a set is inductive, rather than a predicate.                         *)
(* 2. Recovery.  Nothing is assumed of the means but that they are those   *)
(*    of the same buckets; what matters is which buckets a verdict reads.  *)
(* 3. Sums.  SumFor is computed by a function from sets of positions to    *)
(*    sums; such functions exist, agree, and add one row at a time.        *)
(* 4. Accounts.  The rows of a request in flight account for no more than  *)
(*    the time up to its present attempt or to the end of its sleep.       *)
(* 5. The timeline.  Every row has one bucket, so what is counted bucket   *)
(*    by bucket adds up to what the summary counts at once.                *)
(* 6. Sums over sets.  A sum over a finite set takes its members in any    *)
(*    order; it is linear, and bounded by its largest and least summand.   *)
(* 7. Experiments compared.  The pairs left are what two sets of runs have *)
(*    in common, so both views count by inclusion and exclusion, and both  *)
(*    effects are signs of one sum.                                        *)
(* 8. Effects of factors.  Levels that differ in their texts partition the *)
(*    conditions, hence the runs; means are multiples of the number of     *)
(*    means, so what is left of them without their mean cancels.           *)
(* 9. Designs.  An assignment changes what lies below its path and what is *)
(*    above it, so it leaves the other factors' levels; by induction over  *)
(*    the factors a specification has all its levels, and tells them.      *)
(* 10. Views of a 2x2 experiment.  The numbers of combinations divide each *)
(*    other and four is two times two, so each cell is one condition and   *)
(*    each level two; means are exact, so their differences are too.       *)
(***************************************************************************)
EXTENDS RunRecords, RecoveryDetection, Comparison, FiniteSetTheorems, SequenceTheorems,
        WellFoundedInduction, TLAPS

-------------------------------------------------------------------------------
(* 1. Numbers                                                              *)

\* A nonempty set of natural numbers has a least element.
LEMMA LeastNatural ==
  ASSUME NEW S \in SUBSET Nat, S # {}
  PROVE  \E n \in S : \A m \in S : n <= m
<1> DEFINE Belows == {1..n : n \in S}
<1>1. Belows \subseteq FiniteSubsetsOf(Nat) /\ Belows # {}
  <2>1. \A n \in S : 1..n \in SUBSET Nat /\ IsFiniteSet(1..n)
    BY FS_Interval
  <2>2. QED
    BY <2>1 DEF FiniteSubsetsOf
<1>2. PICK I \in Belows : \A J \in Belows : ~(<<J, I>> \in StrictSubsetOrdering(Nat))
  BY <1>1, FS_StrictSubsetOrderingWellFounded, WFMin
<1>3. PICK n \in S : I = 1..n
  OBVIOUS
<1>4. \A m \in S : ~(m < n)
  <2>1. SUFFICES ASSUME NEW m \in S, m < n PROVE FALSE
    OBVIOUS
  <2>2. 1..m \in Belows /\ 1..m \subseteq 1..n /\ 1..m # 1..n
    <3>1. n \in 1..n /\ n \notin 1..m
      BY <2>1
    <3>2. QED
      BY <2>1, <3>1
  <2>3. <<1..m, I>> \in StrictSubsetOrdering(Nat)
    BY <2>2, <1>3 DEF StrictSubsetOrdering
  <2>4. QED
    BY <2>2, <2>3, <1>2
<1>5. QED
  BY <1>4

LEMMA MinNatural ==
  ASSUME NEW S \in SUBSET Nat, S # {}
  PROVE  Min(S) \in S /\ \A m \in S : Min(S) <= m
BY LeastNatural DEF Min

\* The least element of a set is that of every set that agrees with it up to there.
LEMMA MinAgrees ==
  ASSUME NEW S \in SUBSET Nat, NEW T \in SUBSET Nat, S # {},
         \A i \in Nat : i <= Min(S) => (i \in T <=> i \in S)
  PROVE  Min(T) = Min(S) /\ T # {}
<1>1. Min(S) \in S /\ Min(S) \in T /\ \A m \in S : Min(S) <= m
  BY MinNatural
<1>2. Min(T) \in T /\ \A m \in T : Min(T) <= m
  BY <1>1, MinNatural
<1>3. Min(T) <= Min(S) /\ Min(S) \in Nat /\ Min(T) \in Nat
  BY <1>1, <1>2
<1>4. Min(T) \in S
  BY <1>2, <1>3
<1>5. Min(S) <= Min(T)
  BY <1>1, <1>4
<1>6. QED
  BY <1>1, <1>3, <1>5

\* A set of numbers that holds 0 and the successors of its members holds them all.
LEMMA InductiveSet ==
  ASSUME NEW S, 0 \in S, \A n \in Nat : n \in S => n + 1 \in S
  PROVE  Nat \subseteq S
<1> DEFINE Out == Nat \ S
<1>1. SUFFICES ASSUME Out # {} PROVE FALSE
  OBVIOUS
<1>2. PICK n \in Out : \A m \in Out : n <= m
  BY <1>1, LeastNatural
<1>3. n # 0 /\ n - 1 \in Nat /\ n - 1 \notin Out
  BY <1>2
<1>4. QED
  BY <1>3

LEMMA MaxTop ==
  ASSUME NEW k \in Nat, NEW T \in SUBSET (1..k), k \in T
  PROVE  Max(T) = k
<1>1. k \in T /\ \A y \in T : k >= y
  OBVIOUS
<1>2. \A x \in T : (\A y \in T : x >= y) => x = k
  BY <1>1
<1>3. QED
  BY <1>1, <1>2 DEF Max

LEMMA MinOfTwo ==
  ASSUME NEW a \in Nat, NEW b \in Nat
  PROVE  Min({a, b}) \in Nat /\ Min({a, b}) <= a /\ Min({a, b}) <= b
<1>1. {a, b} \in SUBSET Nat /\ {a, b} # {}
  OBVIOUS
<1>2. Min({a, b}) \in {a, b} /\ \A m \in {a, b} : Min({a, b}) <= m
  BY <1>1, MinNatural
<1>3. QED
  BY <1>2

\* A division rounds down.
LEMMA DivBounds ==
  ASSUME NEW a \in Nat, NEW b \in Nat \ {0}
  PROVE  /\ a \div b \in Nat
         /\ (a \div b) * b <= a
         /\ a < (a \div b + 1) * b
  BY Z3

LEMMA DivMonotone ==
  ASSUME NEW a \in Nat, NEW c \in Nat, NEW b \in Nat \ {0}, a <= c
  PROVE  a \div b <= c \div b
  BY Z3

LEMMA DivSmall ==
  ASSUME NEW a \in Nat, NEW b \in Nat \ {0}, a < b
  PROVE  a \div b = 0
  BY Z3

LEMMA TimesMonotone ==
  ASSUME NEW a \in Nat, NEW c \in Nat, NEW b \in Nat, a <= c
  PROVE  a * b <= c * b
  BY Z3

\* The greatest element of a bounded set of natural numbers.
LEMMA MaxNatural ==
  ASSUME NEW S \in SUBSET Nat, S # {}, NEW top \in Nat, \A m \in S : m <= top
  PROVE  Max(S) \in S /\ \A m \in S : m <= Max(S)
<1> DEFINE Bounds == {n \in Nat : \A m \in S : m <= n}
<1>1. Bounds \in SUBSET Nat /\ Bounds # {}
  OBVIOUS
<1>2. PICK n \in Bounds : \A k \in Bounds : n <= k
  BY <1>1, LeastNatural
<1>3. n \in S
  <2>1. SUFFICES ASSUME n \notin S PROVE FALSE
    OBVIOUS
  <2>2. \A m \in S : m <= n - 1
    BY <2>1, <1>2
  <2>3. n - 1 \in Nat
    <3>1. PICK m \in S : m <= n - 1
      BY <2>2
    <3>2. QED
      BY <3>1
  <2>4. n - 1 \in Bounds
    BY <2>2, <2>3
  <2>5. QED
    BY <2>4, <1>2
<1>4. \A m \in S : n >= m
  BY <1>2
<1>5. QED
  BY <1>3, <1>4 DEF Max

-------------------------------------------------------------------------------
(* 2. Recovery                                                             *)

SeriesTypeOK == first \in Nat /\ series \in Seq(Buckets)

LEMMA SeriesTyped == RecoverySpec => []SeriesTypeOK
<1>1. RecoveryInit => SeriesTypeOK
  BY RecoveryAssumption DEF RecoveryInit, SeriesTypeOK
<1>2. SeriesTypeOK /\ [RecoveryNext]_recoveryVars => SeriesTypeOK'
  BY DEF RecoveryNext, NextBucket, recoveryVars, SeriesTypeOK
<1>3. QED
  BY <1>1, <1>2, PTL DEF RecoverySpec

\* The buckets in which the throughput is below the threshold.
Low(s, base) == {i \in 1..Len(s) : ~Available(base, s[i].rps)}

LEMMA DegradedDef ==
  ASSUME NEW s, NEW base
  PROVE  DegradedBucket(s, base) = IF Len(s) < 3 \/ base.rps = 0 \/ Low(s, base) = {} THEN 0
                                   ELSE Min(Low(s, base))
BY DEF DegradedBucket, SelectInSeq, Low

LEMMA DegradedIsLow ==
  ASSUME NEW s, Len(s) \in Nat, NEW base, DegradedBucket(s, base) # 0
  PROVE  /\ Len(s) >= 3 /\ base.rps # 0 /\ Low(s, base) # {}
         /\ DegradedBucket(s, base) = Min(Low(s, base))
         /\ DegradedBucket(s, base) \in 1..Len(s)
         /\ ~Available(base, s[DegradedBucket(s, base)].rps)
<1>1. /\ Len(s) >= 3 /\ base.rps # 0 /\ Low(s, base) # {}
      /\ DegradedBucket(s, base) = Min(Low(s, base))
  BY DegradedDef
<1>2. Low(s, base) \in SUBSET Nat
  BY DEF Low
<1>3. Min(Low(s, base)) \in Low(s, base)
  BY <1>1, <1>2, MinNatural
<1>4. QED
  BY <1>1, <1>3 DEF Low

LEMMA DegradedType ==
  ASSUME NEW s, Len(s) \in Nat, NEW base
  PROVE  DegradedBucket(s, base) \in 0..Len(s)
BY DegradedIsLow

\* What _first_sustained_recovery() looks for.
Recovered(s, base, after) ==
  {i \in after..Len(s) : /\ ThroughputSustained(s, base, i)
                         /\ LatencyActive(base) => LatencySustained(s, base, after, i)}

LEMMA RecoveredIsFirst ==
  ASSUME NEW s, Len(s) \in Nat, NEW base, NEW d \in Nat \ {0}
  PROVE  /\ RecoveredBucket(s, base, d) = IF Recovered(s, base, d) = {} THEN 0
                                          ELSE Min(Recovered(s, base, d))
         /\ Recovered(s, base, d) \in SUBSET Nat
         /\ Recovered(s, base, d) # {} =>
              /\ RecoveredBucket(s, base, d) \in Recovered(s, base, d)
              /\ RecoveredBucket(s, base, d) \in d..Len(s)
              /\ \A i \in Recovered(s, base, d) : RecoveredBucket(s, base, d) <= i
<1>1. RecoveredBucket(s, base, d) = IF Recovered(s, base, d) = {} THEN 0
                                    ELSE Min(Recovered(s, base, d))
  BY DEF RecoveredBucket, Recovered
<1>2. Recovered(s, base, d) \subseteq d..Len(s) /\ Recovered(s, base, d) \in SUBSET Nat
  BY DEF Recovered
<1>3. QED
  BY <1>1, <1>2, MinNatural

\* The baseline of a series that has reached the end of the baseline window stays.
LEMMA BaselineStays ==
  ASSUME first \in Nat, NEW s \in Seq(Buckets), NEW b \in Buckets, BaselineClosed(s)
  PROVE  Baseline(Append(s, b)) = Baseline(s)
<1> DEFINE t == Append(s, b)
           Inside(u) == {i \in 1..Len(u) : Time(i) <= BaselineWindow}
<1>1. /\ Len(s) \in Nat /\ Len(t) = Len(s) + 1 /\ Len(s) >= 3
      /\ \A i \in 1..Len(s) : t[i] = s[i]
  BY DEF BaselineClosed
<1>2. BaselineWindow \in Nat /\ first + Len(s) - 1 >= BaselineWindow
  BY RecoveryAssumption DEF BaselineClosed, Now, Time
<1>3. Inside(t) = Inside(s)
  BY <1>1, <1>2 DEF Time
<1>4. BaselineSize(t) = BaselineSize(s)
  <2>1. \A u : BaselineSize(u) = IF Cardinality(Inside(u)) > 0 THEN Cardinality(Inside(u))
                                 ELSE IF Len(u) < 3 THEN Len(u) ELSE 3
    BY DEF BaselineSize
  <2>2. ~(Len(s) < 3) /\ ~(Len(t) < 3)
    BY <1>1
  <2> HIDE DEF t, Inside
  <2>3. QED
    BY <1>3, <2>1, <2>2
<1>5. BaselineSize(s) \in 0..Len(s)
  <2>1. IsFiniteSet(1..Len(s)) /\ Cardinality(1..Len(s)) = Len(s)
    BY <1>1, FS_Interval
  <2>2. Cardinality(Inside(s)) \in Nat /\ Cardinality(Inside(s)) <= Len(s)
    BY <2>1, FS_Subset, FS_CardinalityType
  <2>3. QED
    BY <1>1, <2>2 DEF BaselineSize
<1>6. \A i \in 1..BaselineSize(s) : t[i] = s[i]
  BY <1>1, <1>5
<1>7. /\ [i \in 1..BaselineSize(s) |-> t[i].rps] = [i \in 1..BaselineSize(s) |-> s[i].rps]
      /\ [i \in 1..BaselineSize(s) |-> t[i].p95] = [i \in 1..BaselineSize(s) |-> s[i].p95]
  BY <1>6
<1>8. QED
  BY <1>4, <1>7 DEF Baseline

LEMMA DegradationStays ==
  ASSUME NEW s \in Seq(Buckets), NEW b \in Buckets, NEW base, DegradedBucket(s, base) # 0
  PROVE  DegradedBucket(Append(s, b), base) = DegradedBucket(s, base)
<1> DEFINE t == Append(s, b)
<1>1. /\ Len(s) \in Nat /\ Len(t) = Len(s) + 1
      /\ \A i \in 1..Len(s) : t[i] = s[i]
  OBVIOUS
<1>2. /\ Len(s) >= 3 /\ base.rps # 0 /\ Low(s, base) # {}
      /\ DegradedBucket(s, base) = Min(Low(s, base))
      /\ DegradedBucket(s, base) \in 1..Len(s)
  BY <1>1, DegradedIsLow
<1>3. \A i \in Nat : i <= Min(Low(s, base)) => (i \in Low(t, base) <=> i \in Low(s, base))
  BY <1>1, <1>2 DEF Low
<1>4. Low(s, base) \in SUBSET Nat /\ Low(t, base) \in SUBSET Nat
  BY <1>1 DEF Low
<1>5. Min(Low(t, base)) = Min(Low(s, base)) /\ Low(t, base) # {}
  BY <1>2, <1>3, <1>4, MinAgrees
<1>6. DegradedBucket(t, base) = Min(Low(t, base))
  <2>1. ~(Len(t) < 3) /\ base.rps # 0 /\ Low(t, base) # {}
    BY <1>1, <1>2, <1>5
  <2> HIDE DEF t
  <2>2. QED
    BY <2>1, DegradedDef
<1>7. QED
  BY <1>2, <1>5, <1>6

\* One bucket more is one gate more for the buckets whose stability window it is in, and
\* changes nothing for the others; for itself it must be in both gates.
LEMMA WindowGrows ==
  ASSUME first \in Nat, NEW s \in Seq(Buckets), NEW b \in Buckets, NEW base,
         NEW d \in Nat \ {0}, NEW i \in d..Len(s)
  PROVE  i \in Recovered(Append(s, b), base, d) <=>
           /\ i \in Recovered(s, base, d)
           /\ Time(Len(s) + 1) <= Time(i) + StabilityWindow => InBothGates(base, b)
<1> DEFINE t == Append(s, b)
           n == Len(s)
           near == Time(n + 1) <= Time(i) + StabilityWindow
<1>1. /\ n \in Nat /\ Len(t) = n + 1 /\ t[n + 1] = b
      /\ \A j \in 1..n : t[j] = s[j]
  OBVIOUS
<1>2. StabilityWindow \in Nat /\ i \in Nat /\ d \in Nat /\ i \in 1..n /\ i \in d..Len(t)
  BY <1>1, RecoveryAssumption
<1>3. /\ Window(s, i) \subseteq 1..n
      /\ Window(t, i) = Window(s, i) \union (IF near THEN {n + 1} ELSE {})
  BY <1>1, <1>2 DEF Window
<1> HIDE DEF near
<1>4. ThroughputSustained(t, base, i) <=>
        ThroughputSustained(s, base, i) /\ (near => Available(base, b.rps))
  BY <1>1, <1>3 DEF ThroughputSustained
<1>5. d..Len(t) = (d..n) \union {n + 1} /\ d..n \subseteq 1..n
  BY <1>1, <1>2
<1>6. LatencySustained(t, base, d, i) <=>
        LatencySustained(s, base, d, i) /\ (near => InGate(base, b.p95))
  BY <1>1, <1>5 DEF LatencySustained, near
<1> HIDE DEF t, n
<1>7. i \in Recovered(t, base, d) <=>
        i \in Recovered(s, base, d) /\ (near => InBothGates(base, b))
  BY <1>2, <1>4, <1>6 DEF Recovered, InBothGates, n
<1>8. QED
  BY <1>7 DEF t, n, near

LEMMA NewBucketInGates ==
  ASSUME first \in Nat, NEW s \in Seq(Buckets), NEW b \in Buckets, NEW base,
         NEW d \in Nat \ {0}, Len(s) + 1 \in Recovered(Append(s, b), base, d)
  PROVE  InBothGates(base, b)
<1> DEFINE t == Append(s, b)
           n == Len(s) + 1
<1>1. n \in Nat /\ Len(t) = n /\ t[n] = b /\ StabilityWindow \in Nat
  BY RecoveryAssumption
<1>2. /\ n \in d..Len(t) /\ ThroughputSustained(t, base, n)
      /\ LatencyActive(base) => LatencySustained(t, base, d, n)
  BY DEF Recovered
<1>3. n \in Window(t, n) /\ Time(n) <= Time(n) + StabilityWindow
  BY <1>1 DEF Window, Time
<1>4. Available(base, b.rps) /\ (LatencyActive(base) => InGate(base, b.p95))
  BY <1>1, <1>2, <1>3 DEF ThroughputSustained, LatencySustained
<1>5. QED
  BY <1>4 DEF InBothGates

LEMMA TimeGrows ==
  ASSUME first \in Nat, NEW i \in Nat
  PROVE  /\ Time(i) \in Int /\ Time(i + 1) = Time(i) + 1
         /\ \A j \in Nat : i <= j => Time(i) <= Time(j)
BY DEF Time

LEMMA RecoveryStays ==
  ASSUME first \in Nat, NEW s \in Seq(Buckets), NEW b \in Buckets, NEW base,
         NEW d \in Nat \ {0}, NEW r, r = RecoveredBucket(s, base, d), r # 0,
         Time(r) + StabilityWindow <= Now(s)
  PROVE  RecoveredBucket(Append(s, b), base, d) = r
<1> DEFINE t == Append(s, b)
<1>1. Len(s) \in Nat /\ Len(t) \in Nat
  OBVIOUS
<1>2. Recovered(s, base, d) # {} /\ r = Min(Recovered(s, base, d)) /\ r \in d..Len(s)
      /\ Recovered(s, base, d) \in SUBSET Nat /\ Recovered(t, base, d) \in SUBSET Nat
  BY <1>1, RecoveredIsFirst
<1>3. ASSUME NEW i \in Nat, i <= r
      PROVE  i \in Recovered(t, base, d) <=> i \in Recovered(s, base, d)
  <2>1. CASE i \in d..Len(s)
    <3>1. StabilityWindow \in Nat /\ r \in Nat
      BY <1>1, <1>2, RecoveryAssumption
    <3>2. Time(i) <= Time(r) /\ Time(i) \in Int /\ Time(r) \in Int
      BY <1>3, <3>1, TimeGrows
    <3>3. Time(r) + StabilityWindow <= Time(Len(s))
      BY DEF Now
    <3>4. Time(Len(s)) \in Int /\ Time(Len(s) + 1) = Time(Len(s)) + 1
      BY <1>1, TimeGrows
    <3>5. \A x, y, z, w \in Int : x <= y /\ y + w <= z => ~(z + 1 <= x + w)
      OBVIOUS
    <3>6. ~(Time(Len(s) + 1) <= Time(i) + StabilityWindow)
      BY <3>1, <3>2, <3>3, <3>4, <3>5
    <3>7. QED
      BY <2>1, <3>6, WindowGrows
  <2>2. CASE i \notin d..Len(s)
    <3>1. i \notin d..Len(t)
      BY <1>1, <1>2, <1>3, <2>2
    <3>2. QED
      BY <2>2, <3>1 DEF Recovered
  <2>3. QED
    BY <2>1, <2>2
<1>4. Min(Recovered(t, base, d)) = r /\ Recovered(t, base, d) # {}
  BY <1>2, <1>3, MinAgrees
<1>5. QED
  BY <1>1, <1>4, RecoveredIsFirst

\* What becomes of a recovery whose window is not complete.
LEMMA RecoveryIsProvisional ==
  ASSUME first \in Nat, NEW s \in Seq(Buckets), NEW b \in Buckets, NEW base,
         NEW d \in Nat \ {0}, NEW r, r = RecoveredBucket(s, base, d),
         NEW q, q = RecoveredBucket(Append(s, b), base, d)
  PROVE  /\ r = 0 => q \in {0, Len(s) + 1}
         /\ r # 0 /\ Time(Len(s) + 1) <= Time(r) + StabilityWindow =>
              q = IF InBothGates(base, b) THEN r ELSE 0
<1> DEFINE t == Append(s, b)
           n == Len(s)
           old == Recovered(s, base, d)
           new == Recovered(t, base, d)
<1>1. n \in Nat /\ Len(t) = n + 1 /\ StabilityWindow \in Nat
  BY RecoveryAssumption
<1>2. /\ old \subseteq d..n /\ new \subseteq (d..n) \union {n + 1}
      /\ old \in SUBSET Nat /\ new \in SUBSET Nat
  BY <1>1 DEF Recovered
<1>3. /\ old = {} => r = 0
      /\ old # {} => r \in old /\ r \in d..n /\ \A i \in old : r <= i
  BY <1>1, RecoveredIsFirst
<1>4. /\ new = {} => q = 0
      /\ new # {} => q \in new /\ \A i \in new : q <= i
  BY <1>1, RecoveredIsFirst
<1>5. \A i \in d..n : i \in new <=>
        i \in old /\ (Time(n + 1) <= Time(i) + StabilityWindow => InBothGates(base, b))
  BY WindowGrows
<1>6. n + 1 \in new => InBothGates(base, b)
  BY NewBucketInGates
<1> HIDE DEF t, n, old, new
<1>7. ASSUME r = 0 PROVE q \in {0, n + 1}
  <2>1. old = {}
    BY <1>1, <1>2, <1>3, <1>7
  <2>2. new \subseteq {n + 1}
    BY <1>2, <1>5, <2>1
  <2>3. QED
    BY <1>4, <2>2
<1>8. ASSUME r # 0, Time(n + 1) <= Time(r) + StabilityWindow
      PROVE  q = IF InBothGates(base, b) THEN r ELSE 0
  <2>1. r \in old /\ r \in d..n /\ \A i \in old : r <= i
    BY <1>3, <1>8
  <2>2. CASE InBothGates(base, b)
    <3>1. r \in new
      BY <1>5, <2>1, <2>2
    <3>2. q \in new /\ q <= r
      BY <1>4, <3>1
    <3>3. q \in d..n
      BY <1>1, <1>2, <2>1, <3>2
    <3>4. q \in old
      BY <1>5, <3>2, <3>3
    <3>5. QED
      BY <1>1, <2>1, <2>2, <3>2, <3>3, <3>4
  <2>3. CASE ~InBothGates(base, b)
    <3>1. ASSUME NEW i \in new PROVE FALSE
      <4>1. i \in d..n
        BY <1>2, <1>6, <2>3
      <4>2. i \in old /\ r <= i
        BY <1>5, <2>1, <4>1
      <4>3. i \in Nat /\ r \in Nat
        BY <1>1, <2>1, <4>1
      <4>4. /\ n + 1 \in Nat
            /\ Time(r) <= Time(i) /\ Time(r) \in Int /\ Time(i) \in Int /\ Time(n + 1) \in Int
        BY <1>1, <4>2, <4>3, TimeGrows
      <4>5. Time(n + 1) <= Time(i) + StabilityWindow
        BY <1>1, <1>8, <4>4
      <4>6. QED
        BY <1>5, <2>3, <4>1, <4>5
    <3>2. QED
      BY <1>4, <2>3, <3>1
  <2>4. QED
    BY <2>2, <2>3
<1>9. QED
  BY <1>7, <1>8 DEF n, t

\* What the report says of the two buckets.
LEMMA ReportedTimes ==
  ASSUME first \in Nat, NEW s, Len(s) \in Nat, NEW base, NEW d, NEW r,
         base = Baseline(s), d = DegradedBucket(s, base), r = RecoveredBucket(s, base, d)
  PROVE  /\ Report(s).degraded_at = IF d = 0 THEN None ELSE Time(d)
         /\ Report(s).recovered_at = IF d = 0 \/ r = 0 THEN None ELSE Time(r)
BY DEF Report

LEMMA AppendKeepsVerdict ==
  ASSUME first \in Nat, NEW s \in Seq(Buckets), NEW b \in Buckets, BaselineClosed(s),
         Report(s).degraded_at # None
  PROVE  /\ Report(Append(s, b)).degraded_at = Report(s).degraded_at
         /\ Report(s).recovered_at # None /\ Report(s).recovered_at + StabilityWindow <= Now(s) =>
              Report(Append(s, b)).recovered_at = Report(s).recovered_at
         /\ Report(s).recovered_at = None => Report(Append(s, b)).recovered_at
                                               \in {None, Now(Append(s, b))}
         /\ Report(s).recovered_at # None
              /\ Now(Append(s, b)) <= Report(s).recovered_at + StabilityWindow =>
              Report(Append(s, b)).recovered_at =
                IF InBothGates(Baseline(Append(s, b)), b) THEN Report(s).recovered_at ELSE None
<1> DEFINE t == Append(s, b)
           base == Baseline(s)
           d == DegradedBucket(s, base)
           r == RecoveredBucket(s, base, d)
           q == RecoveredBucket(t, base, d)
<1>1. Len(s) \in Nat /\ Len(t) \in Nat /\ Now(t) = Time(Len(s) + 1)
  BY DEF Now
<1>2. /\ Report(s).degraded_at = IF d = 0 THEN None ELSE Time(d)
      /\ Report(s).recovered_at = IF d = 0 \/ r = 0 THEN None ELSE Time(r)
  BY <1>1, ReportedTimes
<1>3. d # 0
  BY <1>2
<1>4. Baseline(t) = base
  BY BaselineStays
<1>5. DegradedBucket(t, base) = d
  BY <1>3, DegradationStays
<1>6. d \in Nat \ {0}
  BY <1>1, <1>3, DegradedType
<1>7. /\ Report(t).degraded_at = Time(d)
      /\ Report(t).recovered_at = IF q = 0 THEN None ELSE Time(q)
  BY <1>1, <1>3, <1>4, <1>5, ReportedTimes
<1>8. r # 0 /\ Time(r) + StabilityWindow <= Now(s) => q = r
  BY <1>6, RecoveryStays
<1>9. /\ r = 0 => q \in {0, Len(s) + 1}
      /\ r # 0 /\ Time(Len(s) + 1) <= Time(r) + StabilityWindow =>
           q = IF InBothGates(base, b) THEN r ELSE 0
  BY <1>6, RecoveryIsProvisional
<1>10. r \in Nat /\ (r # 0 => Time(r) # None)
  <2>1. r \in Nat
    BY <1>1, <1>6, RecoveredIsFirst
  <2>2. r # 0 => Time(r) # None
    BY <2>1 DEF Time, None
  <2>3. QED
    BY <2>1, <2>2
<1>11. Baseline(Append(s, b)) = base
  BY <1>4
<1> HIDE DEF t, base, d, r, q
<1>12. r = 0 <=> Report(s).recovered_at = None
  BY <1>2, <1>3, <1>10
<1>13. /\ Report(t).degraded_at = Report(s).degraded_at
       /\ Report(s).recovered_at # None /\ Report(s).recovered_at + StabilityWindow <= Now(s) =>
            Report(t).recovered_at = Report(s).recovered_at
  BY <1>2, <1>3, <1>7, <1>8, <1>12
<1>14. Report(s).recovered_at = None => Report(t).recovered_at \in {None, Now(t)}
  BY <1>1, <1>7, <1>9, <1>12
<1>15. Report(s).recovered_at # None /\ Now(t) <= Report(s).recovered_at + StabilityWindow =>
         Report(t).recovered_at = IF InBothGates(base, b) THEN Report(s).recovered_at ELSE None
  BY <1>1, <1>2, <1>3, <1>7, <1>9, <1>12
<1>16. QED
  BY <1>11, <1>13, <1>14, <1>15 DEF t

\* Once the baseline is complete the degradation stays where it was found, and a
\* recovery that was observed for the whole stability window is never withdrawn.
THEOREM VerdictsAreFinal == RecoverySpec => VerdictsStand
<1>1. ASSUME SeriesTypeOK, [RecoveryNext]_recoveryVars,
             BaselineClosed(series), Report(series).degraded_at # None
      PROVE  /\ Report(series').degraded_at = Report(series).degraded_at
             /\ Report(series).recovered_at # None
                  /\ Report(series).recovered_at + StabilityWindow <= Now(series) =>
                  Report(series').recovered_at = Report(series).recovered_at
  <2>1. CASE UNCHANGED recoveryVars
    BY <2>1 DEF recoveryVars
  <2>2. CASE RecoveryNext
    <3>1. PICK b \in Buckets : series' = Append(series, b)
      BY <2>2 DEF RecoveryNext, NextBucket
    <3>2. QED
      BY <1>1, <3>1, AppendKeepsVerdict DEF SeriesTypeOK
  <2>3. QED
    BY <1>1, <2>1, <2>2
<1>2. SeriesTypeOK /\ [RecoveryNext]_recoveryVars =>
        [LET old == Report(series)  new == Report(series') IN
         BaselineClosed(series) /\ old.degraded_at # None =>
           /\ new.degraded_at = old.degraded_at
           /\ old.recovered_at # None /\ old.recovered_at + StabilityWindow <= Now(series) =>
                new.recovered_at = old.recovered_at]_recoveryVars
  BY <1>1
<1>3. QED
  BY <1>2, SeriesTyped, PTL DEF RecoverySpec, VerdictsStand

\* Before its window is complete a recovery is provisional: it stands or falls with the
\* gates of the bucket that arrives, and is never dated back; whatever the run, the
\* windows and the gates.
THEOREM EarlyRecoveries == RecoverySpec => EarlyRecoveryProvisional
<1> DEFINE Provisional ==
      BaselineClosed(series) /\ Report(series).degraded_at # None =>
        /\ Report(series).recovered_at = None =>
             Report(series').recovered_at \in {None, Now(series')}
        /\ Report(series).recovered_at # None
             /\ Now(series') <= Report(series).recovered_at + StabilityWindow =>
             Report(series').recovered_at =
               IF InBothGates(Baseline(series'), Last(series'))
               THEN Report(series).recovered_at ELSE None
<1>1. ASSUME SeriesTypeOK, RecoveryNext PROVE Provisional
  <2>1. PICK b \in Buckets : series' = Append(series, b)
    BY <1>1 DEF RecoveryNext, NextBucket
  <2>2. first \in Nat /\ series \in Seq(Buckets)
    BY <1>1 DEF SeriesTypeOK
  <2>3. Last(series') = b
    BY <2>1, <2>2 DEF Last
  <2>4. QED
    BY <2>1, <2>2, <2>3, AppendKeepsVerdict
<1>2. SeriesTypeOK /\ [RecoveryNext]_recoveryVars => [Provisional]_recoveryVars
  BY <1>1
<1>3. [Provisional]_recoveryVars <=>
        [LET base == Baseline(series')  old == Report(series)  new == Report(series') IN
         BaselineClosed(series) /\ old.degraded_at # None =>
           /\ old.recovered_at = None => new.recovered_at \in {None, Now(series')}
           /\ old.recovered_at # None /\ Now(series') <= old.recovered_at + StabilityWindow =>
                new.recovered_at =
                  IF InBothGates(base, Last(series')) THEN old.recovered_at
                  ELSE None]_recoveryVars
  BY DEF Provisional
<1> HIDE DEF Provisional
<1>4. QED
  BY <1>2, <1>3, SeriesTyped, PTL DEF RecoverySpec, EarlyRecoveryProvisional

-------------------------------------------------------------------------------
(* 3. Sums                                                                 *)

\* One row more.
Plus(sum, r, kind, id) == IF r.kind = kind /\ r.id = id THEN sum + r.latency ELSE sum

\* it is the function by which SumFor(rows, kind, id) is computed: from sets of
\* positions in rows to sums.
Sums(it, n, rows, kind, id) ==
  it = [T \in SUBSET (1..n) |->
          IF T = {} THEN 0 ELSE Plus(it[T \ {Max(T)}], rows[Max(T)], kind, id)]

LEMMA SumsExist ==
  ASSUME NEW rows, NEW kind, NEW id, NEW n \in Nat
  PROVE  \E it : Sums(it, n, rows, kind, id)
<1> DEFINE S == {k \in Nat : \E it : Sums(it, k, rows, kind, id)}
<1>1. 0 \in S
  <2> DEFINE it == [T \in SUBSET (1..0) |-> 0]
  <2>1. \A T \in SUBSET (1..0) : T = {}
    OBVIOUS
  <2>2. Sums(it, 0, rows, kind, id)
    BY <2>1 DEF Sums
  <2>3. QED
    BY <2>2
<1>2. ASSUME NEW k \in Nat, k \in S PROVE k + 1 \in S
  <2>1. PICK it : Sums(it, k, rows, kind, id)
    BY <1>2
  <2> DEFINE top == k + 1
             jt == [T \in SUBSET (1..top) |->
                      IF top \in T THEN Plus(it[T \ {top}], rows[top], kind, id) ELSE it[T]]
  <2>2. \A T \in SUBSET (1..top) : top \notin T => T \in SUBSET (1..k)
    OBVIOUS
  <2>3. ASSUME NEW T \in SUBSET (1..top)
        PROVE  jt[T] = IF T = {} THEN 0 ELSE Plus(jt[T \ {Max(T)}], rows[Max(T)], kind, id)
    <3>1. CASE top \in T
      <4>1. Max(T) = top
        BY <3>1, MaxTop
      <4>2. jt[T \ {top}] = it[T \ {top}]
        OBVIOUS
      <4>3. QED
        BY <3>1, <4>1, <4>2
    <3>2. CASE top \notin T
      <4>1. jt[T] = it[T]
        BY <3>2
      <4>2. it[T] = IF T = {} THEN 0 ELSE Plus(it[T \ {Max(T)}], rows[Max(T)], kind, id)
        BY <2>1, <2>2, <3>2 DEF Sums
      <4>3. jt[T \ {Max(T)}] = it[T \ {Max(T)}]
        BY <3>2, <2>2
      <4>4. QED
        BY <4>1, <4>2, <4>3
    <3>3. QED
      BY <3>1, <3>2
  <2>4. Sums(jt, top, rows, kind, id)
    BY <2>3 DEF Sums
  <2>5. QED
    <3> HIDE DEF jt
    <3>1. \E it2 : Sums(it2, k + 1, rows, kind, id)
      BY <2>4
    <3>2. QED
      BY <3>1
<1>3. Nat \subseteq S
  BY <1>1, <1>2, InductiveSet
<1>4. QED
  BY <1>3

\* The fold is what such a function gives for all positions.
LEMMA SumForComputed ==
  ASSUME NEW T, NEW rows \in Seq(T), NEW kind, NEW id
  PROVE  \E it : Sums(it, Len(rows), rows, kind, id) /\ SumFor(rows, kind, id) = it[1..Len(rows)]
<1> DEFINE Chosen == CHOOSE it : Sums(it, Len(rows), rows, kind, id)
<1>1. DOMAIN rows = 1..Len(rows) /\ Len(rows) \in Nat
  BY LenProperties
<1>2. Sums(Chosen, Len(rows), rows, kind, id)
  BY <1>1, SumsExist
<1>3. SumFor(rows, kind, id) = Chosen[1..Len(rows)]
  BY <1>1 DEF SumFor, FoldLeft, MapThenFoldSet, Sums, Plus
<1>4. QED
  BY <1>2, <1>3

LEMMA SumsAt ==
  ASSUME NEW rows, NEW kind, NEW id, NEW n \in Nat, NEW it, Sums(it, n, rows, kind, id)
  PROVE  /\ it[1..0] = 0
         /\ \A k \in Nat : k < n => it[1..(k + 1)] = Plus(it[1..k], rows[k + 1], kind, id)
<1>1. it[1..0] = 0
  <2>1. 1..0 = {}
    OBVIOUS
  <2>2. QED
    BY <2>1 DEF Sums
<1>2. ASSUME NEW k \in Nat, k < n
      PROVE  it[1..(k + 1)] = Plus(it[1..k], rows[k + 1], kind, id)
  <2> DEFINE T == 1..(k + 1)
  <2>1. T \in SUBSET (1..n) /\ T # {}
    <3>1. 1 \in T /\ \A i \in T : i \in 1..n
      BY <1>2
    <3>2. QED
      BY <3>1
  <2>2. Max(T) = k + 1
    BY MaxTop
  <2>3. T \ {k + 1} = 1..k
    OBVIOUS
  <2> HIDE DEF T
  <2>4. it[T] = Plus(it[T \ {Max(T)}], rows[Max(T)], kind, id)
    BY <2>1 DEF Sums
  <2>5. QED
    BY <2>2, <2>3, <2>4 DEF T
<1>3. QED
  BY <1>1, <1>2

\* Two such functions agree on the positions both speak of.
LEMMA SumsUnique ==
  ASSUME NEW rows, NEW more, NEW kind, NEW id, NEW m \in Nat, NEW n \in Nat,
         NEW it, Sums(it, m, rows, kind, id), NEW jt, Sums(jt, n, more, kind, id), m <= n,
         \A i \in 1..m : rows[i] = more[i]
  PROVE  it[1..m] = jt[1..m]
<1> DEFINE S == {k \in Nat : k <= m => it[1..k] = jt[1..k]}
<1>0. ASSUME NEW f, NEW k \in Nat, NEW x, Sums(f, k, x, kind, id)
      PROVE  /\ f[1..0] = 0
             /\ \A i \in Nat : i < k => f[1..(i + 1)] = Plus(f[1..i], x[i + 1], kind, id)
  BY ONLY <1>0, SumsAt
<1>1. /\ it[1..0] = 0
      /\ \A k \in Nat : k < m => it[1..(k + 1)] = Plus(it[1..k], rows[k + 1], kind, id)
  BY <1>0
<1>2. /\ jt[1..0] = 0
      /\ \A k \in Nat : k < n => jt[1..(k + 1)] = Plus(jt[1..k], more[k + 1], kind, id)
  BY <1>0
<1>3. 0 \in S
  BY <1>1, <1>2
<1>4. ASSUME NEW k \in Nat, k \in S PROVE k + 1 \in S
  <2>1. SUFFICES ASSUME k + 1 <= m PROVE it[1..(k + 1)] = jt[1..(k + 1)]
    OBVIOUS
  <2>2. it[1..k] = jt[1..k] /\ rows[k + 1] = more[k + 1]
    BY <2>1, <1>4
  <2>3. QED
    BY <2>1, <2>2, <1>1, <1>2
<1>5. Nat \subseteq S
  BY <1>3, <1>4, InductiveSet
<1>6. QED
  BY <1>5

LEMMA SumForEmpty ==
  ASSUME NEW kind, NEW id
  PROVE  SumFor(<<>>, kind, id) = 0
<1> DEFINE none == <<>>
<1>1. none \in Seq(Nat) /\ Len(none) = 0
  BY EmptySeq
<1> HIDE DEF none
<1>2. PICK it : Sums(it, 0, none, kind, id) /\ SumFor(none, kind, id) = it[1..0]
  BY <1>1, SumForComputed
<1>3. 1..0 = {}
  OBVIOUS
<1>4. it[1..0] = 0
  BY <1>2, <1>3 DEF Sums
<1>5. QED
  BY <1>2, <1>4 DEF none

\* One more row is one more addition.
LEMMA SumForAppend ==
  ASSUME NEW T, NEW rows \in Seq(T), NEW r \in T, NEW kind, NEW id
  PROVE  SumFor(Append(rows, r), kind, id) = Plus(SumFor(rows, kind, id), r, kind, id)
<1> DEFINE more == Append(rows, r)
           m == Len(rows)
<1>1. more \in Seq(T) /\ Len(more) = m + 1 /\ m \in Nat
      /\ (\A i \in 1..m : more[i] = rows[i]) /\ more[m + 1] = r
  BY AppendProperties, LenProperties
<1> HIDE DEF more, m
<1>2. PICK it : Sums(it, m, rows, kind, id) /\ SumFor(rows, kind, id) = it[1..m]
  BY SumForComputed DEF m
<1>3. PICK jt : Sums(jt, m + 1, more, kind, id) /\ SumFor(more, kind, id) = jt[1..(m + 1)]
  BY <1>1, SumForComputed
<1>4. it[1..m] = jt[1..m]
  BY <1>1, <1>2, <1>3, SumsUnique
<1>5. jt[1..(m + 1)] = Plus(jt[1..m], r, kind, id)
  <2>1. Sums(jt, m + 1, more, kind, id) /\ m + 1 \in Nat
    BY <1>1, <1>3
  <2>2. \A k \in Nat : k < m + 1 => jt[1..(k + 1)] = Plus(jt[1..k], more[k + 1], kind, id)
    BY ONLY <2>1, SumsAt
  <2>3. QED
    BY <1>1, <2>2
<1>6. QED
  BY <1>2, <1>3, <1>4, <1>5 DEF more

-------------------------------------------------------------------------------
(* 4. Accounts                                                             *)

RecordRows ==
  [kind : {"request", "downstream", "retry", "circuit"}, id : Nat, t : Nat, ok : BOOLEAN,
   latency : Nat, attempt : Nat]

Flights ==
  [id : Nat, at : {"idle", "waiting", "calling", "asleep"}, started : Nat, attempt : Nat, since : Nat]

InFlight(c) == flight[c].at # "idle"

\* The latency that the rows account for.
Parts(rows, id) == SumFor(rows, "downstream", id) + SumFor(rows, "retry", id)

Summed(rows) ==
  \A id \in Nat : SumFor(rows, "downstream", id) \in Nat /\ SumFor(rows, "retry", id) \in Nat

Requests(rows) == {r \in ToSet(rows) : r.kind = "request"}

RecordsTyped ==
  /\ now \in Nat /\ issued \in Nat
  /\ flight \in [Clients -> Flights]
  /\ records \in Seq(RecordRows) /\ Summed(records)

\* Every request in flight has an id of its own, and its rows account for no more than
\* the time up to its present attempt or its arrival at the gate, or up to the end of its
\* sleep.
FlightsAccounted ==
  \A c \in Clients : InFlight(c) =>
    /\ flight[c].id \in 1..issued
    /\ \A d \in Clients : d # c /\ InFlight(d) => flight[d].id # flight[c].id
    /\ flight[c].started <= flight[c].since
    /\ flight[c].at # "asleep" => flight[c].since <= now
    /\ Parts(records, flight[c].id) <= flight[c].since - flight[c].started

NothingBeforeIssue == \A id \in Nat : id > issued => Parts(records, id) = 0

\* An answered request is over, and its rows account for no more than its latency.
AnsweredAccounted ==
  \A r \in Requests(records) :
    /\ r.id \in 1..issued
    /\ \A c \in Clients : InFlight(c) => flight[c].id # r.id
    /\ Parts(records, r.id) <= r.latency

AccountInv == RecordsTyped /\ FlightsAccounted /\ NothingBeforeIssue /\ AnsweredAccounted

\* Rows that add d to the account of id, and to no other.
Adds(more, rows, id, d) ==
  /\ more \in Seq(RecordRows) /\ Summed(more)
  /\ \A i \in Nat : Parts(more, i) = IF i = id THEN Parts(rows, i) + d ELSE Parts(rows, i)

LEMMA PartsNatural ==
  ASSUME NEW rows, Summed(rows), NEW id \in Nat
  PROVE  Parts(rows, id) \in Nat /\ Parts(rows, id) + 0 = Parts(rows, id)
<1>1. SumFor(rows, "downstream", id) \in Nat /\ SumFor(rows, "retry", id) \in Nat
  BY DEF Summed
<1>2. Parts(rows, id) \in Nat
  BY <1>1 DEF Parts
<1>3. QED
  BY <1>2

LEMMA ToSetAppend ==
  ASSUME NEW T, NEW rows \in Seq(T), NEW r \in T
  PROVE  ToSet(Append(rows, r)) = ToSet(rows) \union {r}
<1> DEFINE more == Append(rows, r)
<1>1. /\ Len(rows) \in Nat /\ Len(more) = Len(rows) + 1
      /\ DOMAIN rows = 1..Len(rows) /\ DOMAIN more = 1..Len(more)
      /\ (\A i \in 1..Len(rows) : more[i] = rows[i]) /\ more[Len(rows) + 1] = r
  BY AppendProperties, LenProperties
<1> HIDE DEF more
<1>2. DOMAIN more = DOMAIN rows \union {Len(rows) + 1}
  BY <1>1
<1>3. ToSet(more) = ToSet(rows) \union {r}
  BY <1>1, <1>2 DEF ToSet
<1>4. QED
  BY <1>3 DEF more

\* What one more row does to the accounts.
LEMMA RowAdds ==
  ASSUME NEW rows \in Seq(RecordRows), Summed(rows), NEW r \in RecordRows
  PROVE  /\ r.kind \in {"request", "circuit"} => Adds(Append(rows, r), rows, r.id, 0)
         /\ r.kind \in {"downstream", "retry"} => Adds(Append(rows, r), rows, r.id, r.latency)
         /\ Requests(Append(rows, r)) = IF r.kind = "request" THEN Requests(rows) \union {r}
                                        ELSE Requests(rows)
<1> DEFINE more == Append(rows, r)
<1>1. more \in Seq(RecordRows)
  BY AppendProperties
<1>2. \A kind, id : SumFor(more, kind, id) = Plus(SumFor(rows, kind, id), r, kind, id)
  BY SumForAppend
<1>3. ToSet(more) = ToSet(rows) \union {r}
  BY ToSetAppend
<1>4. r.latency \in Nat /\ r.id \in Nat
  BY DEF RecordRows
<1> HIDE DEF more
<1>5. Requests(more) = IF r.kind = "request" THEN Requests(rows) \union {r} ELSE Requests(rows)
  BY <1>3 DEF Requests
<1>6. ASSUME NEW i \in Nat
      PROVE  /\ SumFor(more, "downstream", i) \in Nat /\ SumFor(more, "retry", i) \in Nat
             /\ r.kind \in {"request", "circuit"} => Parts(more, i) = Parts(rows, i)
             /\ r.kind \in {"downstream", "retry"} =>
                  Parts(more, i) = IF i = r.id THEN Parts(rows, i) + r.latency ELSE Parts(rows, i)
  <2>1. SumFor(rows, "downstream", i) \in Nat /\ SumFor(rows, "retry", i) \in Nat
    BY DEF Summed
  <2>2. /\ SumFor(more, "downstream", i) = Plus(SumFor(rows, "downstream", i), r, "downstream", i)
        /\ SumFor(more, "retry", i) = Plus(SumFor(rows, "retry", i), r, "retry", i)
    BY <1>2
  <2>3. CASE r.id # i \/ r.kind \in {"request", "circuit"}
    <3>1. /\ SumFor(more, "downstream", i) = SumFor(rows, "downstream", i)
          /\ SumFor(more, "retry", i) = SumFor(rows, "retry", i)
      BY <2>2, <2>3 DEF Plus
    <3>2. QED
      BY <2>1, <2>3, <3>1 DEF Parts
  <2>4. CASE r.id = i /\ r.kind = "downstream"
    <3>1. /\ SumFor(more, "downstream", i) = SumFor(rows, "downstream", i) + r.latency
          /\ SumFor(more, "retry", i) = SumFor(rows, "retry", i)
      BY <2>2, <2>4 DEF Plus
    <3>2. QED
      BY <1>4, <2>1, <2>4, <3>1 DEF Parts
  <2>5. CASE r.id = i /\ r.kind = "retry"
    <3>1. /\ SumFor(more, "downstream", i) = SumFor(rows, "downstream", i)
          /\ SumFor(more, "retry", i) = SumFor(rows, "retry", i) + r.latency
      BY <2>2, <2>5 DEF Plus
    <3>2. QED
      BY <1>4, <2>1, <2>5, <3>1 DEF Parts
  <2>6. QED
    BY <2>3, <2>4, <2>5 DEF RecordRows
<1>7. Summed(more)
  BY <1>6 DEF Summed
<1>8. \A i \in Nat : Parts(rows, i) + 0 = Parts(rows, i)
  BY PartsNatural
<1>9. ASSUME r.kind \in {"request", "circuit"} PROVE Adds(more, rows, r.id, 0)
  <2>1. \A i \in Nat : Parts(more, i) = Parts(rows, i)
    BY <1>6, <1>9
  <2>2. \A i \in Nat : Parts(more, i) = IF i = r.id THEN Parts(rows, i) + 0 ELSE Parts(rows, i)
    BY <1>8, <2>1
  <2>3. QED
    BY <1>1, <1>7, <2>2 DEF Adds
<1>10. ASSUME r.kind \in {"downstream", "retry"} PROVE Adds(more, rows, r.id, r.latency)
  <2>1. \A i \in Nat : Parts(more, i) = IF i = r.id THEN Parts(rows, i) + r.latency
                                        ELSE Parts(rows, i)
    BY <1>6, <1>10
  <2>2. QED
    BY <1>1, <1>7, <2>1 DEF Adds
<1>11. QED
  BY <1>5, <1>9, <1>10 DEF more

LEMMA AddsTwice ==
  ASSUME NEW a, NEW b, NEW c, NEW id, NEW d \in Nat, NEW e \in Nat, Summed(a),
         Adds(b, a, id, d), Adds(c, b, id, e)
  PROVE  Adds(c, a, id, d + e)
<1>1. \A i \in Nat : Parts(a, i) \in Nat
  BY PartsNatural
<1>2. ASSUME NEW i \in Nat
      PROVE  Parts(c, i) = IF i = id THEN Parts(a, i) + (d + e) ELSE Parts(a, i)
  <2>1. CASE i = id
    <3>1. Parts(b, i) = Parts(a, i) + d /\ Parts(c, i) = Parts(b, i) + e
      BY <2>1 DEF Adds
    <3>2. QED
      BY <1>1, <2>1, <3>1
  <2>2. CASE i # id
    BY <2>2 DEF Adds
  <2>3. QED
    BY <2>1, <2>2
<1>3. QED
  BY <1>2 DEF Adds

LEMMA CircuitRowsAdd ==
  ASSUME now \in Nat, NEW rows \in Seq(RecordRows), Summed(rows), NEW new, NEW id \in Nat
  PROVE  /\ CircuitRows(new) \in Seq(RecordRows)
         /\ Adds(rows \o CircuitRows(new), rows, id, 0)
         /\ Requests(rows \o CircuitRows(new)) = Requests(rows)
<1> DEFINE r == Row("circuit", 0, FALSE, 0, 0)
<1>1. r \in RecordRows /\ r.kind = "circuit" /\ r.id = 0
  BY DEF Row, RecordRows
<1>2. CircuitRows(new) = IF new = circuit THEN <<>> ELSE <<r>>
  BY DEF CircuitRows
<1> HIDE DEF r
<1>3. <<r>> \in Seq(RecordRows) /\ <<>> \in Seq(RecordRows)
  BY <1>1, EmptySeq
<1>4. \A i \in Nat : Parts(rows, i) + 0 = Parts(rows, i)
  BY PartsNatural
<1>5. CASE new # circuit
  <2>1. rows \o CircuitRows(new) = Append(rows, r)
    BY <1>1, <1>5, <1>2, AppendIsConcat
  <2>2. Adds(Append(rows, r), rows, 0, 0) /\ Requests(Append(rows, r)) = Requests(rows)
    BY <1>1, RowAdds
  <2>3. \A i \in Nat : Parts(Append(rows, r), i) = Parts(rows, i)
    BY <1>4, <2>2 DEF Adds
  <2>4. Adds(Append(rows, r), rows, id, 0)
    BY <1>4, <2>2, <2>3 DEF Adds
  <2>5. QED
    BY <1>3, <1>5, <1>2, <2>1, <2>2, <2>4
<1>6. CASE new = circuit
  <2>1. CircuitRows(new) = <<>>
    BY <1>6, <1>2
  <2>2. rows \o CircuitRows(new) = rows
    BY <2>1, ConcatEmptySeq
  <2>3. Adds(rows, rows, id, 0)
    BY <1>4 DEF Adds
  <2>4. QED
    BY <1>3, <2>1, <2>2, <2>3
<1>7. QED
  BY <1>5, <1>6

\* The rows of an attempt, which may have moved the circuit.
LEMMA AttemptAdds ==
  ASSUME now \in Nat, NEW rows \in Seq(RecordRows), Summed(rows), NEW new,
         NEW a \in RecordRows, a.kind = "downstream"
  PROVE  /\ Append(rows \o CircuitRows(new), a) = (rows \o CircuitRows(new)) \o <<a>>
         /\ rows \o (CircuitRows(new) \o <<a>>) = (rows \o CircuitRows(new)) \o <<a>>
         /\ Adds(Append(rows \o CircuitRows(new), a), rows, a.id, a.latency)
         /\ Requests(Append(rows \o CircuitRows(new), a)) = Requests(rows)
<1> DEFINE mid == rows \o CircuitRows(new)
<1>1. a.id \in Nat /\ a.latency \in Nat
  BY DEF RecordRows
<1>2. /\ CircuitRows(new) \in Seq(RecordRows)
      /\ Adds(mid, rows, a.id, 0) /\ Requests(mid) = Requests(rows)
  BY <1>1, CircuitRowsAdd
<1>3. mid \in Seq(RecordRows) /\ Summed(mid)
  BY <1>2 DEF Adds
<1> DEFINE more == Append(mid, a)
<1>4. more = mid \o <<a>>
  BY <1>3, AppendIsConcat
<1>5. <<a>> \in Seq(RecordRows)
  OBVIOUS
<1>6. rows \o (CircuitRows(new) \o <<a>>) = mid \o <<a>>
  BY <1>2, <1>5, ConcatAssociative
<1> HIDE DEF mid
<1>7. Adds(more, mid, a.id, a.latency) /\ Requests(more) = Requests(mid)
  BY <1>3, RowAdds
<1> HIDE DEF more
<1>8. Adds(more, rows, a.id, 0 + a.latency)
  BY <1>1, <1>2, <1>7, AddsTwice
<1>9. 0 + a.latency = a.latency
  BY <1>1
<1>10. QED
  BY <1>2, <1>4, <1>6, <1>7, <1>8, <1>9 DEF mid, more

\* The request is answered after rows that account for no more than its latency.
LEMMA AnswerAccounts ==
  ASSUME AccountInv, NEW c \in Clients, InFlight(c), NEW rows, NEW d \in Nat, NEW ok \in BOOLEAN,
         Adds(rows, records, flight[c].id, d), Requests(rows) = Requests(records),
         flight[c].since + d <= now,
         records' = Append(rows, Row("request", flight[c].id, ok, now - flight[c].started, 0)),
         flight' = [flight EXCEPT ![c] = NoFlight], UNCHANGED <<now, issued>>
  PROVE  AccountInv'
<1> DEFINE f == flight[c]
           r == Row("request", f.id, ok, now - f.started, 0)
<1>1. /\ f \in Flights /\ f.id \in 1..issued
      /\ f.id \in Nat /\ f.started \in Nat /\ f.since \in Nat
      /\ f.started <= f.since /\ Parts(records, f.id) <= f.since - f.started
      /\ now \in Nat /\ issued \in Nat /\ Summed(records)
      /\ \A u \in Clients : u # c /\ InFlight(u) => flight[u].id # f.id
  <2>1. f \in Flights /\ now \in Nat /\ issued \in Nat /\ Summed(records)
    BY DEF AccountInv, RecordsTyped
  <2>2. f.id \in Nat /\ f.started \in Nat /\ f.since \in Nat
    BY <2>1 DEF Flights
  <2>3. QED
    BY <2>1, <2>2 DEF AccountInv, FlightsAccounted
<1>2. r \in RecordRows /\ r.kind = "request" /\ r.id = f.id /\ r.latency = now - f.started
  <2>1. now - f.started \in Nat
    BY <1>1
  <2>2. QED
    BY <1>1, <2>1 DEF Row, RecordRows
<1>3. rows \in Seq(RecordRows) /\ Summed(rows)
  BY DEF Adds
<1>4. records' = Append(rows, r)
  OBVIOUS
<1> HIDE DEF r
<1>5. Adds(records', rows, f.id, 0) /\ Requests(records') = Requests(records) \union {r}
  BY <1>2, <1>3, <1>4, RowAdds
<1>6. Adds(records', records, f.id, d + 0)
  BY <1>1, <1>5, AddsTwice
<1>7. d + 0 = d
  OBVIOUS
<1>8. /\ records' \in Seq(RecordRows) /\ Summed(records')
      /\ \A i \in Nat : i # f.id => Parts(records', i) = Parts(records, i)
      /\ Parts(records', f.id) = Parts(records, f.id) + d
  BY <1>1, <1>6, <1>7 DEF Adds
<1>9. \A u \in Clients : /\ flight'[u].at # "idle" => u # c /\ flight'[u] = flight[u]
                         /\ u = c => flight'[u] = NoFlight
  BY DEF AccountInv, RecordsTyped, NoFlight
<1>10. RecordsTyped'
  <2>1. NoFlight \in Flights
    BY DEF NoFlight, Flights
  <2>2. flight' \in [Clients -> Flights]
    BY <2>1 DEF AccountInv, RecordsTyped
  <2>3. QED
    BY <1>1, <1>8, <2>2 DEF RecordsTyped
<1>11. FlightsAccounted'
  <2>1. SUFFICES ASSUME NEW u \in Clients, flight'[u].at # "idle"
                 PROVE  /\ flight'[u].id \in 1..issued
                        /\ \A v \in Clients : v # u /\ flight'[v].at # "idle" =>
                             flight'[v].id # flight'[u].id
                        /\ flight'[u].started <= flight'[u].since
                        /\ flight'[u].at # "asleep" => flight'[u].since <= now
                        /\ Parts(records', flight'[u].id) <= flight'[u].since - flight'[u].started
    BY DEF FlightsAccounted, InFlight
  <2>2. /\ u # c /\ flight'[u] = flight[u] /\ InFlight(u)
        /\ flight[u].id \in Nat /\ flight[u].id # f.id
    BY <1>1, <1>9, <2>1 DEF InFlight, AccountInv, RecordsTyped, Flights
  <2>3. Parts(records', flight[u].id) = Parts(records, flight[u].id)
    BY <1>8, <2>2
  <2>4. QED
    BY <1>9, <2>2, <2>3 DEF AccountInv, FlightsAccounted, InFlight
<1>12. NothingBeforeIssue'
  BY <1>1, <1>8 DEF AccountInv, NothingBeforeIssue
<1>13. AnsweredAccounted'
  <2>1. SUFFICES ASSUME NEW q \in Requests(records')
                 PROVE  /\ q.id \in 1..issued
                        /\ \A u \in Clients : flight'[u].at # "idle" => flight'[u].id # q.id
                        /\ Parts(records', q.id) <= q.latency
    BY DEF AnsweredAccounted, InFlight
  <2>2. CASE q = r
    <3>1. \A u \in Clients : flight'[u].at # "idle" => flight'[u].id # q.id
      BY <1>1, <1>2, <1>9, <2>2 DEF InFlight
    <3>2. Parts(records, f.id) \in Nat
      BY <1>1, PartsNatural
    <3>3. Parts(records', q.id) <= q.latency
      BY <1>1, <1>2, <1>8, <2>2, <3>2
    <3>4. QED
      BY <1>1, <1>2, <2>2, <3>1, <3>3
  <2>3. CASE q \in Requests(records)
    <3>1. /\ q.id \in 1..issued /\ Parts(records, q.id) <= q.latency
          /\ \A u \in Clients : InFlight(u) => flight[u].id # q.id
      BY <2>3 DEF AccountInv, AnsweredAccounted
    <3>2. q.id \in Nat /\ q.id # f.id
      BY <1>1, <3>1
    <3>3. QED
      BY <1>8, <1>9, <3>1, <3>2 DEF InFlight
  <2>4. QED
    BY <1>5, <2>2, <2>3
<1>14. QED
  BY <1>10, <1>11, <1>12, <1>13 DEF AccountInv

\* The request of c goes on after rows that account for no more than the time up to
\* its next attempt.
LEMMA FlightAccounts ==
  ASSUME AccountInv, NEW c \in Clients, InFlight(c), NEW d \in Nat, NEW f \in Flights,
         f.id = flight[c].id, f.started = flight[c].started, f.at # "idle",
         flight[c].since + d <= f.since, f.at # "asleep" => f.since <= now,
         Adds(records', records, f.id, d), Requests(records') = Requests(records),
         flight' = [flight EXCEPT ![c] = f], UNCHANGED <<now, issued>>
  PROVE  AccountInv'
<1>1. /\ flight[c] \in Flights /\ f.id \in 1..issued /\ f.id \in Nat /\ f.started \in Nat
      /\ flight[c].since \in Nat /\ f.since \in Nat
      /\ f.started <= flight[c].since
      /\ Parts(records, f.id) <= flight[c].since - f.started
      /\ now \in Nat /\ issued \in Nat /\ Summed(records)
      /\ \A u \in Clients : u # c /\ InFlight(u) => flight[u].id # f.id
  <2>1. flight[c] \in Flights /\ now \in Nat /\ issued \in Nat /\ Summed(records)
    BY DEF AccountInv, RecordsTyped
  <2>2. f.id \in Nat /\ f.started \in Nat /\ flight[c].since \in Nat /\ f.since \in Nat
    BY <2>1 DEF Flights
  <2>3. QED
    BY <2>1, <2>2 DEF AccountInv, FlightsAccounted
<1>2. /\ records' \in Seq(RecordRows) /\ Summed(records')
      /\ \A i \in Nat : i # f.id => Parts(records', i) = Parts(records, i)
      /\ Parts(records', f.id) = Parts(records, f.id) + d
  BY <1>1 DEF Adds
<1>3. flight'[c] = f /\ \A u \in Clients : u # c => flight'[u] = flight[u]
  BY DEF AccountInv, RecordsTyped
<1>4. Parts(records, f.id) \in Nat
  BY <1>1, PartsNatural
<1>5. RecordsTyped'
  <2>1. flight' \in [Clients -> Flights]
    BY DEF AccountInv, RecordsTyped
  <2>2. QED
    BY <1>1, <1>2, <2>1 DEF RecordsTyped
<1>6. FlightsAccounted'
  <2>1. SUFFICES ASSUME NEW u \in Clients, flight'[u].at # "idle"
                 PROVE  /\ flight'[u].id \in 1..issued
                        /\ \A v \in Clients : v # u /\ flight'[v].at # "idle" =>
                             flight'[v].id # flight'[u].id
                        /\ flight'[u].started <= flight'[u].since
                        /\ flight'[u].at # "asleep" => flight'[u].since <= now
                        /\ Parts(records', flight'[u].id) <= flight'[u].since - flight'[u].started
    BY DEF FlightsAccounted, InFlight
  <2>2. CASE u = c
    <3>1. f.started <= f.since
      BY <1>1
    <3>2. Parts(records', f.id) <= f.since - f.started
      BY <1>1, <1>2, <1>4
    <3>3. \A v \in Clients : v # c /\ flight'[v].at # "idle" => flight'[v].id # f.id
      BY <1>1, <1>3 DEF InFlight
    <3>4. QED
      BY <1>1, <1>3, <2>2, <3>1, <3>2, <3>3
  <2>3. CASE u # c
    <3>1. flight'[u] = flight[u] /\ InFlight(u) /\ flight[u].id \in Nat /\ flight[u].id # f.id
      BY <1>1, <1>3, <2>1, <2>3 DEF InFlight, AccountInv, RecordsTyped, Flights
    <3>2. Parts(records', flight[u].id) = Parts(records, flight[u].id)
      BY <1>2, <3>1
    <3>3. \A v \in Clients : v # u /\ flight'[v].at # "idle" => flight'[v].id # flight[u].id
      <4>1. \A v \in Clients : v # u /\ InFlight(v) => flight[v].id # flight[u].id
        BY <3>1 DEF AccountInv, FlightsAccounted
      <4>2. QED
        BY <1>3, <3>1, <4>1 DEF InFlight
    <3>4. QED
      BY <3>1, <3>2, <3>3 DEF AccountInv, FlightsAccounted
  <2>4. QED
    BY <2>2, <2>3
<1>7. NothingBeforeIssue'
  BY <1>1, <1>2 DEF AccountInv, NothingBeforeIssue
<1>8. AnsweredAccounted'
  <2>1. SUFFICES ASSUME NEW q \in Requests(records)
                 PROVE  /\ q.id \in 1..issued
                        /\ \A u \in Clients : flight'[u].at # "idle" => flight'[u].id # q.id
                        /\ Parts(records', q.id) <= q.latency
    BY DEF AnsweredAccounted, InFlight
  <2>2. /\ q.id \in 1..issued /\ Parts(records, q.id) <= q.latency
        /\ \A u \in Clients : InFlight(u) => flight[u].id # q.id
    BY DEF AccountInv, AnsweredAccounted
  <2>3. q.id \in Nat /\ q.id # f.id
    BY <1>1, <2>2
  <2>4. QED
    BY <1>2, <1>3, <2>2, <2>3 DEF InFlight
<1>9. QED
  BY <1>5, <1>6, <1>7, <1>8 DEF AccountInv

LEMMA NothingAdded ==
  ASSUME AccountInv, NEW id \in Nat
  PROVE  Adds(records, records, id, 0)
<1>1. \A i \in Nat : Parts(records, i) + 0 = Parts(records, i)
  BY PartsNatural DEF AccountInv, RecordsTyped
<1>2. QED
  BY <1>1 DEF Adds, AccountInv, RecordsTyped

LEMMA TickKeeps ==
  ASSUME AccountInv, Tick
  PROVE  AccountInv'
<1>1. now' = now + 1 /\ now \in Nat /\ flight' = flight /\ issued' = issued /\ records' = records
  BY DEF Tick, AccountInv, RecordsTyped
<1>2. RecordsTyped'
  BY <1>1 DEF AccountInv, RecordsTyped
<1>3. FlightsAccounted'
  <2>1. SUFFICES ASSUME NEW u \in Clients, InFlight(u)
                 PROVE  flight[u].at # "asleep" => flight[u].since <= now + 1
    BY <1>1 DEF AccountInv, FlightsAccounted, InFlight
  <2>2. flight[u].since \in Nat
    BY DEF AccountInv, RecordsTyped, Flights
  <2>3. QED
    BY <1>1, <2>1, <2>2 DEF AccountInv, FlightsAccounted
<1>4. NothingBeforeIssue' /\ AnsweredAccounted'
  BY <1>1 DEF AccountInv, NothingBeforeIssue, AnsweredAccounted, InFlight
<1>5. QED
  BY <1>2, <1>3, <1>4 DEF AccountInv

\* A new request has an id that no row has.
LEMMA IssueKeeps ==
  ASSUME AccountInv, NEW c \in Clients, Issue(c)
  PROVE  AccountInv'
<1> DEFINE f == [id |-> issued + 1, at |-> "waiting", started |-> now, attempt |-> 0,
                 since |-> now]
<1>1. /\ flight' = [flight EXCEPT ![c] = f] /\ issued' = issued + 1 /\ now' = now
      /\ records' = records /\ flight[c].at = "idle"
  BY DEF Issue
<1>2. now \in Nat /\ issued \in Nat /\ flight \in [Clients -> Flights]
  BY DEF AccountInv, RecordsTyped
<1>3. /\ f \in Flights /\ f.id = issued + 1
      /\ f.at = "waiting" /\ f.since = now /\ f.started = now
  BY <1>2 DEF Flights
<1> HIDE DEF f
<1>4. flight'[c] = f /\ \A u \in Clients : u # c => flight'[u] = flight[u]
  BY <1>1, <1>2
<1>5. RecordsTyped'
  BY <1>1, <1>2, <1>3 DEF AccountInv, RecordsTyped
<1>6. Parts(records, issued + 1) = 0
  BY <1>2 DEF AccountInv, NothingBeforeIssue
<1>7. \A u \in Clients : InFlight(u) =>
        u # c /\ flight[u].id \in 1..issued /\ flight[u].id # issued + 1
  BY <1>1, <1>2 DEF AccountInv, FlightsAccounted, InFlight
<1>8. FlightsAccounted'
  <2>1. SUFFICES ASSUME NEW u \in Clients, flight'[u].at # "idle"
                 PROVE  /\ flight'[u].id \in 1..(issued + 1)
                        /\ \A v \in Clients : v # u /\ flight'[v].at # "idle" =>
                             flight'[v].id # flight'[u].id
                        /\ flight'[u].started <= flight'[u].since
                        /\ flight'[u].at # "asleep" => flight'[u].since <= now
                        /\ Parts(records, flight'[u].id) <= flight'[u].since - flight'[u].started
    BY <1>1 DEF FlightsAccounted, InFlight
  <2>2. CASE u = c
    <3>1. \A v \in Clients : v # c /\ flight'[v].at # "idle" => flight'[v].id # issued + 1
      BY <1>4, <1>7 DEF InFlight
    <3>2. now <= now /\ 0 <= now - now /\ issued + 1 \in 1..(issued + 1)
      BY <1>2
    <3>3. QED
      BY <1>3, <1>4, <1>6, <2>2, <3>1, <3>2
  <2>3. CASE u # c
    <3>1. flight'[u] = flight[u] /\ InFlight(u)
      BY <1>4, <2>1, <2>3 DEF InFlight
    <3>2. flight[u].id \in 1..(issued + 1) /\ flight[u].id # issued + 1
      BY <1>2, <1>7, <3>1
    <3>3. \A v \in Clients : v # u /\ flight'[v].at # "idle" => flight'[v].id # flight[u].id
      <4>1. \A v \in Clients : v # u /\ InFlight(v) => flight[v].id # flight[u].id
        BY <3>1 DEF AccountInv, FlightsAccounted
      <4>2. QED
        BY <1>3, <1>4, <3>2, <4>1 DEF InFlight
    <3>4. QED
      BY <3>1, <3>2, <3>3 DEF AccountInv, FlightsAccounted
  <2>4. QED
    BY <2>2, <2>3
<1>9. NothingBeforeIssue'
  BY <1>1, <1>2 DEF AccountInv, NothingBeforeIssue
<1>10. AnsweredAccounted'
  <2>1. SUFFICES ASSUME NEW q \in Requests(records)
                 PROVE  /\ q.id \in 1..(issued + 1)
                        /\ \A u \in Clients : flight'[u].at # "idle" => flight'[u].id # q.id
                        /\ Parts(records, q.id) <= q.latency
    BY <1>1 DEF AnsweredAccounted, InFlight
  <2>2. /\ q.id \in 1..issued /\ Parts(records, q.id) <= q.latency
        /\ \A u \in Clients : InFlight(u) => flight[u].id # q.id
    BY DEF AccountInv, AnsweredAccounted
  <2>3. q.id \in 1..(issued + 1) /\ q.id # issued + 1
    BY <1>2, <2>2
  <2>4. QED
    BY <1>3, <1>4, <2>2, <2>3 DEF InFlight
<1>11. QED
  BY <1>5, <1>8, <1>9, <1>10 DEF AccountInv

\* Of a request in flight.
LEMMA FlightFacts ==
  ASSUME AccountInv, NEW c \in Clients, flight[c].at = "calling"
  PROVE  /\ now \in Nat /\ records \in Seq(RecordRows) /\ Summed(records)
         /\ InFlight(c) /\ flight[c] \in Flights /\ flight[c].id \in Nat
         /\ flight[c].since \in Nat /\ flight[c].since <= now /\ now - flight[c].since \in Nat
         /\ \A ok \in BOOLEAN : /\ Attempt(c, ok) \in RecordRows
                                /\ Attempt(c, ok).kind = "downstream"
                                /\ Attempt(c, ok).id = flight[c].id
                                /\ Attempt(c, ok).latency = now - flight[c].since
<1>1. /\ now \in Nat /\ records \in Seq(RecordRows) /\ Summed(records)
      /\ InFlight(c) /\ flight[c] \in Flights
  BY DEF AccountInv, RecordsTyped, InFlight
<1>2. flight[c].id \in Nat /\ flight[c].since \in Nat /\ flight[c].attempt \in Nat
  BY <1>1 DEF Flights
<1>3. flight[c].since <= now
  BY <1>1 DEF AccountInv, FlightsAccounted
<1>4. now - flight[c].since \in Nat
  BY <1>1, <1>2, <1>3
<1>5. QED
  BY <1>1, <1>2, <1>3, <1>4 DEF Attempt, Row, RecordRows

LEMMA PairAppended ==
  ASSUME NEW a \in RecordRows, NEW b \in RecordRows
  PROVE  Append(<<a>>, b) = <<a, b>>
<1> DEFINE s == Append(<<a>>, b)
           t == <<a, b>>
<1>1. <<a>> \in Seq(RecordRows) /\ Len(<<a>>) = 1 /\ <<a>>[1] = a
  OBVIOUS
<1>2. s \in Seq(RecordRows) /\ Len(s) = 2 /\ s[1] = a /\ s[2] = b
  BY <1>1, AppendProperties
<1>3. t \in Seq(RecordRows) /\ Len(t) = 2 /\ t[1] = a /\ t[2] = b
  OBVIOUS
<1> HIDE DEF s, t
<1>4. \A i \in 1..Len(s) : s[i] = t[i]
  BY <1>2, <1>3
<1>5. s = t
  BY <1>2, <1>3, <1>4, SeqEqual
<1>6. QED
  BY <1>5 DEF s, t

\* The row of an answer is appended to the rows of its last attempt.
LEMMA AnswerRow ==
  ASSUME AccountInv, NEW c \in Clients, InFlight(c), flight[c].started <= now,
         NEW rows \in Seq(RecordRows), NEW ok \in BOOLEAN
  PROVE  rows \o <<Row("request", flight[c].id, ok, now - flight[c].started, 0)>>
           = Append(rows, Row("request", flight[c].id, ok, now - flight[c].started, 0))
<1> DEFINE q == Row("request", flight[c].id, ok, now - flight[c].started, 0)
<1>1. flight[c].id \in Nat /\ flight[c].started \in Nat /\ now \in Nat
  BY DEF AccountInv, RecordsTyped, Flights
<1>2. now - flight[c].started \in Nat
  BY <1>1
<1>3. q \in RecordRows
  BY <1>1, <1>2 DEF Row, RecordRows
<1> HIDE DEF q
<1>4. rows \o <<q>> = Append(rows, q)
  BY <1>3, AppendIsConcat
<1>5. QED
  BY <1>4 DEF q

\* The last attempt of a request, and its answer.
LEMMA LastAttemptKeeps ==
  ASSUME AccountInv, NEW c \in Clients, NEW ok \in BOOLEAN, NEW new, LastAttempt(c, ok, new)
  PROVE  AccountInv'
<1> DEFINE a == Attempt(c, ok)
           rows == Append(records \o CircuitRows(new), a)
<1>1. flight[c].at = "calling" /\ Answer(c, ok, CircuitRows(new) \o <<a>>)
  BY DEF LastAttempt
<1>2. /\ now \in Nat /\ records \in Seq(RecordRows) /\ Summed(records) /\ InFlight(c)
      /\ flight[c].id \in Nat /\ now - flight[c].since \in Nat /\ flight[c].since \in Nat
      /\ a \in RecordRows /\ a.kind = "downstream" /\ a.id = flight[c].id
      /\ a.latency = now - flight[c].since
  BY <1>1, FlightFacts
<1> HIDE DEF a
<1>3. /\ Adds(rows, records, flight[c].id, now - flight[c].since)
      /\ Requests(rows) = Requests(records)
      /\ rows = records \o (CircuitRows(new) \o <<a>>)
  BY <1>2, AttemptAdds
<1>4. rows \in Seq(RecordRows)
  BY <1>3 DEF Adds
<1> HIDE DEF rows
<1>5. flight[c].started <= now
  BY <1>1, <1>2, FlightFacts DEF AccountInv, RecordsTyped, Flights, FlightsAccounted
<1>6. /\ records' = rows \o <<Row("request", flight[c].id, ok, now - flight[c].started, 0)>>
      /\ flight' = [flight EXCEPT ![c] = NoFlight] /\ UNCHANGED <<now, issued>>
  BY <1>1, <1>3 DEF Answer
<1>7. records' = Append(rows, Row("request", flight[c].id, ok, now - flight[c].started, 0))
  BY <1>2, <1>4, <1>5, <1>6, AnswerRow
<1>8. flight[c].since + (now - flight[c].since) <= now
  BY <1>2
<1>9. QED
  BY <1>2, <1>3, <1>6, <1>7, <1>8, AnswerAccounts

\* The delay that is recorded is the one that is slept.
LEMMA RetryKeeps ==
  ASSUME AccountInv, NEW c \in Clients, NEW delay \in Delays, NEW new,
         RetryLater(c, delay, new)
  PROVE  AccountInv'
<1> DEFINE a == Attempt(c, FALSE)
           mid == Append(records \o CircuitRows(new), a)
           slept == Min({delay, Remaining(c)})
           q == Row("retry", flight[c].id, FALSE, slept, 0)
           rows == Append(mid, q)
           f == [flight[c] EXCEPT !.at = "asleep", !.since = now + slept]
<1>1. /\ flight[c].at = "calling" /\ Remaining(c) > 0
      /\ records' = records \o CircuitRows(new) \o <<a, q>>
      /\ flight' = [flight EXCEPT ![c].at = "asleep", ![c].since = now + slept]
      /\ UNCHANGED <<now, issued>>
  BY DEF RetryLater
<1>2. /\ now \in Nat /\ records \in Seq(RecordRows) /\ Summed(records) /\ InFlight(c)
      /\ flight[c] \in Flights
      /\ flight[c].id \in Nat /\ now - flight[c].since \in Nat /\ flight[c].since \in Nat
      /\ a \in RecordRows /\ a.kind = "downstream" /\ a.id = flight[c].id
      /\ a.latency = now - flight[c].since
  BY <1>1, FlightFacts
<1>3. slept \in Nat
  <2>1. flight[c].started \in Nat /\ delay \in Nat /\ Deadline \in Nat
    BY <1>2, RecordsAssumption DEF Flights
  <2>2. Remaining(c) \in Nat
    BY <1>1, <1>2, <2>1 DEF Remaining
  <2>3. QED
    BY <2>1, <2>2, MinOfTwo
<1> HIDE DEF a, slept
<1>4. q \in RecordRows /\ q.kind = "retry" /\ q.id = flight[c].id /\ q.latency = slept
  BY <1>2, <1>3 DEF Row, RecordRows
<1> HIDE DEF q
<1>5. /\ Adds(mid, records, flight[c].id, now - flight[c].since)
      /\ Requests(mid) = Requests(records)
      /\ mid = (records \o CircuitRows(new)) \o <<a>>
  BY <1>2, AttemptAdds
<1>6. mid \in Seq(RecordRows) /\ Summed(mid)
  BY <1>5 DEF Adds
<1>7. CircuitRows(new) \in Seq(RecordRows) /\ records \o CircuitRows(new) \in Seq(RecordRows)
  BY <1>2, CircuitRowsAdd, ConcatProperties
<1> HIDE DEF mid
<1>8. Adds(rows, mid, flight[c].id, slept) /\ Requests(rows) = Requests(mid)
  BY <1>4, <1>6, RowAdds
<1>9. rows = mid \o <<q>>
  BY <1>4, <1>6, AppendIsConcat
<1> HIDE DEF rows
<1>10. rows = records'
  <2>1. <<a>> \in Seq(RecordRows) /\ <<q>> \in Seq(RecordRows) /\ <<a>> \o <<q>> = <<a, q>>
    <3>1. <<a>> \in Seq(RecordRows) /\ <<q>> \in Seq(RecordRows)
      BY <1>2, <1>4
    <3>2. Append(<<a>>, q) = <<a>> \o <<q>>
      BY <1>4, <3>1, AppendIsConcat
    <3>3. Append(<<a>>, q) = <<a, q>>
      BY <1>2, <1>4, PairAppended
    <3>4. QED
      BY <3>1, <3>2, <3>3
  <2>2. ((records \o CircuitRows(new)) \o <<a>>) \o <<q>>
          = (records \o CircuitRows(new)) \o (<<a>> \o <<q>>)
    BY <1>7, <2>1, ConcatAssociative
  <2>3. QED
    BY <1>1, <1>5, <1>9, <2>1, <2>2
<1>11. Adds(rows, records, flight[c].id, (now - flight[c].since) + slept)
  BY <1>2, <1>3, <1>5, <1>8, AddsTwice
<1>12. flight' = [flight EXCEPT ![c] = f]
  BY <1>1, <1>2 DEF AccountInv, RecordsTyped, Flights
<1>13. /\ f \in Flights /\ f.id = flight[c].id /\ f.started = flight[c].started
       /\ f.at = "asleep" /\ f.since = now + slept
  <2>1. now + slept \in Nat
    BY <1>2, <1>3
  <2>2. f \in Flights
    BY <1>2, <2>1 DEF Flights
  <2>3. QED
    BY <1>2, <2>2 DEF Flights
<1> HIDE DEF f
<1>14. /\ (now - flight[c].since) + slept \in Nat
       /\ flight[c].since + ((now - flight[c].since) + slept) <= f.since
  BY <1>2, <1>3, <1>13
<1>15. QED
  BY <1>1, <1>2, <1>5, <1>8, <1>10, <1>11, <1>12, <1>13, <1>14, FlightAccounts

\* The deadline is over, or another attempt begins.
LEMMA NextAttemptKeeps ==
  ASSUME AccountInv, NEW c \in Clients, InFlight(c), flight[c].since <= now, NEW new,
         NextAttempt(c, new)
  PROVE  AccountInv'
<1> DEFINE f == [flight[c] EXCEPT !.at = "calling", !.attempt = @ + 1, !.since = now]
           rows == records \o CircuitRows(new)
<1>1. /\ now \in Nat /\ flight[c] \in Flights
      /\ flight[c].id \in Nat /\ flight[c].since \in Nat /\ flight[c].started \in Nat
      /\ flight[c].attempt \in Nat /\ flight[c].started <= flight[c].since
      /\ flight[c].started <= now
      /\ records \in Seq(RecordRows) /\ Summed(records)
  <2>1. now \in Nat /\ flight[c] \in Flights /\ records \in Seq(RecordRows) /\ Summed(records)
    BY DEF AccountInv, RecordsTyped
  <2>2. flight[c].id \in Nat /\ flight[c].since \in Nat /\ flight[c].started \in Nat
        /\ flight[c].attempt \in Nat
    BY <2>1 DEF Flights
  <2>3. flight[c].started <= flight[c].since
    BY DEF AccountInv, FlightsAccounted
  <2>4. QED
    BY <2>1, <2>2, <2>3
<1>2. /\ CircuitRows(new) \in Seq(RecordRows)
      /\ Adds(rows, records, flight[c].id, 0) /\ Requests(rows) = Requests(records)
  BY <1>1, CircuitRowsAdd
<1>3. rows \in Seq(RecordRows)
  BY <1>2 DEF Adds
<1>4. CASE Answer(c, FALSE, CircuitRows(new))
  <2>1. /\ records' = rows \o <<Row("request", flight[c].id, FALSE, now - flight[c].started, 0)>>
        /\ flight' = [flight EXCEPT ![c] = NoFlight] /\ UNCHANGED <<now, issued>>
    BY <1>4 DEF Answer
  <2> HIDE DEF rows
  <2>2. records' = Append(rows, Row("request", flight[c].id, FALSE, now - flight[c].started, 0))
    BY <1>1, <1>3, <2>1, AnswerRow
  <2>3. flight[c].since + 0 <= now
    BY <1>1
  <2>4. QED
    BY <1>2, <2>1, <2>2, <2>3, AnswerAccounts
<1>5. CASE /\ flight' = [flight EXCEPT ![c].at = "calling", ![c].attempt = @ + 1,
                                      ![c].since = now]
           /\ records' = rows /\ UNCHANGED <<now, issued>>
  <2>1. flight' = [flight EXCEPT ![c] = f]
    BY <1>1, <1>5 DEF AccountInv, RecordsTyped, Flights
  <2>2. /\ f \in Flights /\ f.id = flight[c].id /\ f.started = flight[c].started
        /\ f.at = "calling" /\ f.since = now
    <3>1. flight[c].attempt + 1 \in Nat
      BY <1>1
    <3>2. f \in Flights
      BY <1>1, <3>1 DEF Flights
    <3>3. QED
      BY <1>1, <3>2 DEF Flights
  <2> HIDE DEF f, rows
  <2>3. flight[c].since + 0 <= f.since /\ f.since <= now
    BY <1>1, <2>2
  <2>4. Adds(records', records, f.id, 0) /\ Requests(records') = Requests(records)
    BY <1>2, <1>5, <2>2
  <2>5. QED
    BY <1>1, <1>5, <2>1, <2>2, <2>3, <2>4, FlightAccounts
<1>6. QED
  BY <1>4, <1>5 DEF NextAttempt

\* Of a request at the gate.
LEMMA Arrived ==
  ASSUME AccountInv, NEW c \in Clients, flight[c].at = "waiting"
  PROVE  InFlight(c) /\ flight[c].since <= now
BY DEF AccountInv, FlightsAccounted, InFlight

\* A request is turned away.
LEMMA RejectKeeps ==
  ASSUME AccountInv, NEW c \in Clients, Reject(c)
  PROVE  AccountInv'
<1>1. flight[c].at = "waiting" /\ Answer(c, FALSE, <<>>)
  BY DEF Reject
<1>2. /\ InFlight(c) /\ flight[c].since <= now /\ flight[c].started <= now
      /\ now \in Nat /\ flight[c].id \in Nat /\ flight[c].since \in Nat
      /\ records \in Seq(RecordRows)
  <2>1. InFlight(c) /\ flight[c].since <= now
    BY <1>1, Arrived
  <2>2. now \in Nat /\ flight[c] \in Flights /\ records \in Seq(RecordRows)
    BY DEF AccountInv, RecordsTyped
  <2>3. flight[c].id \in Nat /\ flight[c].since \in Nat /\ flight[c].started \in Nat
    BY <2>2 DEF Flights
  <2>4. flight[c].started <= flight[c].since
    BY <2>1 DEF AccountInv, FlightsAccounted
  <2>5. QED
    BY <2>1, <2>2, <2>3, <2>4
<1>3. Adds(records, records, flight[c].id, 0)
  BY <1>2, NothingAdded
<1>4. records \o <<>> = records
  BY <1>2, ConcatEmptySeq
<1>5. /\ records' = records \o <<Row("request", flight[c].id, FALSE, now - flight[c].started, 0)>>
      /\ flight' = [flight EXCEPT ![c] = NoFlight] /\ UNCHANGED <<now, issued>>
  BY <1>1, <1>4 DEF Answer
<1>6. records' = Append(records, Row("request", flight[c].id, FALSE, now - flight[c].started, 0))
  BY <1>2, <1>5, AnswerRow
<1>7. flight[c].since + 0 <= now
  BY <1>2
<1>8. QED
  BY <1>2, <1>3, <1>5, <1>6, <1>7, AnswerAccounts

LEMMA InitAccounts == RecordsInit => AccountInv
<1> SUFFICES ASSUME RecordsInit PROVE AccountInv
  OBVIOUS
<1>1. records = <<>> /\ now = 0 /\ issued = 0 /\ flight = [c \in Clients |-> NoFlight]
  BY DEF RecordsInit
<1>2. records \in Seq(RecordRows)
  BY <1>1, EmptySeq
<1>3. Summed(records) /\ \A id \in Nat : Parts(records, id) = 0
  <2>1. \A kind, id : SumFor(records, kind, id) = 0
    BY <1>1, SumForEmpty
  <2>2. Summed(records)
    BY <2>1 DEF Summed
  <2>3. \A id \in Nat : Parts(records, id) = 0
    BY <2>1 DEF Parts
  <2>4. QED
    BY <2>2, <2>3
<1>4. RecordsTyped
  BY <1>1, <1>2, <1>3 DEF RecordsTyped, NoFlight, Flights
<1>5. \A c \in Clients : ~InFlight(c)
  BY <1>1 DEF InFlight, NoFlight
<1>6. ToSet(records) = {}
  BY <1>1 DEF ToSet
<1>7. QED
  BY <1>3, <1>4, <1>5, <1>6
    DEF AccountInv, FlightsAccounted, NothingBeforeIssue, AnsweredAccounted, Requests

LEMMA RecordsStep ==
  ASSUME AccountInv, [RecordsNext]_recordVars
  PROVE  AccountInv'
<1>1. CASE UNCHANGED recordVars
  BY <1>1 DEF recordVars, AccountInv, RecordsTyped, FlightsAccounted, NothingBeforeIssue,
              AnsweredAccounted, InFlight
<1>2. CASE RecordsNext
  <2>1. ASSUME NEW c \in Clients, Admit(c) PROVE AccountInv'
    BY <2>1, Arrived, NextAttemptKeeps DEF Admit
  <2>2. ASSUME NEW c \in Clients, Wake(c) PROVE AccountInv'
    <3>1. InFlight(c) /\ flight[c].since <= now /\ NextAttempt(c, circuit)
      BY <2>2 DEF Wake, InFlight, AccountInv, RecordsTyped, Flights
    <3>2. QED
      BY <3>1, NextAttemptKeeps
  <2>3. ASSUME NEW c \in Clients, Succeed(c) \/ FailForGood(c) PROVE AccountInv'
    BY <2>3, LastAttemptKeeps DEF Succeed, FailForGood
  <2>4. QED
    BY <1>2, <2>1, <2>2, <2>3, TickKeeps, IssueKeeps, RejectKeeps, RetryKeeps DEF RecordsNext
<1>3. QED
  BY <1>1, <1>2

\* However requests overlap, whichever deadline cuts an attempt or a sleep short: the
\* parts of a request's latency never exceed it.
THEOREM ResidualsAreNatural == RecordsSpec => []ResidualNonNegative
<1>1. AccountInv => ResidualNonNegative
  <2>1. SUFFICES ASSUME AccountInv, NEW r \in ToSet(records), r.kind = "request"
                 PROVE  Other(r) >= 0
    BY DEF ResidualNonNegative
  <2>2. r \in Requests(records)
    BY <2>1 DEF Requests
  <2>3. r.id \in Nat /\ r.latency \in Nat /\ Parts(records, r.id) <= r.latency
    <3>1. r \in RecordRows
      BY <2>1, LenProperties DEF AccountInv, RecordsTyped, ToSet
    <3>2. QED
      BY <2>1, <2>2, <3>1 DEF AccountInv, AnsweredAccounted, RecordRows
  <2>4. Service(r.id) \in Nat /\ Backoff(r.id) \in Nat
    BY <2>1, <2>3 DEF AccountInv, RecordsTyped, Summed, Service, Backoff
  <2>5. Parts(records, r.id) = Service(r.id) + Backoff(r.id)
    BY DEF Parts, Service, Backoff
  <2>6. QED
    BY <2>3, <2>4, <2>5 DEF Other
<1>2. QED
  BY <1>1, InitAccounts, RecordsStep, PTL DEF RecordsSpec

-------------------------------------------------------------------------------
(* 5. The timeline                                                         *)

\* The sum of the sizes of the parts is the size of the whole.
LEMMA PartsAddUp ==
  ASSUME NEW R, IsFiniteSet(R), NEW S, IsFiniteSet(S), NEW part \in [R -> S],
         NEW count, count = [i \in S |-> Cardinality({k \in R : part[k] = i})]
  PROVE  SumFunction(count) = Cardinality(R)
<1> DEFINE SizeOf(T) == Cardinality({k \in R : part[k] \in T})
           Folds(it) == it = [T \in SUBSET S |->
              IF T = {} THEN 0
              ELSE count[CHOOSE x \in T : TRUE] + it[T \ {CHOOSE x \in T : TRUE}]]
           sizes == [T \in SUBSET S |-> SizeOf(T)]
<1>1. ASSUME NEW T \in SUBSET S, NEW x \in T
      PROVE  SizeOf(T) = count[x] + SizeOf(T \ {x})
  <2> DEFINE A == {k \in R : part[k] \in T}
             B == {k \in R : part[k] = x}
  <2>1. IsFiniteSet(A) /\ IsFiniteSet(B) /\ IsFiniteSet(A \ B)
    BY FS_Subset
  <2>2. A \ B = {k \in R : part[k] \in T \ {x}} /\ A \cap B = B
    OBVIOUS
  <2>3. Cardinality(A \ B) = Cardinality(A) - Cardinality(A \cap B)
    BY <2>1, FS_Difference
  <2>4. Cardinality(A) \in Nat /\ Cardinality(B) \in Nat /\ Cardinality(A \ B) \in Nat
    BY <2>1, FS_CardinalityType
  <2>5. count[x] = Cardinality(B)
    OBVIOUS
  <2> HIDE DEF A, B
  <2>6. Cardinality(A) = Cardinality(B) + Cardinality(A \ B)
    <3>1. Cardinality(A \ B) = Cardinality(A) - Cardinality(B)
      BY <2>2, <2>3
    <3>2. QED
      BY <2>4, <3>1
  <2>7. SizeOf(T) = Cardinality(A) /\ SizeOf(T \ {x}) = Cardinality(A \ B)
    BY <2>2 DEF A
  <2>8. QED
    BY <2>5, <2>6, <2>7
<1>2. SizeOf({}) = 0
  <2>1. {k \in R : part[k] \in {}} = {}
    OBVIOUS
  <2>2. QED
    BY <2>1, FS_EmptySet
<1>3. Folds(sizes)
  <2> HIDE DEF SizeOf
  <2>1. ASSUME NEW T \in SUBSET S
        PROVE  sizes[T] = IF T = {} THEN 0
                 ELSE count[CHOOSE x \in T : TRUE] + sizes[T \ {CHOOSE x \in T : TRUE}]
    <3>1. CASE T = {}
      BY <1>2, <3>1
    <3>2. CASE T # {}
      <4>1. PICK x : x = CHOOSE y \in T : TRUE
        OBVIOUS
      <4>2. x \in T
        BY <4>1, <3>2
      <4>3. T \ {x} \in SUBSET S
        OBVIOUS
      <4>4. SizeOf(T) = count[x] + SizeOf(T \ {x})
        BY <4>2, <1>1
      <4>5. sizes[T] = count[x] + sizes[T \ {x}]
        BY <4>3, <4>4
      <4>6. QED
        BY <3>2, <4>1, <4>5
    <3>3. QED
      BY <3>1, <3>2
  <2>2. QED
    BY <2>1
<1>4. ASSUME NEW it, Folds(it) PROVE it[S] = SizeOf(S)
  <2> DEFINE Wrong == {T \in SUBSET S : it[T] # SizeOf(T)}
  <2> HIDE DEF SizeOf
  <2>1. SUFFICES ASSUME Wrong # {} PROVE FALSE
    OBVIOUS
  <2>2. Wrong \subseteq FiniteSubsetsOf(S)
    BY FS_Subset DEF FiniteSubsetsOf
  <2>3. PICK T \in Wrong : \A U \in Wrong : ~(<<U, T>> \in StrictSubsetOrdering(S))
    BY <2>1, <2>2, FS_StrictSubsetOrderingWellFounded, WFMin
  <2>4. PICK x : x = CHOOSE y \in T : TRUE
    OBVIOUS
  <2>5. it[T] = IF T = {} THEN 0 ELSE count[x] + it[T \ {x}]
    BY <1>4, <2>4
  <2>6. T # {} /\ x \in T
    BY <1>2, <2>3, <2>4, <2>5
  <2>7. T \ {x} \in SUBSET S /\ T \ {x} # T
    BY <2>6
  <2>8. <<T \ {x}, T>> \in StrictSubsetOrdering(S)
    BY <2>7 DEF StrictSubsetOrdering
  <2>9. it[T \ {x}] = SizeOf(T \ {x})
    BY <2>3, <2>7, <2>8
  <2>10. QED
    BY <1>1, <2>3, <2>5, <2>6, <2>9
<1>5. SumFunction(count) = (CHOOSE it : Folds(it))[S]
  BY DEF SumFunction, SumFunctionOnSet, FoldFunctionOnSet, MapThenFoldSet
<1>6. Folds(CHOOSE it : Folds(it))
  <2> HIDE DEF Folds, sizes
  <2>1. QED
    BY <1>3
<1>7. SumFunction(count) = SizeOf(S)
  <2> HIDE DEF Folds, SizeOf
  <2>1. QED
    BY <1>4, <1>5, <1>6
<1>8. {k \in R : part[k] \in S} = R
  OBVIOUS
<1>9. QED
  BY <1>7, <1>8

RowsTyped == records \in Seq(RecordRows)

\* The answers, and no row a bucket or more before the first one.
Covered == Rows("request") # {} /\ \A r \in ToSet(records) : T0 < r.t + Bucket

LEMMA RowsAre ==
  ASSUME RowsTyped
  PROVE  /\ DOMAIN records = 1..Len(records) /\ Len(records) \in Nat
         /\ \A k \in DOMAIN records : records[k] \in RecordRows /\ records[k] \in ToSet(records)
         /\ \A r \in ToSet(records) : \E k \in DOMAIN records : r = records[k]
         /\ \A kind : Rows(kind) \subseteq DOMAIN records /\ IsFiniteSet(Rows(kind))
<1>1. DOMAIN records = 1..Len(records) /\ Len(records) \in Nat
      /\ \A k \in 1..Len(records) : records[k] \in RecordRows
  BY LenProperties DEF RowsTyped
<1>2. IsFiniteSet(DOMAIN records)
  BY <1>1, FS_Interval
<1>3. \A kind : Rows(kind) \subseteq DOMAIN records
  BY DEF Rows
<1>4. \A kind : IsFiniteSet(Rows(kind))
  BY <1>2, <1>3, FS_Subset
<1>5. QED
  BY <1>1, <1>3, <1>4 DEF ToSet

\* Records are finitely many, so there is a last one.
LEMMA TimesBounded ==
  ASSUME RowsTyped
  PROVE  \E top \in Nat : \A k \in DOMAIN records : records[k].t <= top
<1> DEFINE S == {n \in Nat : n <= Len(records) =>
                   \E top \in Nat : \A k \in 1..n : records[k].t <= top}
<1>1. 0 \in S
  OBVIOUS
<1>2. ASSUME NEW n \in Nat, n \in S PROVE n + 1 \in S
  <2>1. SUFFICES ASSUME n + 1 <= Len(records)
                 PROVE  \E top \in Nat : \A k \in 1..(n + 1) : records[k].t <= top
    OBVIOUS
  <2>2. \A k \in 1..(n + 1) : records[k].t \in Nat
    BY <2>1, RowsAre DEF RecordRows
  <2>3. PICK top \in Nat : \A k \in 1..n : records[k].t <= top
    BY <1>2, <2>1, RowsAre
  <2> DEFINE last == records[n + 1].t
  <2>4. last \in Nat /\ top + last \in Nat
    BY <2>2
  <2>5. \A k \in 1..(n + 1) : records[k].t <= top + last
    BY <2>2, <2>3, <2>4
  <2>6. QED
    BY <2>4, <2>5
<1>3. Nat \subseteq S
  BY <1>1, <1>2, InductiveSet
<1>4. Len(records) \in Nat /\ DOMAIN records = 1..Len(records)
  BY RowsAre
<1> HIDE DEF S
<1>5. Len(records) \in S
  BY <1>3, <1>4
<1>6. \E top \in Nat : \A k \in 1..Len(records) : records[k].t <= top
  BY <1>4, <1>5 DEF S
<1>7. QED
  BY <1>4, <1>6

\* The interval of the timeline.
LEMMA Interval ==
  ASSUME RowsTyped, Rows("request") # {}
  PROVE  /\ T0 \in Nat /\ T1 \in Nat /\ T0 <= T1 /\ Size \in Nat \ {0}
         /\ \A k \in Rows("request") : T0 <= records[k].t /\ records[k].t <= T1
         /\ (T1 - T0) \in Nat /\ Size - 1 = (T1 - T0) \div Bucket /\ Size - 1 \in Nat
<1>1. \A k \in Rows("request") : records[k].t \in Nat
  BY RowsAre DEF RecordRows
<1>2. Times \in SUBSET Nat /\ Times # {}
  BY <1>1 DEF Times
<1>3. PICK top \in Nat : \A k \in DOMAIN records : records[k].t <= top
  BY TimesBounded
<1>4. \A m \in Times : m <= top
  BY <1>3, RowsAre DEF Times
<1>5. T0 \in Times /\ \A m \in Times : T0 <= m
  BY <1>2, MinNatural DEF T0
<1>6. T1 \in Times /\ \A m \in Times : m <= T1
  BY <1>2, <1>4, MaxNatural DEF T1
<1>7. T0 \in Nat /\ T1 \in Nat /\ T0 <= T1 /\ T1 - T0 \in Nat
  BY <1>2, <1>5, <1>6
<1>8. (T1 - T0) \div Bucket \in Nat
  BY <1>7, DivBounds, RecordsAssumption
<1>9. \A k \in Rows("request") : T0 <= records[k].t /\ records[k].t <= T1
  BY <1>5, <1>6 DEF Times
<1>10. Size = (T1 - T0) \div Bucket + 1
  BY DEF Size
<1>11. QED
  BY <1>7, <1>8, <1>9, <1>10

\* Where a row ends up.
LEMMA BucketIs ==
  ASSUME RowsTyped, Rows("request") # {}, NEW k \in DOMAIN records,
         T0 < records[k].t + Bucket
  PROVE  LET x == records[k].t - T0 IN
         /\ Index(records[k]) = BucketOf(records[k])
         /\ BucketOf(records[k]) = IF x < 0 THEN 0
                                   ELSE Min({x \div Bucket, Size - 1})
         /\ BucketOf(records[k]) \in 0..(Size - 1)
         /\ ~Raises(records[k])
<1> DEFINE r == records[k]
           x == r.t - T0
<1>1. r.t \in Nat /\ T0 \in Nat /\ x \in Int /\ Bucket \in Nat \ {0} /\ -x < Bucket
      /\ Size \in Nat \ {0} /\ Size - 1 \in Nat
  <2>1. r \in RecordRows
    BY RowsAre
  <2>2. T0 \in Nat /\ Size \in Nat \ {0}
    BY Interval
  <2>3. r.t \in Nat /\ Bucket \in Nat \ {0}
    BY <2>1, RecordsAssumption DEF RecordRows
  <2>4. QED
    BY <2>2, <2>3
<1>2. Truncate(x) = IF x >= 0 THEN x \div Bucket ELSE 0
  <2>1. CASE x >= 0
    BY <2>1 DEF Truncate
  <2>2. CASE x < 0
    <3>1. -x \in Nat
      BY <1>1, <2>2
    <3>2. (-x) \div Bucket = 0
      BY <1>1, <3>1, DivSmall
    <3>3. QED
      BY <2>2, <3>2, <1>1 DEF Truncate
  <2>3. QED
    BY <1>1, <2>1, <2>2
<1>3. Truncate(x) \in Nat
  BY <1>1, <1>2, DivBounds
<1>4. Index(r) = Min({Truncate(x), Size - 1})
  BY DEF Index
<1>5. Index(r) \in Nat /\ Index(r) <= Size - 1
  BY <1>1, <1>3, <1>4, MinOfTwo
<1>6. x < 0 => Index(r) = 0
  <2>1. SUFFICES ASSUME x < 0 PROVE Index(r) = 0
    OBVIOUS
  <2>2. Truncate(x) = 0
    BY <1>1, <1>2, <2>1
  <2>3. QED
    BY <1>1, <1>4, <1>5, <2>2, MinOfTwo
<1>7. BucketOf(r) = Index(r)
  BY <1>5 DEF BucketOf
<1>8. ~Raises(r)
  BY <1>1, <1>5 DEF Raises
<1>9. BucketOf(r) = IF x < 0 THEN 0 ELSE Min({x \div Bucket, Size - 1})
  <2> HIDE DEF x
  <2>1. CASE x < 0
    BY <1>6, <1>7, <2>1
  <2>2. CASE ~(x < 0)
    <3>1. Truncate(x) = x \div Bucket
      BY <1>1, <1>2, <2>2
    <3>2. QED
      BY <1>4, <1>7, <2>2, <3>1
  <2>3. QED
    BY <2>1, <2>2
<1> HIDE DEF r
<1>10. BucketOf(r) \in 0..(Size - 1)
  BY <1>1, <1>5, <1>7
<1>11. QED
  BY <1>7, <1>8, <1>9, <1>10 DEF r

\* A row is in the bucket of its time, or before or after them all.
LEMMA BucketOfTime ==
  ASSUME RowsTyped, Covered, NEW k \in DOMAIN records
  PROVE  LET r == records[k]  b == BucketOf(r) IN
         /\ ~Raises(r)
         /\ T0 + b * Bucket <= r.t \/ b = 0
         /\ r.t < T0 + (b + 1) * Bucket \/ b = Size - 1
<1> DEFINE r == records[k]
           x == r.t - T0
           b == BucketOf(r)
<1>0. r.t \in Nat /\ T0 \in Nat /\ Size - 1 \in Nat
  <2>1. r \in RecordRows
    BY RowsAre
  <2>2. T0 \in Nat /\ Size - 1 \in Nat
    BY Interval DEF Covered
  <2>3. QED
    BY <2>1, <2>2 DEF RecordRows
<1>1. r.t \in Nat /\ T0 \in Nat /\ x \in Int /\ Bucket \in Nat \ {0} /\ Size - 1 \in Nat
  BY <1>0, RecordsAssumption
<1>2. ~Raises(r) /\ b \in 0..(Size - 1)
      /\ b = IF x < 0 THEN 0 ELSE Min({x \div Bucket, Size - 1})
  BY BucketIs, RowsAre DEF Covered
<1> HIDE DEF r, b
<1>3. CASE x < 0
  <2>1. b = 0 /\ (b + 1) * Bucket = Bucket
    BY <1>1, <1>2, <1>3
  <2>2. r.t < T0 + (b + 1) * Bucket
    BY <1>1, <1>3, <2>1
  <2>3. QED
    BY <1>2, <2>1, <2>2 DEF r, b
<1>4. CASE ~(x < 0)
  <2> DEFINE q == x \div Bucket
  <2>1. x \in Nat /\ q \in Nat /\ q * Bucket <= x /\ x < (q + 1) * Bucket
    <3>1. x \in Nat
      BY <1>1, <1>4
    <3> HIDE DEF x
    <3>2. QED
      BY <1>1, <3>1, DivBounds
  <2>2. b = Min({q, Size - 1}) /\ b \in {q, Size - 1} /\ b <= q /\ b \in Nat
    <3>1. b = Min({q, Size - 1})
      BY <1>2, <1>4
    <3>2. {q, Size - 1} \in SUBSET Nat /\ {q, Size - 1} # {}
      BY <1>1, <2>1
    <3> HIDE DEF q
    <3>3. b \in {q, Size - 1} /\ \A m \in {q, Size - 1} : b <= m
      BY <3>1, <3>2, MinNatural
    <3>4. QED
      BY <3>1, <3>2, <3>3
  <2> HIDE DEF q
  <2>3. b * Bucket <= x
    <3>1. b * Bucket <= q * Bucket
      BY <1>1, <2>1, <2>2, TimesMonotone
    <3>2. b * Bucket \in Nat /\ q * Bucket \in Nat
      BY <1>1, <2>1, <2>2
    <3>3. QED
      BY <1>1, <2>1, <3>1, <3>2
  <2>4. b * Bucket \in Nat /\ (b + 1) * Bucket \in Nat
    BY <1>1, <2>2
  <2>5. T0 + b * Bucket <= r.t
    BY <1>1, <2>3, <2>4
  <2>6. r.t < T0 + (b + 1) * Bucket \/ b = Size - 1
    <3>1. CASE b = Size - 1
      BY <3>1
    <3>2. CASE b = q
      BY <1>1, <2>1, <2>4, <3>2
    <3>3. QED
      BY <2>2, <3>1, <3>2
  <2>7. QED
    BY <1>2, <2>5, <2>6 DEF r, b
<1>5. QED
  BY <1>3, <1>4

\* An answer is in the same bucket of both series.
LEMMA AnswerBucket ==
  ASSUME RowsTyped, Covered, NEW k \in Rows("request"), NEW i \in 0..(Size - 1)
  PROVE  BucketOf(records[k]) = i <=> (T1 <= T0 \/ (records[k].t - T0) \div Bucket = i)
<1> DEFINE x == records[k].t - T0
           q == x \div Bucket
<1>1. k \in DOMAIN records /\ records[k].t \in Nat
  BY RowsAre DEF RecordRows
<1>2. /\ T0 \in Nat /\ T1 \in Nat /\ T0 <= records[k].t /\ records[k].t <= T1
      /\ T1 - T0 \in Nat /\ Size - 1 = (T1 - T0) \div Bucket /\ Size - 1 \in Nat
  BY Interval DEF Covered
<1>3. x \in Nat /\ x <= T1 - T0 /\ Bucket \in Nat \ {0}
  BY <1>1, <1>2, RecordsAssumption
<1>4. q \in Nat /\ q <= Size - 1
  BY <1>2, <1>3, DivBounds, DivMonotone
<1>5. BucketOf(records[k]) = Min({q, Size - 1})
  BY <1>1, <1>3, BucketIs, RowsAre DEF Covered
<1> HIDE DEF q
<1>6. Min({q, Size - 1}) = q
  <2>1. {q, Size - 1} \in SUBSET Nat /\ {q, Size - 1} # {}
    BY <1>2, <1>4
  <2>2. Min({q, Size - 1}) \in {q, Size - 1} /\ Min({q, Size - 1}) <= q
    BY <2>1, MinNatural
  <2>3. QED
    BY <1>2, <1>4, <2>2
<1>7. T1 <= T0 => q = 0 /\ Size - 1 = 0
  <2>1. SUFFICES ASSUME T1 <= T0 PROVE q = 0 /\ Size - 1 = 0
    OBVIOUS
  <2>2. x = 0 /\ T1 - T0 = 0
    BY <1>1, <1>2, <2>1
  <2>3. 0 \div Bucket = 0
    BY <1>3, DivSmall
  <2>4. QED
    BY <1>2, <2>2, <2>3 DEF q
<1>8. QED
  BY <1>5, <1>6, <1>7 DEF q

\* What is counted bucket by bucket is counted once.
LEMMA BucketsAddUp ==
  ASSUME RowsTyped, Covered, NEW R \in SUBSET (DOMAIN records)
  PROVE  SumFunction([i \in 0..(Size - 1) |-> Cardinality({k \in R : BucketOf(records[k]) = i})])
           = Cardinality(R)
<1> DEFINE S == 0..(Size - 1)
           part == [k \in R |-> BucketOf(records[k])]
           count == [i \in S |-> Cardinality({k \in R : BucketOf(records[k]) = i})]
<1>1. IsFiniteSet(S)
  BY Interval, FS_Interval DEF Covered
<1>2. IsFiniteSet(R)
  <2>1. IsFiniteSet(DOMAIN records)
    BY RowsAre, FS_Interval
  <2>2. QED
    BY <2>1, FS_Subset
<1>3. part \in [R -> S]
  BY BucketIs, RowsAre DEF Covered
<1>4. count = [i \in S |-> Cardinality({k \in R : part[k] = i})]
  <2>1. \A i \in S : {k \in R : BucketOf(records[k]) = i} = {k \in R : part[k] = i}
    OBVIOUS
  <2>2. QED
    BY <2>1
<1> HIDE DEF S, part, count
<1>5. SumFunction(count) = Cardinality(R)
  BY <1>1, <1>2, <1>3, <1>4, PartsAddUp
<1>6. QED
  BY <1>5 DEF count, S

\* Every answer that is not a success is a failure.
LEMMA FailuresCounted ==
  ASSUME RowsTyped, NEW kind
  PROVE  Cardinality(Failed(Rows(kind)))
           = Cardinality(Rows(kind)) - Cardinality({k \in Rows(kind) : records[k].ok})
<1> DEFINE R == Rows(kind)
           ok == {k \in R : records[k].ok}
<1>1. IsFiniteSet(R) /\ R \ ok = Failed(R) /\ R \cap ok = ok
  BY RowsAre DEF Failed
<1>2. Cardinality(R \ ok) = Cardinality(R) - Cardinality(R \cap ok)
  BY <1>1, FS_Difference
<1>3. QED
  BY <1>1, <1>2

\* All buckets together are the summary.
LEMMA AllBucketsSum ==
  ASSUME RowsTyped, Covered
  PROVE  AllBuckets = Summary
<1> DEFINE buckets == [i \in DOMAIN Timeline |-> Counted(Timeline[i])]
           sums == [n \in DOMAIN Summary |->
                      SumFunction([i \in DOMAIN buckets |-> buckets[i][n]])]
           names == {"total", "failed", "downstream", "downstream_failed"}
           Of(R) == [i \in 0..(Size - 1) |-> Cardinality(In(R, i))]
<1>1. DOMAIN buckets = 0..(Size - 1)
  BY DEF Timeline
<1>2. ASSUME NEW i \in 0..(Size - 1)
      PROVE  /\ buckets[i]["total"] = Cardinality(In(Rows("request"), i))
             /\ buckets[i]["failed"] = Cardinality(Failed(In(Rows("request"), i)))
             /\ buckets[i]["downstream"] = Cardinality(In(Rows("downstream"), i))
             /\ buckets[i]["downstream_failed"] = Cardinality(Failed(In(Rows("downstream"), i)))
  <2>1. buckets[i] = Counted(TimelineBucket(i))
    BY DEF Timeline
  <2> HIDE DEF buckets
  <2>2. QED
    BY <2>1 DEF Counted, TimelineBucket
<1>3. \A kind, i : Failed(In(Rows(kind), i)) = In(Failed(Rows(kind)), i)
  BY DEF Failed, In
<1>4. DOMAIN Summary = names
  BY DEF Summary
<1>5. ASSUME NEW R \in SUBSET (DOMAIN records) PROVE SumFunction(Of(R)) = Cardinality(R)
  BY BucketsAddUp DEF In
<1>6. \A kind : /\ Rows(kind) \in SUBSET (DOMAIN records)
                /\ Failed(Rows(kind)) \in SUBSET (DOMAIN records)
  BY DEF Rows, Failed
<1> HIDE DEF buckets, Of
<1> DEFINE Matches(n, R) ==
             /\ \A i \in 0..(Size - 1) : buckets[i][n] = Cardinality(In(R, i))
             /\ Summary[n] = Cardinality(R)
<1>7. ASSUME NEW n \in names, NEW R \in SUBSET (DOMAIN records), Matches(n, R)
      PROVE  sums[n] = Summary[n]
  <2>1. [i \in DOMAIN buckets |-> buckets[i][n]] = Of(R)
    BY <1>1, <1>7 DEF Of
  <2>2. sums[n] = SumFunction(Of(R))
    BY <1>4, <2>1
  <2>3. QED
    BY <1>5, <1>7, <2>2
<1> HIDE DEF sums
<1>8. sums["total"] = Summary["total"]
  <2>1. \A i \in 0..(Size - 1) : buckets[i]["total"] = Cardinality(In(Rows("request"), i))
    BY <1>2
  <2>2. Summary["total"] = Cardinality(Rows("request"))
    BY DEF Summary
  <2>3. Matches("total", Rows("request"))
    BY <2>1, <2>2
  <2>4. Rows("request") \in SUBSET (DOMAIN records) /\ "total" \in names
    BY <1>6
  <2> HIDE DEF names, Matches
  <2>5. QED
    BY <1>7, <2>3, <2>4
<1>9. sums["downstream"] = Summary["downstream"]
  <2>1. \A i \in 0..(Size - 1) : buckets[i]["downstream"] = Cardinality(In(Rows("downstream"), i))
    BY <1>2
  <2>2. Summary["downstream"] = Cardinality(Rows("downstream"))
    BY DEF Summary
  <2>3. Matches("downstream", Rows("downstream"))
    BY <2>1, <2>2
  <2>4. Rows("downstream") \in SUBSET (DOMAIN records) /\ "downstream" \in names
    BY <1>6
  <2> HIDE DEF names, Matches
  <2>5. QED
    BY <1>7, <2>3, <2>4
<1>10. sums["failed"] = Summary["failed"]
  <2>1. \A i \in 0..(Size - 1) :
          buckets[i]["failed"] = Cardinality(In(Failed(Rows("request")), i))
    BY <1>2, <1>3
  <2>2. Summary["failed"] = Cardinality(Failed(Rows("request")))
    BY FailuresCounted DEF Summary
  <2>3. Matches("failed", Failed(Rows("request")))
    BY <2>1, <2>2
  <2>4. Failed(Rows("request")) \in SUBSET (DOMAIN records) /\ "failed" \in names
    BY <1>6
  <2> HIDE DEF names, Matches
  <2>5. QED
    BY <1>7, <2>3, <2>4
<1>11. sums["downstream_failed"] = Summary["downstream_failed"]
  <2>1. \A i \in 0..(Size - 1) :
          buckets[i]["downstream_failed"] = Cardinality(In(Failed(Rows("downstream")), i))
    BY <1>2, <1>3
  <2>2. Summary["downstream_failed"] = Cardinality(Failed(Rows("downstream")))
    BY FailuresCounted DEF Summary
  <2>3. Matches("downstream_failed", Failed(Rows("downstream")))
    BY <2>1, <2>2
  <2>4. Failed(Rows("downstream")) \in SUBSET (DOMAIN records) /\ "downstream_failed" \in names
    BY <1>6
  <2> HIDE DEF names, Matches
  <2>5. QED
    BY <1>7, <2>3, <2>4
<1>12. \A n \in names : sums[n] = Summary[n]
  BY <1>8, <1>9, <1>10, <1>11
<1>13. /\ DOMAIN sums = names /\ sums = [n \in names |-> sums[n]]
       /\ Summary = [n \in names |-> Summary[n]]
  BY <1>4 DEF sums, Summary
<1>14. sums = Summary
  BY <1>12, <1>13
<1>15. QED
  BY <1>14 DEF sums, buckets, AllBuckets

\* The timeline, the throughput series and the summary count the same rows: for every
\* history of a run, each row is in one bucket and in the right one.
THEOREM TimelinesAddUp == RecordsSpec => []TimelineAddsUp
<1>1. RecordsTyped => TimelineAddsUp
  <2>1. SUFFICES ASSUME RowsTyped, Covered
                 PROVE  /\ \A r \in ToSet(records) :
                             LET b == BucketOf(r) IN
                             /\ ~Raises(r)
                             /\ T0 + b * Bucket <= r.t \/ b = 0
                             /\ r.t < T0 + (b + 1) * Bucket \/ b = Size - 1
                        /\ \A i \in 0..(Size - 1) : Timeline[i].requests = ThroughputSeries[i]
                        /\ AllBuckets = Summary
    BY DEF TimelineAddsUp, Covered, RowsTyped, RecordsTyped
  <2>2. ASSUME NEW r \in ToSet(records)
        PROVE  LET b == BucketOf(r) IN
               /\ ~Raises(r)
               /\ T0 + b * Bucket <= r.t \/ b = 0
               /\ r.t < T0 + (b + 1) * Bucket \/ b = Size - 1
    <3>1. PICK k \in DOMAIN records : r = records[k]
      BY <2>1, RowsAre
    <3>2. QED
      BY <2>1, <3>1, BucketOfTime
  <2>3. ASSUME NEW i \in 0..(Size - 1) PROVE Timeline[i].requests = ThroughputSeries[i]
    <3>1. In(Rows("request"), i) =
            {k \in Rows("request") : T1 <= T0 \/ (records[k].t - T0) \div Bucket = i}
      BY <2>1, AnswerBucket DEF In
    <3>2. Timeline[i].requests = Cardinality(In(Rows("request"), i))
      BY DEF Timeline, TimelineBucket
    <3>3. QED
      BY <3>1, <3>2 DEF ThroughputSeries
  <2>4. QED
    BY <2>1, <2>2, <2>3, AllBucketsSum
<1>2. AccountInv => RecordsTyped
  BY DEF AccountInv
<1>3. QED
  BY <1>1, <1>2, InitAccounts, RecordsStep, PTL DEF RecordsSpec

-------------------------------------------------------------------------------
(* 6. Sums over sets                                                       *)

\* it is the function by which the sum of f over S is computed, from subsets of S.
Folding(it, f, S) ==
  it = [T \in SUBSET S |->
          IF T = {} THEN 0
          ELSE f[CHOOSE x \in T : TRUE] + it[T \ {CHOOSE x \in T : TRUE}]]

\* First-order induction over a finite set: a set of subsets, rather than a predicate.
LEMMA SubsetsInduct ==
  ASSUME NEW S, IsFiniteSet(S), NEW G, {} \in G,
         \A T \in SUBSET S : \A x \in S \ T : T \in G => T \union {x} \in G
  PROVE  \A T \in SUBSET S : T \in G
<1> DEFINE Wrong == {T \in SUBSET S : T \notin G}
<1>1. SUFFICES ASSUME Wrong # {} PROVE FALSE
  OBVIOUS
<1>2. Wrong \subseteq FiniteSubsetsOf(S)
  BY FS_Subset DEF FiniteSubsetsOf
<1>3. PICK T \in Wrong : \A U \in Wrong : ~(<<U, T>> \in StrictSubsetOrdering(S))
  BY <1>1, <1>2, FS_StrictSubsetOrderingWellFounded, WFMin
<1>4. PICK x \in T : TRUE
  BY <1>3
<1>5. T \ {x} \in SUBSET S /\ T \ {x} # T /\ x \in S \ (T \ {x}) /\ (T \ {x}) \union {x} = T
  BY <1>4
<1>6. <<T \ {x}, T>> \in StrictSubsetOrdering(S)
  BY <1>5 DEF StrictSubsetOrdering
<1>7. T \ {x} \in G
  BY <1>3, <1>5, <1>6
<1>8. QED
  BY <1>3, <1>5, <1>7

\* What such a function gives, and what is left of it on a smaller set.
LEMMA FoldingAt ==
  ASSUME NEW f, NEW S, NEW it, Folding(it, f, S), NEW T \in SUBSET S
  PROVE  it[T] = IF T = {} THEN 0
                 ELSE f[CHOOSE x \in T : TRUE] + it[T \ {CHOOSE x \in T : TRUE}]
BY DEF Folding

LEMMA FoldingWithin ==
  ASSUME NEW f, NEW S, NEW it, Folding(it, f, S), NEW T \in SUBSET S
  PROVE  Folding([U \in SUBSET T |-> it[U]], f, T)
<1> DEFINE jt == [U \in SUBSET T |-> it[U]]
<1>1. ASSUME NEW U \in SUBSET T
      PROVE  jt[U] = IF U = {} THEN 0
                     ELSE f[CHOOSE x \in U : TRUE] + jt[U \ {CHOOSE x \in U : TRUE}]
  <2>1. U \in SUBSET S /\ jt[U] = it[U]
    OBVIOUS
  <2>2. PICK c : c = CHOOSE x \in U : TRUE
    OBVIOUS
  <2>3. jt[U \ {c}] = it[U \ {c}]
    OBVIOUS
  <2> HIDE DEF jt
  <2>4. it[U] = IF U = {} THEN 0 ELSE f[c] + it[U \ {c}]
    <3>1. it[U] = IF U = {} THEN 0
                  ELSE f[CHOOSE x \in U : TRUE] + it[U \ {CHOOSE x \in U : TRUE}]
      BY <2>1, FoldingAt
    <3>2. QED
      BY <3>1, <2>2
  <2>5. QED
    BY <2>1, <2>2, <2>3, <2>4
<1>2. QED
  BY <1>1 DEF Folding

\* Two such functions agree where both speak.
LEMMA FoldingUnique ==
  ASSUME NEW f, NEW S, IsFiniteSet(S), NEW it, Folding(it, f, S), NEW jt, Folding(jt, f, S)
  PROVE  it = jt
<1> DEFINE Wrong == {T \in SUBSET S : it[T] # jt[T]}
<1>1. SUFFICES ASSUME Wrong # {} PROVE FALSE
  BY DEF Folding
<1>2. Wrong \subseteq FiniteSubsetsOf(S)
  BY FS_Subset DEF FiniteSubsetsOf
<1>3. PICK T \in Wrong : \A U \in Wrong : ~(<<U, T>> \in StrictSubsetOrdering(S))
  BY <1>1, <1>2, FS_StrictSubsetOrderingWellFounded, WFMin
<1>4. PICK c : c = CHOOSE x \in T : TRUE
  OBVIOUS
<1>5. it[T] = (IF T = {} THEN 0 ELSE f[c] + it[T \ {c}])
      /\ jt[T] = (IF T = {} THEN 0 ELSE f[c] + jt[T \ {c}])
  BY <1>4, FoldingAt
<1>6. T # {} /\ c \in T
  BY <1>3, <1>4, <1>5
<1>7. T \ {c} \in SUBSET S /\ T \ {c} # T
  BY <1>6
<1>8. <<T \ {c}, T>> \in StrictSubsetOrdering(S)
  BY <1>7 DEF StrictSubsetOrdering
<1>9. it[T \ {c}] = jt[T \ {c}]
  BY <1>3, <1>7, <1>8
<1>10. QED
  BY <1>3, <1>5, <1>9

\* On every finite set there is one: extend the one of each smaller set.
LEMMA FoldingExists ==
  ASSUME NEW f, NEW S, IsFiniteSet(S)
  PROVE  \E it : Folding(it, f, S)
<1> DEFINE Wrong == {T \in SUBSET S : ~\E it : Folding(it, f, T)}
           Of(T) == CHOOSE it : Folding(it, f, T)
<1>1. SUFFICES ASSUME Wrong # {} PROVE FALSE
  OBVIOUS
<1>2. Wrong \subseteq FiniteSubsetsOf(S)
  BY FS_Subset DEF FiniteSubsetsOf
<1>3. PICK T \in Wrong : \A U \in Wrong : ~(<<U, T>> \in StrictSubsetOrdering(S))
  BY <1>1, <1>2, FS_StrictSubsetOrderingWellFounded, WFMin
<1>4. ASSUME NEW U \in SUBSET T, U # T PROVE Folding(Of(U), f, U)
  <2>1. <<U, T>> \in StrictSubsetOrdering(S)
    BY <1>4 DEF StrictSubsetOrdering
  <2>2. U \notin Wrong
    BY <1>3, <2>1
  <2>3. \E it : Folding(it, f, U)
    BY <2>2
  <2>4. QED
    BY <2>3
<1>5. PICK c : c = CHOOSE x \in T : TRUE
  OBVIOUS
<1> DEFINE val == [U \in SUBSET T |-> Of(U)[U]]
           jt  == [U \in SUBSET T |-> IF U # T THEN val[U]
                                      ELSE IF T = {} THEN 0 ELSE f[c] + val[T \ {c}]]
<1> HIDE DEF Of
<1>6. ASSUME NEW U \in SUBSET T, U # T, NEW d, d = CHOOSE x \in U : TRUE
      PROVE  val[U] = IF U = {} THEN 0 ELSE f[d] + val[U \ {d}]
  <2>1. Folding(Of(U), f, U)
    BY <1>4, <1>6
  <2>2. Of(U)[U] = IF U = {} THEN 0 ELSE f[d] + Of(U)[U \ {d}]
    BY <2>1, <1>6, FoldingAt
  <2>3. CASE U = {}
    BY <2>2, <2>3
  <2>4. CASE U # {}
    <3> DEFINE V == U \ {d}
    <3>1. d \in U /\ V \in SUBSET U /\ V \in SUBSET T /\ V # T
      BY <1>6, <2>4
    <3>2. Folding(Of(V), f, V)
      BY <3>1, <1>4
    <3>3. Folding([W \in SUBSET V |-> Of(U)[W]], f, V)
      BY <2>1, <3>1, FoldingWithin
    <3>4. IsFiniteSet(V)
      BY <3>1, FS_Subset
    <3> HIDE DEF V
    <3>5. Of(V) = [W \in SUBSET V |-> Of(U)[W]]
      BY <3>2, <3>3, <3>4, FoldingUnique
    <3>6. Of(V)[V] = Of(U)[V]
      BY <3>5
    <3>7. val[V] = Of(V)[V] /\ val[U] = Of(U)[U]
      BY <3>1
    <3>8. QED
      BY <2>2, <2>4, <3>6, <3>7 DEF V
  <2>5. QED
    BY <2>3, <2>4
<1> HIDE DEF val
<1>7. ASSUME NEW U \in SUBSET T
      PROVE  jt[U] = IF U = {} THEN 0
                     ELSE f[CHOOSE x \in U : TRUE] + jt[U \ {CHOOSE x \in U : TRUE}]
  <2>1. PICK d : d = CHOOSE x \in U : TRUE
    OBVIOUS
  <2>2. U # {} => d \in U /\ U \ {d} \in SUBSET T /\ U \ {d} # T
    BY <2>1
  <2>3. U # {} => jt[U \ {d}] = val[U \ {d}]
    BY <2>2
  <2>4. U # T => jt[U] = val[U]
    OBVIOUS
  <2>5. U = T => jt[U] = IF T = {} THEN 0 ELSE f[c] + val[T \ {c}]
    OBVIOUS
  <2>6. U = T => c = d
    BY <2>1, <1>5
  <2> HIDE DEF jt
  <2>7. jt[U] = IF U = {} THEN 0 ELSE f[d] + jt[U \ {d}]
    <3>1. CASE U = T
      BY <2>2, <2>3, <2>5, <2>6, <3>1
    <3>2. CASE U # T
      <4>1. val[U] = IF U = {} THEN 0 ELSE f[d] + val[U \ {d}]
        BY <2>1, <3>2, <1>6
      <4>2. QED
        BY <4>1, <2>2, <2>3, <2>4, <3>2
    <3>3. QED
      BY <3>1, <3>2
  <2>8. QED
    BY <2>1, <2>7
<1>8. Folding(jt, f, T)
  <2>1. jt = [U \in SUBSET T |-> jt[U]]
    OBVIOUS
  <2> HIDE DEF jt
  <2>2. QED
    BY <1>7, <2>1 DEF Folding
<1>9. QED
  <2> HIDE DEF jt
  <2>1. QED
    BY <1>3, <1>8

\* A sum takes one summand after the other, in an order it chooses.
LEMMA SumChoice ==
  ASSUME NEW f, NEW S, IsFiniteSet(S)
  PROVE  /\ S = {} => SumFunctionOnSet(f, S) = 0
         /\ S # {} => \E c \in S :
              SumFunctionOnSet(f, S) = f[c] + SumFunctionOnSet(f, S \ {c})
<1>0. PICK c : c = CHOOSE x \in S : TRUE
  OBVIOUS
<1> DEFINE Of(T) == CHOOSE it : Folding(it, f, T)
<1>1. ASSUME NEW T \in SUBSET S PROVE SumFunctionOnSet(f, T) = Of(T)[T]
  BY DEF SumFunctionOnSet, FoldFunctionOnSet, MapThenFoldSet, Folding
<1>2. ASSUME NEW T \in SUBSET S PROVE Folding(Of(T), f, T)
  <2>1. IsFiniteSet(T)
    BY FS_Subset
  <2>2. \E it : Folding(it, f, T)
    BY <2>1, FoldingExists
  <2>3. QED
    BY <2>2
<1> HIDE DEF Of
<1>3. Of(S)[S] = IF S = {} THEN 0 ELSE f[c] + Of(S)[S \ {c}]
  BY <1>0, <1>2, FoldingAt
<1>4. CASE S = {}
  BY <1>1, <1>3, <1>4
<1>5. CASE S # {}
  <2> DEFINE V == S \ {c}
  <2>1. V \in SUBSET S
    OBVIOUS
  <2> HIDE DEF V
  <2>2. Folding([W \in SUBSET V |-> Of(S)[W]], f, V) /\ Folding(Of(V), f, V) /\ IsFiniteSet(V)
    <3>1. Folding(Of(S), f, S) /\ Folding(Of(V), f, V)
      BY <2>1, <1>2
    <3>2. Folding([W \in SUBSET V |-> Of(S)[W]], f, V)
      BY <2>1, <3>1, FoldingWithin
    <3>3. QED
      BY <2>1, <3>1, <3>2, FS_Subset
  <2>3. Of(V) = [W \in SUBSET V |-> Of(S)[W]]
    BY <2>2, FoldingUnique
  <2>4. Of(V)[V] = Of(S)[V]
    BY <2>3
  <2>5. c \in S
    BY <1>0, <1>5
  <2>6. QED
    BY <1>1, <1>3, <1>5, <2>1, <2>4, <2>5 DEF V
<1>6. QED
  BY <1>4, <1>5

\* A smallest subset that is not in G.
LEMMA SmallestOutside ==
  ASSUME NEW S, IsFiniteSet(S), NEW G, ~(SUBSET S \subseteq G)
  PROVE  \E T \in SUBSET S : T \notin G /\ \A U \in SUBSET T : U # T => U \in G
<1> DEFINE Wrong == {T \in SUBSET S : T \notin G}
<1>1. Wrong # {} /\ Wrong \subseteq FiniteSubsetsOf(S)
  BY FS_Subset DEF FiniteSubsetsOf
<1>2. PICK T \in Wrong : \A U \in Wrong : ~(<<U, T>> \in StrictSubsetOrdering(S))
  BY <1>1, FS_StrictSubsetOrderingWellFounded, WFMin
<1>3. ASSUME NEW U \in SUBSET T, U # T PROVE U \in G
  <2>1. <<U, T>> \in StrictSubsetOrdering(S)
    BY <1>3 DEF StrictSubsetOrdering
  <2>2. QED
    BY <2>1, <1>2
<1>4. QED
  BY <1>2, <1>3

\* A sum of integers is an integer.
LEMMA SumInt ==
  ASSUME NEW S, IsFiniteSet(S), NEW f, \A x \in S : f[x] \in Int
  PROVE  SumFunctionOnSet(f, S) \in Int
<1> DEFINE G == {T \in SUBSET S : SumFunctionOnSet(f, T) \in Int}
<1>1. SUFFICES ASSUME ~(SUBSET S \subseteq G) PROVE FALSE
  OBVIOUS
<1>2. PICK T \in SUBSET S : T \notin G /\ \A U \in SUBSET T : U # T => U \in G
  <2> HIDE DEF G
  <2>1. QED
    BY <1>1, SmallestOutside
<1>3. IsFiniteSet(T)
  BY FS_Subset
<1>4. T # {}
  BY <1>2, <1>3, SumChoice
<1>5. PICK c \in T : SumFunctionOnSet(f, T) = f[c] + SumFunctionOnSet(f, T \ {c})
  BY <1>3, <1>4, SumChoice
<1>6. T \ {c} \in G
  BY <1>2
<1>7. QED
  BY <1>2, <1>5, <1>6

\* The order of the summands does not matter.
LEMMA SumRemove ==
  ASSUME NEW S, IsFiniteSet(S), NEW f, \A x \in S : f[x] \in Int, NEW x \in S
  PROVE  SumFunctionOnSet(f, S) = f[x] + SumFunctionOnSet(f, S \ {x})
<1> DEFINE Sum(T) == SumFunctionOnSet(f, T)
           G == {T \in SUBSET S : \A y \in T : Sum(T) = f[y] + Sum(T \ {y})}
<1>1. SUFFICES ASSUME ~(SUBSET S \subseteq G) PROVE FALSE
  OBVIOUS
<1>2. PICK T \in SUBSET S : T \notin G /\ \A U \in SUBSET T : U # T => U \in G
  <2> HIDE DEF G
  <2>1. QED
    BY <1>1, SmallestOutside
<1>3. PICK y \in T : Sum(T) # f[y] + Sum(T \ {y})
  BY <1>2
<1>4. IsFiniteSet(T)
  BY FS_Subset
<1>5. PICK c \in T : Sum(T) = f[c] + Sum(T \ {c})
  BY <1>3, <1>4, SumChoice
<1>6. c # y /\ y \in T \ {c} /\ c \in T \ {y} /\ T \ {c} # T /\ T \ {y} # T
      /\ (T \ {c}) \ {y} = (T \ {y}) \ {c} /\ f[c] \in Int /\ f[y] \in Int
  BY <1>3, <1>5
<1>7. Sum((T \ {y}) \ {c}) \in Int
  <2>1. IsFiniteSet((T \ {y}) \ {c})
    BY FS_Subset
  <2>2. QED
    BY <2>1, SumInt
<1> HIDE DEF Sum
<1>8. Sum(T \ {c}) = f[y] + Sum((T \ {c}) \ {y}) /\ Sum(T \ {y}) = f[c] + Sum((T \ {y}) \ {c})
  <2>1. T \ {c} \in G /\ T \ {y} \in G
    BY <1>2, <1>6
  <2>2. QED
    BY <2>1, <1>6
<1>9. Sum(T) = f[y] + Sum(T \ {y})
  <2>1. PICK rest : rest = (T \ {y}) \ {c}
    OBVIOUS
  <2>2. rest = (T \ {c}) \ {y}
    BY <1>6, <2>1
  <2>3. Sum(T \ {c}) = f[y] + Sum(rest) /\ Sum(T \ {y}) = f[c] + Sum(rest) /\ Sum(rest) \in Int
    BY <1>7, <1>8, <2>1, <2>2
  <2>4. Sum(T) = f[c] + Sum(T \ {c}) /\ f[c] \in Int /\ f[y] \in Int
    BY <1>5, <1>6
  <2>5. QED
    BY <2>3, <2>4
<1>10. QED
  BY <1>3, <1>9

\* One member more is one more summand.
LEMMA SumExtend ==
  ASSUME NEW T, IsFiniteSet(T), NEW f, NEW x, x \notin T, \A y \in T \union {x} : f[y] \in Int
  PROVE  SumFunctionOnSet(f, T \union {x}) = f[x] + SumFunctionOnSet(f, T)
<1>1. IsFiniteSet(T \union {x}) /\ x \in T \union {x} /\ (T \union {x}) \ {x} = T
  BY FS_AddElement
<1> DEFINE S == T \union {x}
<1>2. IsFiniteSet(S) /\ x \in S /\ \A y \in S : f[y] \in Int
  BY <1>1
<1> HIDE DEF S
<1>3. SumFunctionOnSet(f, S) = f[x] + SumFunctionOnSet(f, S \ {x})
  BY <1>2, SumRemove
<1>4. QED
  BY <1>1, <1>3 DEF S

\* What the sums of f, g and h over a set have in common with their members.
LEMMA SumMinus ==
  ASSUME NEW S, IsFiniteSet(S), NEW f, NEW g, NEW h,
         \A x \in S : f[x] \in Int /\ g[x] \in Int /\ h[x] = f[x] - g[x]
  PROVE  SumFunctionOnSet(h, S) = SumFunctionOnSet(f, S) - SumFunctionOnSet(g, S)
<1> DEFINE G == {T \in SUBSET S : SumFunctionOnSet(h, T) =
                                    SumFunctionOnSet(f, T) - SumFunctionOnSet(g, T)}
<1>1. {} \in G
  BY SumChoice, FS_EmptySet
<1>2. ASSUME NEW T \in SUBSET S, NEW x \in S \ T, T \in G PROVE T \union {x} \in G
  <2>1. IsFiniteSet(T)
    BY FS_Subset
  <2>2. \A y \in T \union {x} : f[y] \in Int /\ g[y] \in Int /\ h[y] \in Int /\ h[y] = f[y] - g[y]
    OBVIOUS
  <2>3. SumFunctionOnSet(f, T) \in Int /\ SumFunctionOnSet(g, T) \in Int
    BY <2>1, <2>2, SumInt
  <2>4. SumFunctionOnSet(f, T \union {x}) = f[x] + SumFunctionOnSet(f, T)
    BY <2>1, <2>2, SumExtend
  <2>5. SumFunctionOnSet(g, T \union {x}) = g[x] + SumFunctionOnSet(g, T)
    BY <2>1, <2>2, SumExtend
  <2>6. SumFunctionOnSet(h, T \union {x}) = h[x] + SumFunctionOnSet(h, T)
    BY <2>1, <2>2, SumExtend
  <2>7. SumFunctionOnSet(h, T) = SumFunctionOnSet(f, T) - SumFunctionOnSet(g, T)
    BY <1>2
  <2>8. SumFunctionOnSet(h, T \union {x}) =
          SumFunctionOnSet(f, T \union {x}) - SumFunctionOnSet(g, T \union {x})
    BY <2>2, <2>3, <2>4, <2>5, <2>6, <2>7
  <2>9. QED
    BY <2>8
<1> HIDE DEF G
<1>3. \A T \in SUBSET S : T \in G
  BY <1>1, <1>2, SubsetsInduct
<1>4. QED
  BY <1>3 DEF G

\* Sums of equal summands, and of multiples.
LEMMA SumAgrees ==
  ASSUME NEW S, IsFiniteSet(S), NEW f, NEW g, \A x \in S : f[x] \in Int /\ g[x] = f[x]
  PROVE  SumFunctionOnSet(g, S) = SumFunctionOnSet(f, S)
<1> DEFINE zero == [x \in S |-> 0]
<1>1. \A x \in S : zero[x] \in Int /\ zero[x] = zero[x] - zero[x] /\ g[x] = f[x] - zero[x]
  OBVIOUS
<1> HIDE DEF zero
<1>2. SumFunctionOnSet(zero, S) = SumFunctionOnSet(zero, S) - SumFunctionOnSet(zero, S)
  BY <1>1, SumMinus
<1>3. SumFunctionOnSet(g, S) = SumFunctionOnSet(f, S) - SumFunctionOnSet(zero, S)
  BY <1>1, SumMinus
<1>4. SumFunctionOnSet(zero, S) \in Int /\ SumFunctionOnSet(f, S) \in Int
  BY <1>1, SumInt
<1>5. QED
  BY <1>2, <1>3, <1>4

LEMMA SumScaled ==
  ASSUME NEW S, IsFiniteSet(S), NEW f, NEW g, NEW m \in Int,
         \A x \in S : f[x] \in Int /\ g[x] = m * f[x]
  PROVE  SumFunctionOnSet(g, S) = m * SumFunctionOnSet(f, S)
<1> DEFINE G == {T \in SUBSET S : SumFunctionOnSet(g, T) = m * SumFunctionOnSet(f, T)}
<1>1. {} \in G
  BY SumChoice, FS_EmptySet
<1>2. ASSUME NEW T \in SUBSET S, NEW x \in S \ T, T \in G PROVE T \union {x} \in G
  <2>1. IsFiniteSet(T)
    BY FS_Subset
  <2>2. \A y \in T \union {x} : f[y] \in Int /\ g[y] \in Int /\ g[y] = m * f[y]
    OBVIOUS
  <2>3. SumFunctionOnSet(f, T) \in Int
    BY <2>1, <2>2, SumInt
  <2>4. SumFunctionOnSet(f, T \union {x}) = f[x] + SumFunctionOnSet(f, T)
    BY <2>1, <2>2, SumExtend
  <2>5. SumFunctionOnSet(g, T \union {x}) = g[x] + SumFunctionOnSet(g, T)
    BY <2>1, <2>2, SumExtend
  <2>6. SumFunctionOnSet(g, T) = m * SumFunctionOnSet(f, T)
    BY <1>2
  <2>7. \A a, b \in Int : m * a + m * b = m * (a + b)
    BY Z3
  <2>8. SumFunctionOnSet(g, T \union {x}) = m * SumFunctionOnSet(f, T \union {x})
    BY <2>2, <2>3, <2>4, <2>5, <2>6, <2>7
  <2>9. QED
    BY <2>8
<1> HIDE DEF G
<1>3. \A T \in SUBSET S : T \in G
  BY <1>1, <1>2, SubsetsInduct
<1>4. QED
  BY <1>3 DEF G

\* The sum of a constant, and of what is bounded by one.
LEMMA SumBounded ==
  ASSUME NEW S, IsFiniteSet(S), NEW f, NEW m \in Int, \A x \in S : f[x] \in Int
  PROVE  /\ (\A x \in S : f[x] <= m) => SumFunctionOnSet(f, S) <= m * Cardinality(S)
         /\ (\A x \in S : m <= f[x]) => m * Cardinality(S) <= SumFunctionOnSet(f, S)
<1> DEFINE Sum(T) == SumFunctionOnSet(f, T)
           G == {T \in SUBSET S :
                   /\ (\A x \in T : f[x] <= m) => Sum(T) <= m * Cardinality(T)
                   /\ (\A x \in T : m <= f[x]) => m * Cardinality(T) <= Sum(T)}
<1>1. {} \in G
  <2>1. Sum({}) = 0 /\ m * Cardinality({}) = 0
    BY SumChoice, FS_EmptySet
  <2>2. QED
    BY <2>1
<1>2. ASSUME NEW T \in SUBSET S, NEW x \in S \ T, T \in G PROVE T \union {x} \in G
  <2>1. IsFiniteSet(T)
    BY FS_Subset
  <2>2. \A y \in T \union {x} : f[y] \in Int
    OBVIOUS
  <2>3. Sum(T) \in Int
    BY <2>1, <2>2, SumInt
  <2>4. Sum(T \union {x}) = f[x] + Sum(T)
    BY <2>1, <2>2, SumExtend
  <2>5. Cardinality(T \union {x}) = Cardinality(T) + 1 /\ Cardinality(T) \in Nat
    BY <2>1, FS_AddElement, FS_CardinalityType
  <2> DEFINE n == Cardinality(T)
  <2>6. m * Cardinality(T \union {x}) = m * n + m /\ m * n \in Int
    <3>1. \A k \in Nat : m * (k + 1) = m * k + m
      BY Z3
    <3> HIDE DEF n
    <3>2. QED
      BY <3>1, <2>5 DEF n
  <2> HIDE DEF Sum, n
  <2>7. /\ (\A y \in T : f[y] <= m) => Sum(T) <= m * n
        /\ (\A y \in T : m <= f[y]) => m * n <= Sum(T)
    BY <1>2 DEF n
  <2>8. /\ (\A y \in T \union {x} : f[y] <= m) => Sum(T \union {x}) <= m * n + m
        /\ (\A y \in T \union {x} : m <= f[y]) => m * n + m <= Sum(T \union {x})
    BY <2>2, <2>3, <2>4, <2>6, <2>7
  <2>9. QED
    BY <2>6, <2>8
<1> HIDE DEF G
<1>3. \A T \in SUBSET S : T \in G
  BY <1>1, <1>2, SubsetsInduct
<1>4. QED
  BY <1>3 DEF G

-------------------------------------------------------------------------------
(* 7. Experiments compared                                                 *)

\* What is known of the repetitions of an experiment.
RunSeq(a) == /\ Len(a) \in 0..MaxRuns /\ DOMAIN a = 1..Len(a)
             /\ \A k \in DOMAIN a : a[k] \in Values \union {Censored}

LEMMA RecoveriesAre ==
  ASSUME NEW a \in Recoveries
  PROVE  RunSeq(a) /\ a \in Seq(Values \union {Censored})
<1>1. PICK m \in 0..MaxRuns : a \in [1..m -> Values \union {Censored}]
  BY DEF Recoveries, BoundedSeq, SeqOf
<1>2. m \in Nat /\ m <= MaxRuns
  BY <1>1, ComparisonAssumption
<1>3. a \in Seq(Values \union {Censored})
  BY <1>1, <1>2
<1>4. DOMAIN a = 1..Len(a) /\ Len(a) \in Nat
  BY <1>3, LenProperties
<1>5. Len(a) = m
  <2>1. DOMAIN a = 1..m
    BY <1>1
  <2>2. QED
    BY <2>1, <1>2, <1>4
<1>6. QED
  BY <1>1, <1>2, <1>3, <1>4, <1>5 DEF RunSeq

\* The pairs of which both runs recovered.
Pairs(a, b) == {k \in 1..Min({Len(a), Len(b)}) : a[k] # Censored /\ b[k] # Censored}

\* The first runs of a that recovered.
FirstFinite(a, n) == {k \in 1..n : a[k] # Censored}

\* What is left when a is cut to its first n runs.
LEMMA FirstRuns ==
  ASSUME NEW a, RunSeq(a), NEW n \in 0..Len(a), NEW x, x = SubSeq(a, 1, n)
  PROVE  /\ DOMAIN x = 1..n /\ \A k \in 1..n : x[k] = a[k]
         /\ Finite(x) = FirstFinite(a, n)
         /\ HasCensored(x) <=> FirstFinite(a, n) # 1..n
<1>1. n \in Nat /\ \A i \in 1..n : a[i] \in Values \union {Censored}
  BY ComparisonAssumption DEF RunSeq
<1>2. x \in Seq(Values \union {Censored})
      /\ Len(x) = (IF 1 <= n THEN n - 1 + 1 ELSE 0)
      /\ \A i \in 1..(n - 1 + 1) : x[i] = a[1 + i - 1]
  BY <1>1, SubSeqProperties
<1>3. Len(x) = n /\ \A i \in 1..n : x[i] = a[i]
  BY <1>1, <1>2
<1>4. DOMAIN x = 1..n
  BY <1>2, <1>3, LenProperties
<1>5. QED
  BY <1>3, <1>4 DEF Finite, FirstFinite, HasCensored, ToSet

\* The number of pairs.
LEMMA Matched ==
  ASSUME NEW a, RunSeq(a), NEW b, RunSeq(b), NEW n, n = Min({Len(a), Len(b)})
  PROVE  /\ n \in Nat /\ n <= Len(a) /\ n <= Len(b) /\ n <= MaxRuns
         /\ (n = Len(a) \/ n = Len(b)) /\ n = Min({Len(b), Len(a)})
<1>1. Len(a) \in Nat /\ Len(b) \in Nat /\ Len(a) <= MaxRuns /\ MaxRuns \in Nat
  BY ComparisonAssumption DEF RunSeq
<1>2. PICK lengths : lengths = {Len(a), Len(b)}
  OBVIOUS
<1>3. lengths \in SUBSET Nat /\ lengths # {} /\ lengths = {Len(b), Len(a)} /\ n = Min(lengths)
  BY <1>1, <1>2
<1>4. n \in lengths /\ \A m \in lengths : n <= m
  BY <1>3, MinNatural
<1>5. n = Min({Len(b), Len(a)})
  BY <1>3
<1>6. (n = Len(a) \/ n = Len(b)) /\ n <= Len(a) /\ n <= Len(b)
  BY <1>2, <1>4
<1>7. QED
  BY <1>1, <1>5, <1>6

\* Inclusion and exclusion: what is left of two sets of runs.
LEMMA LeftOf ==
  ASSUME NEW n \in Nat, NEW A \in SUBSET (1..n), NEW B \in SUBSET (1..n)
  PROVE  /\ IsFiniteSet(A \intersect B) /\ Cardinality(A \intersect B) \in Nat
         /\ Cardinality(A) \in 0..n /\ Cardinality(B) \in 0..n
         /\ Cardinality(A \intersect B) <= Cardinality(A)
         /\ Cardinality(A \intersect B) <= Cardinality(B)
         /\ Cardinality(A \intersect B) >= Cardinality(A) + Cardinality(B) - n
         /\ Cardinality(A) = n <=> A = 1..n
         /\ Cardinality(A \intersect B) < n <=> (A # 1..n \/ B # 1..n)
<1>1. IsFiniteSet(1..n) /\ Cardinality(1..n) = n
  <2>1. 0 \in Int /\ 1 \in Int /\ n \in Int
    OBVIOUS
  <2>2. Cardinality(1..n) = IF 1 > n THEN 0 ELSE n - 1 + 1
    BY <2>1, FS_Interval
  <2>3. QED
    BY <2>1, <2>2, FS_Interval
<1>2. \A C \in SUBSET (1..n) : IsFiniteSet(C) /\ Cardinality(C) \in Nat /\ Cardinality(C) <= n
                               /\ (Cardinality(C) = n => C = 1..n)
  BY <1>1, FS_Subset, FS_CardinalityType
<1> DEFINE C == A \intersect B
           D == A \union B
<1>3. C \in SUBSET (1..n) /\ D \in SUBSET (1..n) /\ C \in SUBSET A /\ C \in SUBSET B
  OBVIOUS
<1>4. Cardinality(D) = Cardinality(A) + Cardinality(B) - Cardinality(C)
  BY <1>2, FS_Union
<1>5. Cardinality(C) <= Cardinality(A) /\ Cardinality(C) <= Cardinality(B)
  BY <1>2, <1>3, FS_Subset
<1>6. C = 1..n <=> A = 1..n /\ B = 1..n
  OBVIOUS
<1> HIDE DEF C, D
<1>7. IsFiniteSet(C) /\ Cardinality(C) \in Nat /\ Cardinality(C) <= n
      /\ (Cardinality(C) = n <=> C = 1..n) /\ (Cardinality(A) = n <=> A = 1..n)
      /\ Cardinality(D) \in Nat /\ Cardinality(D) <= n
      /\ Cardinality(A) \in Nat /\ Cardinality(A) <= n
      /\ Cardinality(B) \in Nat /\ Cardinality(B) <= n
  BY <1>1, <1>2, <1>3
<1>8. Cardinality(C) >= Cardinality(A) + Cardinality(B) - n
  BY <1>4, <1>7
<1>9. Cardinality(C) < n <=> (A # 1..n \/ B # 1..n)
  BY <1>6, <1>7
<1>10. QED
  BY <1>5, <1>7, <1>8, <1>9 DEF C

\* effect.a and effect.b count the runs that recovered, whatever the kind.
LEMMA EffectIs ==
  ASSUME NEW a, RunSeq(a), NEW b, RunSeq(b), NEW n, n = Min({Len(a), Len(b)})
  PROVE  /\ Effect(a, b).n = n
         /\ Effect(a, b).a = Cardinality(FirstFinite(a, n))
         /\ Effect(a, b).b = Cardinality(FirstFinite(b, n))
         /\ Effect(a, b).kind =
              IF FirstFinite(a, n) # 1..n \/ FirstFinite(b, n) # 1..n THEN "rates"
              ELSE IF n >= 2 THEN "d" ELSE "none"
         /\ Effect(a, b).kind # "d" => Effect(a, b).d = 0
         /\ Effect(a, b).kind = "d" =>
              Effect(a, b).d = CohensD(SubSeq(a, 1, n), SubSeq(b, 1, n))
<1>1. n \in Nat /\ n \in 0..Len(a) /\ n \in 0..Len(b)
  <2>1. n \in Nat /\ n <= Len(a) /\ n <= Len(b) /\ Len(a) \in Int /\ Len(b) \in Int
    BY Matched DEF RunSeq
  <2>2. QED
    BY <2>1
<1> DEFINE x == SubSeq(a, 1, n)
           y == SubSeq(b, 1, n)
           A == FirstFinite(a, n)
           B == FirstFinite(b, n)
<1>2. Finite(x) = A /\ (HasCensored(x) <=> A # 1..n)
  BY <1>1, FirstRuns
<1>3. Finite(y) = B /\ (HasCensored(y) <=> B # 1..n)
  BY <1>1, FirstRuns
<1>4. A \in SUBSET (1..n) /\ B \in SUBSET (1..n)
  BY DEF FirstFinite
<1>5. (A = 1..n => Cardinality(A) = n) /\ (B = 1..n => Cardinality(B) = n)
  BY <1>1, <1>4, LeftOf
<1>6. Effect(a, b) =
        IF HasCensored(x) \/ HasCensored(y)
        THEN [n |-> n, kind |-> "rates", a |-> Cardinality(Finite(x)),
              b |-> Cardinality(Finite(y)), d |-> 0]
        ELSE [n |-> n, kind |-> IF n >= 2 THEN "d" ELSE "none", a |-> n, b |-> n,
              d |-> IF n >= 2 THEN CohensD(x, y) ELSE 0]
  BY DEF Effect
<1> HIDE DEF x, y, A, B
<1>7. CASE HasCensored(x) \/ HasCensored(y)
  <2>1. Effect(a, b) = [n |-> n, kind |-> "rates", a |-> Cardinality(A), b |-> Cardinality(B),
                        d |-> 0]
    BY <1>2, <1>3, <1>6, <1>7
  <2>2. QED
    BY <2>1, <1>2, <1>3, <1>7 DEF A, B
<1>8. CASE ~(HasCensored(x) \/ HasCensored(y))
  <2>1. Effect(a, b) = [n |-> n, kind |-> IF n >= 2 THEN "d" ELSE "none", a |-> n, b |-> n,
                        d |-> IF n >= 2 THEN CohensD(x, y) ELSE 0]
    BY <1>6, <1>8
  <2>2. A = 1..n /\ B = 1..n
    BY <1>2, <1>3, <1>8
  <2>3. QED
    BY <2>1, <2>2, <1>1, <1>5 DEF A, B, x, y
<1>9. QED
  BY <1>7, <1>8

\* The differences of the pairs add up to the difference of the sums.
LEMMA DifferencesAre ==
  ASSUME NEW a, RunSeq(a), NEW b, RunSeq(b)
  PROVE  /\ DOMAIN Differences(a, b) = Pairs(a, b)
         /\ \A k \in Pairs(a, b) :
              a[k] \in Int /\ b[k] \in Int /\ Differences(a, b)[k] = a[k] - b[k]
         /\ Pairs(b, a) = Pairs(a, b) /\ IsFiniteSet(Pairs(a, b))
         /\ SumFunction(Differences(a, b)) =
              SumFunctionOnSet(a, Pairs(a, b)) - SumFunctionOnSet(b, Pairs(a, b))
<1> DEFINE Q == Pairs(a, b)
           d == Differences(a, b)
           n == Min({Len(a), Len(b)})
<1>1. n \in Nat /\ n <= Len(a) /\ n <= Len(b) /\ n = Min({Len(b), Len(a)})
  BY Matched
<1>2. DOMAIN d = Q /\ \A k \in Q : d[k] = a[k] - b[k]
  BY DEF Differences, Pairs
<1>3. Pairs(b, a) = Q
  BY <1>1 DEF Pairs
<1>4. \A k \in Q : a[k] \in Int /\ b[k] \in Int
  <2>1. \A k \in Q : k \in 1..n
    BY DEF Pairs
  <2> HIDE DEF Q, n
  <2>2. Len(a) \in Nat /\ Len(b) \in Nat
    BY ComparisonAssumption DEF RunSeq
  <2>3. \A k \in 1..n : k \in 1..Len(a) /\ k \in 1..Len(b)
    BY <1>1, <2>2
  <2>4. \A k \in Q : a[k] \in Values \union {Censored} /\ b[k] \in Values \union {Censored}
    BY <2>1, <2>3 DEF RunSeq
  <2>5. \A v \in Values \union {Censored} : v \in Int
    BY MatrixAssumption
  <2>6. QED
    BY <2>4, <2>5
<1>5. IsFiniteSet(Q)
  <2>1. IsFiniteSet(1..n)
    <3>1. 1 \in Int /\ n \in Int
      BY <1>1
    <3>2. QED
      BY <3>1, FS_Interval
  <2>2. Q \in SUBSET (1..n)
    BY DEF Pairs
  <2>3. QED
    BY <2>1, <2>2, FS_Subset
<1> HIDE DEF Q, d, n
<1>6. SumFunctionOnSet(d, Q) = SumFunctionOnSet(a, Q) - SumFunctionOnSet(b, Q)
  BY <1>2, <1>4, <1>5, SumMinus
<1>7. SumFunction(d) = SumFunctionOnSet(d, Q)
  BY <1>2 DEF SumFunction
<1>8. QED
  BY <1>2, <1>3, <1>4, <1>5, <1>6, <1>7 DEF Q, d

\* Scale is a multiple of every count that is divided by.
LEMMA Multiple ==
  ASSUME NEW n \in Nat \ {0}, Scale % n = 0
  PROVE  \E k \in Nat \ {0} : Scale = k * n
<1>1. Scale \in Nat \ {0}
  BY MatrixAssumption
<1>2. \A x \in Nat, y \in Nat \ {0} : x % y = 0 => x = (x \div y) * y /\ x \div y \in Nat
  BY Z3
<1>3. PICK k \in Nat : Scale = k * n
  BY <1>1, <1>2
<1>4. \A y \in Int : 0 * y = 0
  BY Z3
<1>5. k # 0
  BY <1>1, <1>3, <1>4
<1>6. QED
  BY <1>3, <1>5

\* A mean is not rounded.
LEMMA MeanExact ==
  ASSUME NEW s \in Int, NEW n \in Nat \ {0}, NEW k \in Nat \ {0}, Scale = k * n
  PROVE  (Scale * s) \div n = k * s /\ k * s \in Int
<1>1. (k * n) * s = (k * s) * n /\ k * s \in Int
  BY Z3
<1>2. \A x \in Int : (x * n) \div n = x
  BY Z3
<1>3. QED
  BY <1>1, <1>2

\* A mean points the way of the sum.
LEMMA SignOfMean ==
  ASSUME NEW s \in Int, NEW n \in Nat \ {0}, Scale % n = 0
  PROVE  /\ (Scale * s) \div n \in Int
         /\ SignOf((Scale * s) \div n) = SignOf(s)
<1>1. PICK k \in Nat \ {0} : Scale = k * n
  BY Multiple
<1>2. (Scale * s) \div n = k * s
  BY <1>1, MeanExact
<1>3. /\ k * s \in Int
      /\ (s > 0 => k * s > 0) /\ (s < 0 => k * s < 0) /\ (s = 0 => k * s = 0)
  BY Z3
<1>4. SignOf(k * s) = SignOf(s)
  BY <1>3 DEF SignOf
<1>5. QED
  BY <1>2, <1>3, <1>4

\* Exchanging the experiments turns a sign around.
LEMMA SignOpposite ==
  ASSUME NEW s \in Int, NEW t \in Int
  PROVE  /\ SignOf(s - t) \in Int /\ SignOf(t - s) \in Int
         /\ SignOf(s - t) = 0 - SignOf(t - s)
BY DEF SignOf

LEMMA Opposite ==
  ASSUME NEW s \in Int, NEW t, t = 0 - s
  PROVE  t = -s
OBVIOUS

\* Cohen's d of two experiments, and with the experiments exchanged.
LEMMA CohensDIs ==
  ASSUME NEW a, RunSeq(a), NEW b, RunSeq(b), NEW n, n = Min({Len(a), Len(b)})
  PROVE  /\ SumFunctionOnSet(a, 1..n) \in Int /\ SumFunctionOnSet(b, 1..n) \in Int
         /\ CohensD(SubSeq(a, 1, n), SubSeq(b, 1, n)) \in
              {0, SignOf(SumFunctionOnSet(a, 1..n) - SumFunctionOnSet(b, 1..n))}
         /\ CohensD(SubSeq(b, 1, n), SubSeq(a, 1, n)) = -CohensD(SubSeq(a, 1, n), SubSeq(b, 1, n))
<1> DEFINE x == SubSeq(a, 1, n)
           y == SubSeq(b, 1, n)
<1>1. n \in Nat /\ n \in 0..Len(a) /\ n \in 0..Len(b)
  <2>1. n \in Nat /\ n <= Len(a) /\ n <= Len(b)
    BY Matched
  <2>2. Len(a) \in Int /\ Len(b) \in Int
    BY DEF RunSeq
  <2>3. QED
    BY <2>1, <2>2
<1>2. IsFiniteSet(1..n)
  BY <1>1, FS_Interval
<1>3. ASSUME NEW c, RunSeq(c), n \in 0..Len(c), NEW z, z = SubSeq(c, 1, n)
      PROVE  SumFunction(z) = SumFunctionOnSet(c, 1..n) /\ SumFunctionOnSet(c, 1..n) \in Int
  <2>1. DOMAIN z = 1..n /\ \A k \in 1..n : z[k] = c[k]
    BY ONLY <1>3, FirstRuns
  <2>2. \A k \in 1..n : c[k] \in Int
    <3>1. \A k \in 1..n : k \in 1..Len(c)
      BY <1>1, <1>3
    <3>2. \A v \in Values \union {Censored} : v \in Int
      BY MatrixAssumption
    <3>3. QED
      BY <3>1, <3>2, <1>3 DEF RunSeq
  <2>3. SumFunctionOnSet(z, 1..n) = SumFunctionOnSet(c, 1..n)
    BY <1>2, <2>1, <2>2, SumAgrees
  <2>4. SumFunctionOnSet(c, 1..n) \in Int
    BY <1>2, <2>2, SumInt
  <2>5. QED
    BY <2>1, <2>3, <2>4 DEF SumFunction
<1>4. SumFunction(x) = SumFunctionOnSet(a, 1..n) /\ SumFunctionOnSet(a, 1..n) \in Int
  BY <1>1, <1>3
<1>5. SumFunction(y) = SumFunctionOnSet(b, 1..n) /\ SumFunctionOnSet(b, 1..n) \in Int
  BY <1>1, <1>3
<1> HIDE DEF x, y
<1>6. PICK s \in Int : s = SumFunction(x)
  BY <1>4
<1>7. PICK t \in Int : t = SumFunction(y)
  BY <1>5
<1>8. CohensD(x, y) = (IF Constant(x) /\ Constant(y) THEN 0 ELSE SignOf(s - t))
      /\ CohensD(y, x) = (IF Constant(y) /\ Constant(x) THEN 0 ELSE SignOf(t - s))
  BY <1>6, <1>7 DEF CohensD
<1>9. SignOf(s - t) \in Int /\ SignOf(t - s) \in Int /\ SignOf(t - s) = 0 - SignOf(s - t)
  BY SignOpposite
<1>10. CohensD(y, x) = -CohensD(x, y)
  <2>1. CohensD(x, y) \in Int /\ CohensD(y, x) = 0 - CohensD(x, y)
    BY <1>8, <1>9
  <2>2. QED
    BY <2>1, Opposite
<1>11. QED
  BY <1>4, <1>5, <1>6, <1>7, <1>8, <1>10 DEF x, y

\* The paired effect, and the other way round.
LEMMA PairedEffectIs ==
  ASSUME NEW a, RunSeq(a), NEW b, RunSeq(b)
  PROVE  /\ SumFunction(Differences(a, b)) \in Int
         /\ CohensDPaired(Differences(a, b)) \in {0, SignOf(SumFunction(Differences(a, b)))}
         /\ CohensDPaired(Differences(b, a)) = -CohensDPaired(Differences(a, b))
<1> DEFINE d == Differences(a, b)
           e == Differences(b, a)
           Q == Pairs(a, b)
<1>1. DOMAIN d = Q /\ DOMAIN e = Q
      /\ (\A k \in Q : a[k] \in Int /\ b[k] \in Int /\ d[k] = a[k] - b[k])
      /\ IsFiniteSet(Q)
      /\ SumFunction(d) = SumFunctionOnSet(a, Q) - SumFunctionOnSet(b, Q)
  BY DifferencesAre
<1>2. (\A k \in Q : e[k] = b[k] - a[k])
      /\ SumFunction(e) = SumFunctionOnSet(b, Q) - SumFunctionOnSet(a, Q)
  <2>1. (\A k \in Pairs(b, a) : e[k] = b[k] - a[k])
        /\ SumFunction(e) = SumFunctionOnSet(b, Pairs(b, a)) - SumFunctionOnSet(a, Pairs(b, a))
        /\ Pairs(b, a) = Q
    BY DifferencesAre
  <2>2. QED
    BY <2>1
<1> HIDE DEF d, e, Q
<1>3. SumFunctionOnSet(a, Q) \in Int /\ SumFunctionOnSet(b, Q) \in Int
  BY <1>1, SumInt
<1>4. Constant(d) <=> Constant(e)
  <2>1. \A j, k \in Q : d[j] = d[k] <=> e[j] = e[k]
    BY <1>1, <1>2
  <2>2. QED
    BY <1>1, <2>1 DEF Constant
<1>5. PICK s \in Int, t \in Int : s = SumFunctionOnSet(a, Q) /\ t = SumFunctionOnSet(b, Q)
  BY <1>3
<1>6. SumFunction(d) = s - t /\ SumFunction(e) = t - s
  BY <1>1, <1>2, <1>5
<1>7. SignOf(s - t) \in Int /\ SignOf(t - s) \in Int /\ SignOf(t - s) = 0 - SignOf(s - t)
  BY SignOpposite
<1>8. CohensDPaired(d) = (IF Cardinality(Q) < 2 \/ Constant(d) THEN 0 ELSE SignOf(s - t))
      /\ CohensDPaired(e) = (IF Cardinality(Q) < 2 \/ Constant(e) THEN 0 ELSE SignOf(t - s))
  BY <1>1, <1>6 DEF CohensDPaired
<1>9. CohensDPaired(e) = -CohensDPaired(d)
  <2>1. CohensDPaired(d) \in Int /\ CohensDPaired(e) = 0 - CohensDPaired(d)
    BY <1>4, <1>7, <1>8
  <2>2. QED
    BY <2>1, Opposite
<1>10. QED
  BY <1>6, <1>8, <1>9 DEF d, e

\* The paired summary: what it counts, and where its difference points.
LEMMA PairedIs ==
  ASSUME NEW a, RunSeq(a), NEW b, RunSeq(b), NEW n, n = Min({Len(a), Len(b)})
  PROVE  /\ Paired(a, b).n = n
         /\ Paired(a, b).censored = n - Cardinality(Pairs(a, b))
         /\ Pairs(a, b) = FirstFinite(a, n) \intersect FirstFinite(b, n)
         /\ Paired(a, b).difference # Undefined <=> Pairs(a, b) # {}
         /\ Pairs(a, b) # {} =>
              SignOf(Paired(a, b).difference) = SignOf(SumFunction(Differences(a, b)))
<1> DEFINE Q == Pairs(a, b)
           d == Differences(a, b)
<1>1. DOMAIN d = Q /\ IsFiniteSet(Q) /\ SumFunction(d) \in Int
  BY DifferencesAre, PairedEffectIs
<1>2. Paired(a, b).n = n /\ Paired(a, b).censored = n - Cardinality(Q)
      /\ Paired(a, b).difference = MeanOver(d, Q)
  <2> HIDE DEF Q, d
  <2>1. Paired(a, b) = [n |-> n, censored |-> n - Cardinality(DOMAIN d),
                        difference |-> MeanOver(d, DOMAIN d)]
    BY DEF Paired, d
  <2>2. QED
    BY <1>1, <2>1
<1>3. Q = FirstFinite(a, n) \intersect FirstFinite(b, n)
  BY DEF Pairs, FirstFinite
<1>4. n \in Nat /\ n <= MaxRuns /\ MaxRuns \in Nat
  BY Matched, ComparisonAssumption
<1> HIDE DEF Q, d
<1>5. Q # {} => Cardinality(Q) \in Nat \ {0} /\ Cardinality(Q) <= n
  <2>1. Q \in SUBSET (1..n)
    BY <1>3 DEF FirstFinite
  <2>2. Cardinality(Q) \in Nat /\ (Cardinality(Q) = 0 <=> Q = {})
    BY <1>1, FS_CardinalityType, FS_EmptySet
  <2>3. Cardinality(1..n) = n /\ IsFiniteSet(1..n)
    <3>1. 1 \in Int /\ n \in Int
      BY <1>4
    <3>2. Cardinality(1..n) = IF 1 > n THEN 0 ELSE n - 1 + 1
      BY <3>1, FS_Interval
    <3>3. QED
      BY <3>1, <3>2, <1>4, FS_Interval
  <2>4. QED
    BY <2>1, <2>2, <2>3, FS_Subset
<1>6. ASSUME Q # {}
      PROVE  MeanOver(d, Q) \in Int /\ SignOf(MeanOver(d, Q)) = SignOf(SumFunction(d))
  <2>1. MeanOver(d, Q) = (Scale * SumFunction(d)) \div Cardinality(Q)
    BY <1>1, <1>6 DEF MeanOver, SumFunction
  <2>2. Cardinality(Q) \in Nat \ {0} /\ Cardinality(Q) \in 1..MaxRuns
    BY <1>4, <1>5, <1>6
  <2>3. Scale % Cardinality(Q) = 0
    BY <2>2, ComparisonAssumption
  <2>4. QED
    BY <1>1, <2>1, <2>2, <2>3, SignOfMean
<1>7. Q = {} => MeanOver(d, Q) = Undefined
  BY DEF MeanOver
<1>8. Undefined \notin Int
  BY MatrixAssumption
<1>9. QED
  BY <1>2, <1>3, <1>6, <1>7, <1>8 DEF Q, d

\* The independent and the paired view, of two experiments.
PairAgrees(a, b, effect) ==
  LET pairs  == PairedRuns(a, b)  paired == pairs.metric
      left   == paired.summary.n - paired.summary.censored
      back   == Effect(b, a)  pairedBack == PairMetric(b, a)
  IN /\ effect.n = pairs.matched /\ effect.n = paired.summary.n
     /\ ~pairs.unbalanced => effect.n = Len(a) /\ effect.n = Len(b)
     /\ effect.kind = "rates" <=> paired.summary.censored > 0
     /\ left <= Min({effect.a, effect.b}) /\ left >= effect.a + effect.b - effect.n
     /\ left > 0 <=> paired.summary.difference # Undefined
     /\ effect.kind = "d" =>
          {effect.d, paired.d} \subseteq {0, SignOf(paired.summary.difference)}
     /\ back.kind = effect.kind /\ back.d = -effect.d /\ pairedBack.d = -paired.d
     /\ back.a = effect.b /\ back.b = effect.a

LEMMA ViewsOfPair ==
  ASSUME NEW a, RunSeq(a), NEW b, RunSeq(b)
  PROVE  PairAgrees(a, b, Effect(a, b))
<1> DEFINE n == Min({Len(a), Len(b)})
           A == FirstFinite(a, n)
           B == FirstFinite(b, n)
           Q == A \intersect B
           effect == Effect(a, b)
           back == Effect(b, a)
           summary == Paired(a, b)
           d == Differences(a, b)
<1>1. n \in Nat /\ n <= Len(a) /\ n <= Len(b) /\ (n = Len(a) \/ n = Len(b))
      /\ n = Min({Len(b), Len(a)}) /\ Len(a) \in Nat /\ Len(b) \in Nat
  <2>1. Len(a) \in Nat /\ Len(b) \in Nat
    BY ComparisonAssumption DEF RunSeq
  <2>2. QED
    BY <2>1, Matched
<1>2. /\ IsFiniteSet(Q) /\ Cardinality(Q) \in Nat
      /\ Cardinality(A) \in 0..n /\ Cardinality(B) \in 0..n
      /\ Cardinality(Q) <= Cardinality(A) /\ Cardinality(Q) <= Cardinality(B)
      /\ Cardinality(Q) >= Cardinality(A) + Cardinality(B) - n
      /\ (Cardinality(Q) < n <=> (A # 1..n \/ B # 1..n))
  <2>1. A \in SUBSET (1..n) /\ B \in SUBSET (1..n)
    BY DEF FirstFinite
  <2> HIDE DEF A, B, n
  <2>2. QED
    BY <1>1, <2>1, LeftOf
<1>3. /\ effect.n = n /\ effect.a = Cardinality(A) /\ effect.b = Cardinality(B)
      /\ effect.kind = (IF A # 1..n \/ B # 1..n THEN "rates" ELSE IF n >= 2 THEN "d" ELSE "none")
      /\ (effect.kind # "d" => effect.d = 0)
      /\ (effect.kind = "d" => effect.d = CohensD(SubSeq(a, 1, n), SubSeq(b, 1, n)))
  BY EffectIs
<1>4. /\ back.a = Cardinality(B) /\ back.b = Cardinality(A)
      /\ back.kind = (IF B # 1..n \/ A # 1..n THEN "rates" ELSE IF n >= 2 THEN "d" ELSE "none")
      /\ (back.kind # "d" => back.d = 0)
      /\ (back.kind = "d" => back.d = CohensD(SubSeq(b, 1, n), SubSeq(a, 1, n)))
  <2>1. PICK m : m = n
    OBVIOUS
  <2>2. m = Min({Len(b), Len(a)})
    BY <2>1, <1>1
  <2>3. /\ back.a = Cardinality(FirstFinite(b, m)) /\ back.b = Cardinality(FirstFinite(a, m))
        /\ back.kind = (IF FirstFinite(b, m) # 1..m \/ FirstFinite(a, m) # 1..m THEN "rates"
                        ELSE IF m >= 2 THEN "d" ELSE "none")
        /\ (back.kind # "d" => back.d = 0)
        /\ (back.kind = "d" => back.d = CohensD(SubSeq(b, 1, m), SubSeq(a, 1, m)))
    BY <2>2, EffectIs
  <2>4. QED
    BY <2>1, <2>3
<1>5. /\ summary.n = n /\ summary.censored = n - Cardinality(Q) /\ Pairs(a, b) = Q
      /\ (summary.difference # Undefined <=> Q # {})
      /\ (Q # {} => SignOf(summary.difference) = SignOf(SumFunction(d)))
  <2>1. /\ summary.n = n /\ summary.censored = n - Cardinality(Pairs(a, b)) /\ Pairs(a, b) = Q
        /\ (summary.difference # Undefined <=> Pairs(a, b) # {})
        /\ (Pairs(a, b) # {} => SignOf(summary.difference) = SignOf(SumFunction(d)))
    BY PairedIs
  <2>2. QED
    BY <2>1
<1>6. /\ SumFunction(d) \in Int
      /\ CohensDPaired(d) \in {0, SignOf(SumFunction(d))}
      /\ CohensDPaired(Differences(b, a)) = -CohensDPaired(d)
  BY PairedEffectIs
<1>7. /\ CohensD(SubSeq(a, 1, n), SubSeq(b, 1, n)) \in
           {0, SignOf(SumFunctionOnSet(a, 1..n) - SumFunctionOnSet(b, 1..n))}
      /\ SumFunctionOnSet(a, 1..n) \in Int /\ SumFunctionOnSet(b, 1..n) \in Int
      /\ CohensD(SubSeq(b, 1, n), SubSeq(a, 1, n)) = -CohensD(SubSeq(a, 1, n), SubSeq(b, 1, n))
  BY CohensDIs
<1>8. SumFunction(d) = SumFunctionOnSet(a, Q) - SumFunctionOnSet(b, Q)
  <2>1. SumFunction(d) = SumFunctionOnSet(a, Pairs(a, b)) - SumFunctionOnSet(b, Pairs(a, b))
    BY DifferencesAre
  <2>2. Pairs(a, b) = Q
    BY <1>5
  <2> HIDE DEF Q, d
  <2>3. QED
    BY <2>1, <2>2
<1>9. PairedRuns(a, b).matched = n /\ PairedRuns(a, b).unbalanced = (Len(a) # Len(b))
      /\ PairedRuns(a, b).metric.summary = summary
      /\ PairedRuns(a, b).metric.d = CohensDPaired(d)
      /\ PairMetric(b, a).d = CohensDPaired(Differences(b, a))
  <2> HIDE DEF n, summary, d
  <2>1. PairMetric(a, b).summary = summary /\ PairMetric(a, b).d = CohensDPaired(d)
        /\ PairMetric(b, a).d = CohensDPaired(Differences(b, a))
    BY DEF PairMetric, summary, d
  <2>2. PairedRuns(a, b) = [matched |-> n, unbalanced |-> Len(a) # Len(b),
                            metric |-> PairMetric(a, b)]
    BY DEF PairedRuns, n
  <2>3. PairedRuns(a, b).matched = n /\ PairedRuns(a, b).unbalanced = (Len(a) # Len(b))
        /\ PairedRuns(a, b).metric = PairMetric(a, b)
    BY <2>2
  <2>4. QED
    BY <2>1, <2>3
<1>10. Min({Cardinality(A), Cardinality(B)}) \in {Cardinality(A), Cardinality(B)}
  <2>1. Cardinality(A) \in Nat /\ Cardinality(B) \in Nat
    BY <1>2
  <2> HIDE DEF A, B, n
  <2>2. QED
    BY <2>1, MinNatural
<1>11. Q # {} <=> Cardinality(Q) > 0
  <2>1. Cardinality(Q) = 0 <=> Q = {}
    BY <1>2, FS_EmptySet
  <2> HIDE DEF Q
  <2>2. QED
    BY <2>1, <1>2
<1> HIDE DEF n, A, B, Q, effect, back, summary, d
<1>12. effect.kind = "d" => Q = 1..n /\ n >= 2 /\ Q # {}
  <2>1. SUFFICES ASSUME effect.kind = "d" PROVE Q = 1..n /\ n >= 2 /\ Q # {}
    OBVIOUS
  <2>2. A = 1..n /\ B = 1..n /\ n >= 2
    BY <1>3, <2>1
  <2>3. Q = 1..n
    BY <2>2 DEF Q
  <2>4. 1 \in Q
    BY <2>2, <2>3, <1>1
  <2>5. QED
    BY <2>2, <2>3, <2>4
<1>13. effect.kind = "d" => {effect.d, CohensDPaired(d)} \subseteq {0, SignOf(summary.difference)}
  <2>1. SUFFICES ASSUME effect.kind = "d"
                 PROVE  {effect.d, CohensDPaired(d)} \subseteq {0, SignOf(summary.difference)}
    OBVIOUS
  <2>2. Q = 1..n /\ Q # {}
    BY <1>12, <2>1
  <2>3. SumFunction(d) = SumFunctionOnSet(a, 1..n) - SumFunctionOnSet(b, 1..n)
    BY <1>8, <2>2
  <2>4. effect.d \in {0, SignOf(SumFunction(d))}
    BY <1>3, <1>7, <2>1, <2>3
  <2>5. SignOf(summary.difference) = SignOf(SumFunction(d))
    BY <1>5, <2>2
  <2>6. QED
    BY <1>6, <2>4, <2>5
<1>14. back.kind = effect.kind /\ back.d = -effect.d
  <2>1. back.kind = effect.kind
    BY <1>3, <1>4
  <2>2. CASE effect.kind = "d"
    BY <1>3, <1>4, <1>7, <2>1, <2>2
  <2>3. CASE effect.kind # "d"
    <3>1. effect.d = 0 /\ back.d = 0
      BY <1>3, <1>4, <2>1, <2>3
    <3>2. effect.d \in Int /\ back.d = 0 - effect.d
      BY <3>1
    <3>3. back.d = -effect.d
      BY <3>2, Opposite
    <3>4. QED
      BY <2>1, <3>3
  <2>4. QED
    BY <2>1, <2>2, <2>3
<1>15. effect.kind = "rates" <=> summary.censored > 0
  <2>1. summary.censored > 0 <=> Cardinality(Q) < n
    BY <1>1, <1>2, <1>5
  <2>2. effect.kind = "rates" <=> (A # 1..n \/ B # 1..n)
    BY <1>3
  <2>3. QED
    BY <1>2, <2>1, <2>2
<1>16. LET left == summary.n - summary.censored
       IN /\ left <= Min({effect.a, effect.b}) /\ left >= effect.a + effect.b - effect.n
          /\ left > 0 <=> summary.difference # Undefined
  <2>1. summary.n - summary.censored = Cardinality(Q)
    BY <1>1, <1>2, <1>5
  <2>2. Min({effect.a, effect.b}) \in {effect.a, effect.b}
    BY <1>3, <1>10
  <2>3. Cardinality(Q) <= Min({effect.a, effect.b})
    BY <1>2, <1>3, <2>2
  <2>4. Cardinality(Q) >= effect.a + effect.b - effect.n
    BY <1>2, <1>3
  <2>5. Cardinality(Q) > 0 <=> summary.difference # Undefined
    BY <1>5, <1>11
  <2>6. QED
    BY <2>1, <2>3, <2>4, <2>5
<1>17. effect.n = n /\ summary.n = n /\ (Len(a) = Len(b) => n = Len(a) /\ n = Len(b))
  BY <1>1, <1>3, <1>5
<1>18. back.a = effect.b /\ back.b = effect.a
  BY <1>3, <1>4
<1>19. CohensDPaired(Differences(b, a)) = -CohensDPaired(d)
  BY <1>6
<1>20. QED
  BY <1>9, <1>13, <1>14, <1>15, <1>16, <1>17, <1>18, <1>19 DEF PairAgrees, effect, back

Entries == [name : Titles, runs : Recoveries]

ExperimentsTyped == experiments \in Seq(Entries)

\* The entries that were read are sequences of runs no longer than the bound.
LEMMA ExperimentsType == ComparisonSpec => []ExperimentsTyped
<1>1. ComparisonInit => ExperimentsTyped
  BY EmptySeq DEF ComparisonInit, ExperimentsTyped
<1>2. ExperimentsTyped /\ [ComparisonNext]_experiments => ExperimentsTyped'
  <2>1. ASSUME ExperimentsTyped, NEW name \in Titles, NEW runs \in Recoveries,
               ReadExperiment(name, runs)
        PROVE  ExperimentsTyped'
    <3>1. [name |-> name, runs |-> runs] \in Entries
      BY DEF Entries
    <3>2. QED
      BY <2>1, <3>1, AppendProperties DEF ExperimentsTyped, ReadExperiment
  <2>2. ASSUME ExperimentsTyped, UNCHANGED experiments PROVE ExperimentsTyped'
    BY <2>2 DEF ExperimentsTyped
  <2>3. QED
    BY <2>1, <2>2 DEF ComparisonNext
<1>3. QED
  BY <1>1, <1>2, PTL DEF ComparisonSpec

\* With one name for each experiment, the rows of the table are the experiments.
LEMMA TableRows ==
  ASSUME ExperimentsTyped, Len(Table) = Len(experiments), NEW i \in DOMAIN experiments
  PROVE  Table[i].cell = Aggregate(experiments[i].runs)
<1> DEFINE n == Len(experiments)
           names == {e.name : e \in ToSet(experiments)}
           of == [k \in 1..n |-> experiments[k].name]
<1>1. n \in Nat /\ DOMAIN experiments = 1..n
  BY LenProperties DEF ExperimentsTyped
<1>2. of \in Surjection(1..n, names)
  BY <1>1 DEF Surjection, ToSet
<1>3. IsFiniteSet(1..n) /\ Cardinality(1..n) = n
  <2>1. 1 \in Int /\ n \in Int
    BY <1>1
  <2> HIDE DEF n
  <2>2. Cardinality(1..n) = IF 1 > n THEN 0 ELSE n - 1 + 1
    BY <2>1, FS_Interval
  <2>3. QED
    BY <2>1, <2>2, <1>1, FS_Interval
<1>4. IsFiniteSet(names) /\ Cardinality(names) \in Nat
  <2> HIDE DEF n, names, of
  <2>1. QED
    BY <1>2, <1>3, FS_Surjection, FS_CardinalityType
<1>5. Len(Table) = Cardinality(names) /\ DOMAIN Table = 1..Cardinality(names)
  <2>1. DOMAIN Table = 1..Cardinality(names) /\ Table = [row \in DOMAIN Table |-> Table[row]]
    BY DEF Table
  <2> HIDE DEF names
  <2>2. PICK S : S = {Table[row] : row \in DOMAIN Table}
    OBVIOUS
  <2>3. Table \in [1..Cardinality(names) -> S]
    BY <2>1, <2>2
  <2>4. Table \in Seq(S)
    BY <2>3, <1>4
  <2>5. DOMAIN Table = 1..Len(Table) /\ Len(Table) \in Nat
    BY <2>4, LenProperties
  <2>6. QED
    BY <2>1, <2>5, <1>4
<1>6. \A j, k \in 1..n : experiments[j].name = experiments[k].name => j = k
  <2>1. Cardinality(1..n) = Cardinality(names)
    BY <1>3, <1>5
  <2>2. of \in Injection(1..n, names)
    <3> HIDE DEF n, names, of
    <3>1. QED
      BY <1>2, <1>3, <2>1, FS_SurjSameCardinalityImpliesInj
  <2>3. QED
    BY <2>2 DEF Injection, IsInjective
<1>7. \A k \in 1..n : NamedFirst(k)
  <2>1. \A k \in 1..n : \A j \in 1..(k - 1) : j \in 1..n /\ j # k
    BY <1>1
  <2>2. QED
    BY <1>6, <2>1 DEF NamedFirst
<1>8. \A k \in 1..n : Cardinality({j \in 1..k : NamedFirst(j)}) = k
  <2>1. SUFFICES ASSUME NEW k \in 1..n PROVE Cardinality({j \in 1..k : NamedFirst(j)}) = k
    OBVIOUS
  <2>2. {j \in 1..k : NamedFirst(j)} = 1..k
    <3>1. \A j \in 1..k : j \in 1..n
      BY <1>1
    <3>2. QED
      BY <1>7, <3>1
  <2>3. Cardinality(1..k) = IF 1 > k THEN 0 ELSE k - 1 + 1
    BY FS_Interval
  <2>4. k \in Int /\ 1 <= k
    BY <1>1
  <2>5. Cardinality(1..k) = k
    BY <2>3, <2>4
  <2>6. QED
    BY <2>2, <2>5
<1>9. (CHOOSE k \in DOMAIN experiments :
         NamedFirst(k) /\ Cardinality({j \in 1..k : NamedFirst(j)}) = i) = i
  <2>1. \A k \in DOMAIN experiments :
          (NamedFirst(k) /\ Cardinality({j \in 1..k : NamedFirst(j)}) = i) <=> k = i
    BY <1>1, <1>7, <1>8
  <2>2. QED
    BY <2>1
<1>10. LastNamed(experiments[i].name) = i
  <2>1. {j \in DOMAIN experiments : experiments[j].name = experiments[i].name} = {i}
    BY <1>1, <1>6
  <2>2. i \in 1..i /\ i \in Nat
    BY <1>1
  <2>3. Max({i}) = i
    BY <2>2, MaxTop
  <2>4. QED
    BY <2>1, <2>3 DEF LastNamed
<1>11. i \in DOMAIN Table
  BY <1>1, <1>5
<1>12. Table[i] = [name |-> experiments[i].name,
                   cell |-> Aggregate(experiments[LastNamed(experiments[i].name)].runs)]
  <2>1. i \in 1..Cardinality(names)
    BY <1>5, <1>11
  <2>2. QED
    BY <1>9, <2>1 DEF Table
<1>13. QED
  BY <1>10, <1>12

\* The cell of the table counts the same runs.
LEMMA CellRecovered ==
  ASSUME NEW a, RunSeq(a)
  PROVE  Aggregate(a).recovered = Cardinality(FirstFinite(a, Len(a)))
BY DEF Aggregate, Finite, FirstFinite, RunSeq

LEMMA EffectsOfType == ExperimentsTyped => EffectsAgree
<1> SUFFICES ASSUME ExperimentsTyped, NEW k \in DOMAIN Effects
             PROVE  /\ PairAgrees(experiments[1].runs, experiments[k + 1].runs, Effects[k])
                    /\ (\A e \in ToSet(experiments) : Len(e.runs) = Len(experiments[1].runs))
                         /\ Len(Table) = Len(experiments) =>
                         /\ Effects[k].a = Table[1].cell.recovered
                         /\ Effects[k].b = Table[k + 1].cell.recovered
  BY DEF EffectsAgree, PairAgrees
<1>1. DOMAIN experiments = 1..Len(experiments) /\ Len(experiments) \in Nat
      /\ k \in 1..(Len(experiments) - 1)
  BY LenProperties DEF ExperimentsTyped, Effects
<1>2. 1 \in DOMAIN experiments /\ k + 1 \in DOMAIN experiments
  BY <1>1
<1>3. PICK a, b : a = experiments[1].runs /\ b = experiments[k + 1].runs
  OBVIOUS
<1>4. RunSeq(a) /\ RunSeq(b)
  <2>1. experiments[1] \in Entries /\ experiments[k + 1] \in Entries
    BY <1>1, <1>2, ElementOfSeq DEF ExperimentsTyped
  <2>2. a \in Recoveries /\ b \in Recoveries
    BY <1>3, <2>1 DEF Entries
  <2>3. QED
    BY <2>2, RecoveriesAre
<1>5. Effects[k] = Effect(a, b)
  BY <1>1, <1>3 DEF Effects
<1>6. ASSUME \A e \in ToSet(experiments) : Len(e.runs) = Len(a), Len(Table) = Len(experiments)
      PROVE  /\ Effect(a, b).a = Table[1].cell.recovered
             /\ Effect(a, b).b = Table[k + 1].cell.recovered
  <2>1. Len(b) = Len(a)
    BY <1>2, <1>3, <1>6 DEF ToSet
  <2>2. PICK n : n = Min({Len(a), Len(b)})
    OBVIOUS
  <2>3. n = Len(a) /\ n = Len(b)
    BY <1>4, <2>1, <2>2, Matched
  <2>4. Effect(a, b).a = Cardinality(FirstFinite(a, n))
        /\ Effect(a, b).b = Cardinality(FirstFinite(b, n))
    BY <1>4, <2>2, EffectIs
  <2>5. Table[1].cell = Aggregate(a) /\ Table[k + 1].cell = Aggregate(b)
    BY <1>2, <1>3, <1>6, TableRows
  <2>6. Aggregate(a).recovered = Cardinality(FirstFinite(a, Len(a)))
        /\ Aggregate(b).recovered = Cardinality(FirstFinite(b, Len(b)))
    BY <1>4, CellRecovered
  <2>7. QED
    BY <2>3, <2>4, <2>5, <2>6
<1>7. PairAgrees(a, b, Effects[k])
  BY <1>4, <1>5, ViewsOfPair
<1>8. QED
  BY <1>3, <1>5, <1>6, <1>7

\* Whatever experiments are compared, of any lengths and names: the independent and
\* the paired view match the same runs, count those that recovered alike, point the
\* same way and turn around with the experiments.
THEOREM EffectsAlwaysAgree == ComparisonSpec => []EffectsAgree
BY ExperimentsType, EffectsOfType, PTL

-------------------------------------------------------------------------------
(* 8. Effects of factors                                                   *)

\* g computes CombosFrom for the factors from low on.
IsCombos(g, low) ==
  g = [f \in low..(Len(Factors) + 1) |->
         IF f > Len(Factors) THEN 1 ELSE Len(Factors[f].levels) * g[f + 1]]

\* There is such a function: it is extended from the last factor to the first.
LEMMA CombosExist == \E g : IsCombos(g, 1)
<1> DEFINE n == Len(Factors)
           S == {m \in Nat : m <= n => \E g : IsCombos(g, n + 1 - m)}
<1>1. n \in Nat
  BY MatrixAssumption
<1> HIDE DEF n
<1>2. 0 \in S
  <2> DEFINE g == [f \in (n + 1)..(n + 1) |-> 1]
  <2>1. g = [f \in (n + 1)..(n + 1) |-> IF f > n THEN 1 ELSE Len(Factors[f].levels) * g[f + 1]]
    BY <1>1
  <2> HIDE DEF g
  <2>2. IsCombos(g, n + 1)
    BY <2>1 DEF IsCombos, n
  <2>3. n + 1 - 0 = n + 1
    BY <1>1
  <2>4. QED
    BY <2>2, <2>3
<1>3. ASSUME NEW m \in Nat, m \in S PROVE m + 1 \in S
  <2>1. SUFFICES ASSUME m + 1 <= n PROVE \E g : IsCombos(g, n + 1 - (m + 1))
    OBVIOUS
  <2>2. PICK g : IsCombos(g, n + 1 - m)
    BY <1>1, <1>3, <2>1
  <2>3. PICK low \in 1..n : low = n - m
    BY <1>1, <2>1
  <2>4. low + 1 = n + 1 - m /\ n + 1 - (m + 1) = low
    BY <1>1, <2>3
  <2> DEFINE Next(h, f) == IF f > n THEN 1 ELSE Len(Factors[f].levels) * h[f + 1]
             j == [f \in low..(n + 1) |-> IF f = low THEN Next(g, low) ELSE g[f]]
  <2>5. g = [f \in (low + 1)..(n + 1) |-> Next(g, f)]
    BY <2>2, <2>4 DEF IsCombos, n
  <2>6. ASSUME NEW f \in low..(n + 1) PROVE j[f] = Next(j, f)
    <3>1. CASE f = low
      <4>1. f + 1 \in low..(n + 1) /\ f + 1 # low
        BY <3>1, <1>1
      <4>2. j[f + 1] = g[f + 1] /\ j[f] = Next(g, f)
        BY <3>1, <4>1
      <4>3. QED
        BY <4>2
    <3>2. CASE f # low
      <4>1. f \in (low + 1)..(n + 1) /\ j[f] = g[f]
        BY <3>2, <1>1
      <4>2. g[f] = Next(g, f)
        <5> HIDE DEF Next
        <5>1. QED
          BY <2>5, <4>1
      <4>3. ~(f > n) => f + 1 \in low..(n + 1) /\ f + 1 # low
        BY <4>1, <1>1
      <4>4. ~(f > n) => j[f + 1] = g[f + 1]
        BY <4>3
      <4>5. QED
        BY <4>1, <4>2, <4>4
    <3>3. QED
      BY <3>1, <3>2
  <2>7. j = [f \in low..(n + 1) |-> j[f]]
    OBVIOUS
  <2> HIDE DEF j
  <2>8. IsCombos(j, low)
    BY <2>6, <2>7 DEF IsCombos, n
  <2>9. QED
    BY <2>4, <2>8
<1>4. n \in S
  BY <1>1, <1>2, <1>3, InductiveSet
<1>5. n + 1 - n = 1
  BY <1>1
<1>6. QED
  BY <1>1, <1>4, <1>5

\* The combinations from a factor on are those of the next one, once for each level.
LEMMA CombosStep ==
  /\ Len(Factors) \in Nat
  /\ \A f \in 1..(Len(Factors) + 1) :
       CombosFrom[f] = IF f > Len(Factors) THEN 1 ELSE Len(Factors[f].levels) * CombosFrom[f + 1]
<1> DEFINE n == Len(Factors)
<1>1. n \in Nat
  BY MatrixAssumption
<1>2. IsCombos(CombosFrom, 1)
  <2>1. CombosFrom = CHOOSE g : IsCombos(g, 1)
    BY DEF CombosFrom, IsCombos
  <2>2. QED
    BY <2>1, CombosExist
<1>3. \A f \in 1..(n + 1) :
        CombosFrom[f] = IF f > n THEN 1 ELSE Len(Factors[f].levels) * CombosFrom[f + 1]
  <2>1. PICK g : g = CombosFrom
    OBVIOUS
  <2>2. g = [f \in 1..(n + 1) |-> IF f > n THEN 1 ELSE Len(Factors[f].levels) * g[f + 1]]
    BY <1>2, <2>1 DEF IsCombos
  <2> HIDE DEF n
  <2>3. \A f \in 1..(n + 1) : g[f] = IF f > n THEN 1 ELSE Len(Factors[f].levels) * g[f + 1]
    BY <2>2
  <2>4. QED
    BY <2>1, <2>3
<1>4. QED
  BY <1>1, <1>3

LEMMA CombosNatural == \A f \in 1..(Len(Factors) + 1) : CombosFrom[f] \in Nat
<1> DEFINE n == Len(Factors)
           S == {m \in Nat : m <= n => CombosFrom[n + 1 - m] \in Nat}
<1>1. n \in Nat /\ \A f \in 1..n : Len(Factors[f].levels) \in Nat
  BY MatrixAssumption
<1>3. \A f \in 1..(n + 1) :
        CombosFrom[f] = IF f > n THEN 1 ELSE Len(Factors[f].levels) * CombosFrom[f + 1]
  BY CombosStep
<1> HIDE DEF n
<1>4. 0 \in S
  <2>1. n + 1 - 0 \in 1..(n + 1) /\ n + 1 - 0 > n
    BY <1>1
  <2>2. QED
    BY <1>3, <2>1
<1>5. ASSUME NEW m \in Nat, m \in S PROVE m + 1 \in S
  <2>1. SUFFICES ASSUME m + 1 <= n PROVE CombosFrom[n + 1 - (m + 1)] \in Nat
    OBVIOUS
  <2>2. PICK f \in 1..n : f = n + 1 - (m + 1)
    BY <1>1, <2>1
  <2>3. f + 1 = n + 1 - m /\ f \in 1..(n + 1) /\ ~(f > n) /\ m <= n
    BY <1>1, <2>1, <2>2
  <2>4. CombosFrom[f + 1] \in Nat /\ Len(Factors[f].levels) \in Nat
    BY <1>1, <1>5, <2>3
  <2>5. CombosFrom[f] = Len(Factors[f].levels) * CombosFrom[f + 1]
    BY <1>3, <2>3
  <2>6. \A x, y \in Nat : x * y \in Nat
    BY Z3
  <2>7. QED
    BY <2>2, <2>4, <2>5, <2>6
<1>6. Nat \subseteq S
  BY <1>4, <1>5, InductiveSet
<1>7. ASSUME NEW f \in 1..(n + 1) PROVE CombosFrom[f] \in Nat
  <2>1. PICK m \in Nat : m = n + 1 - f
    BY <1>1
  <2>2. m <= n /\ n + 1 - m = f
    BY <1>1, <2>1
  <2>3. CombosFrom[n + 1 - m] \in Nat
    BY <1>6, <2>2
  <2>4. QED
    BY <2>2, <2>3
<1>8. QED
  BY <1>7 DEF n

\* The number of combinations is a number.
LEMMA CombosAre == CombosFrom[1] \in Nat
<1>1. 1 \in 1..(Len(Factors) + 1)
  BY CombosStep
<1>2. QED
  BY <1>1, CombosNatural

LEMMA ConditionsFinite ==
  IsFiniteSet(Conditions) /\ Cardinality(Conditions) = CombosFrom[1] /\ Conditions \subseteq Nat
<1>1. PICK n \in Nat : n = CombosFrom[1]
  BY CombosAre
<1>2. IsFiniteSet(1..n) /\ Cardinality(1..n) = IF 1 > n THEN 0 ELSE n - 1 + 1
  BY FS_Interval
<1>3. QED
  BY <1>1, <1>2 DEF Conditions

\* A group has the conditions with its name, if levels differ in their texts.
LEMMA GroupsAre ==
  ASSUME NEW f \in DOMAIN Factors, TextsDiffer(f)
  PROVE  /\ DOMAIN Grouped[f] = {GroupNames[f][i] : i \in Conditions}
         /\ \A l \in DOMAIN Grouped[f] :
              Grouped[f][l] = {i \in Conditions : GroupNames[f][i] = l}
         /\ \A i, j \in Conditions :
              GroupNames[f][i] = GroupNames[f][j] <=> LevelOf(i, f).eq = LevelOf(j, f).eq
<1> DEFINE eq(i) == LevelOf(i, f).eq
           eqs == {eq(i) : i \in Conditions}
           name(i) == GroupNames[f][i]
           names == {name(i) : i \in Conditions}
           chosen == [e \in eqs |-> CHOOSE i \in Conditions : eq(i) = e]
           of == [e \in eqs |-> name(chosen[e])]
<1>1. GroupNames[f] = [i \in Conditions |-> LevelOf(Min(EqualTo(f, i)), f).text]
  BY DEF GroupNames
<1>2. DOMAIN Grouped[f] = names
  BY <1>1 DEF Grouped, Range
<1>3. \A i \in Conditions : EqualTo(f, i) = {j \in Conditions : eq(j) = eq(i)}
  BY DEF EqualTo
<1>4. ASSUME NEW i \in Conditions, NEW j \in Conditions, eq(i) = eq(j)
      PROVE  EqualTo(f, i) = EqualTo(f, j)
  <2> HIDE DEF eq
  <2>1. QED
    BY <1>3, <1>4
<1>5. ASSUME NEW i \in Conditions, NEW j \in Conditions, eq(i) = eq(j)
      PROVE  name(i) = name(j)
  <2>1. PICK E : E = EqualTo(f, i) /\ E = EqualTo(f, j)
    BY <1>4, <1>5
  <2>2. name(i) = LevelOf(Min(E), f).text /\ name(j) = LevelOf(Min(E), f).text
    BY <1>1, <2>1
  <2>3. QED
    BY <2>2
<1> HIDE DEF eq, name
<1>6. \A e \in eqs : chosen[e] \in Conditions /\ eq(chosen[e]) = e
  OBVIOUS
<1>7. \A i \in Conditions : of[eq(i)] = name(i)
  <2>1. SUFFICES ASSUME NEW i \in Conditions PROVE of[eq(i)] = name(i)
    OBVIOUS
  <2>2. eq(i) \in eqs
    OBVIOUS
  <2> HIDE DEF eqs, chosen
  <2>3. chosen[eq(i)] \in Conditions /\ eq(chosen[eq(i)]) = eq(i)
    BY <1>6, <2>2
  <2>4. of[eq(i)] = name(chosen[eq(i)])
    BY <2>2
  <2>5. QED
    BY <1>5, <2>3, <2>4
<1>8. of \in Surjection(eqs, names)
  <2>1. \A e \in eqs : of[e] \in names
    BY <1>6
  <2>2. ASSUME NEW l \in names PROVE \E e \in eqs : of[e] = l
    <3>1. PICK i \in Conditions : l = name(i)
      OBVIOUS
    <3>2. eq(i) \in eqs
      OBVIOUS
    <3> HIDE DEF of, eqs
    <3>3. of[eq(i)] = l
      BY <1>7, <3>1
    <3>4. QED
      BY <3>2, <3>3
  <2>3. of \in [eqs -> names]
    BY <2>1
  <2> HIDE DEF of, eqs, names
  <2>4. QED
    BY <2>2, <2>3 DEF Surjection
<1>9. IsFiniteSet(eqs)
  <2> DEFINE g == [i \in Conditions |-> eq(i)]
  <2>1. g \in Surjection(Conditions, eqs)
    BY DEF Surjection
  <2> HIDE DEF g, eqs
  <2>2. QED
    BY <2>1, ConditionsFinite, FS_Surjection
<1>10. Cardinality(names) = Cardinality(eqs)
  BY <1>2 DEF TextsDiffer, eq
<1>11. of \in Injection(eqs, names)
  <2> HIDE DEF of, eqs, names
  <2>1. QED
    BY <1>8, <1>9, <1>10, FS_SurjSameCardinalityImpliesInj
<1>12. ASSUME NEW i \in Conditions, NEW j \in Conditions, name(i) = name(j)
       PROVE  eq(i) = eq(j)
  <2>1. eq(i) \in eqs /\ eq(j) \in eqs /\ DOMAIN of = eqs
    OBVIOUS
  <2>2. of[eq(i)] = of[eq(j)]
    BY <1>7, <1>12
  <2> HIDE DEF of, eqs
  <2>3. QED
    BY <1>11, <2>1, <2>2 DEF Injection, IsInjective
<1>13. ASSUME NEW i \in Conditions
       PROVE  Grouped[f][name(i)] = {j \in Conditions : name(j) = name(i)}
  <2> DEFINE firsts == {Min(EqualTo(f, j)) : j \in {k \in Conditions : GroupNames[f][k] = name(i)}}
             m == Min(EqualTo(f, i))
  <2>1. EqualTo(f, i) = {j \in Conditions : name(j) = name(i)}
    BY <1>3, <1>5, <1>12
  <2>2. i \in EqualTo(f, i) /\ EqualTo(f, i) \in SUBSET Nat /\ EqualTo(f, i) \in SUBSET Conditions
    BY <2>1, ConditionsFinite
  <2>3. m \in EqualTo(f, i) /\ m \in Nat
    BY <2>2, MinNatural
  <2>4. firsts = {m}
    <3>1. ASSUME NEW k \in Conditions, GroupNames[f][k] = name(i)
          PROVE  Min(EqualTo(f, k)) = m
      <4>1. eq(k) = eq(i)
        BY <1>12, <3>1 DEF name
      <4>2. EqualTo(f, k) = EqualTo(f, i)
        BY <1>4, <4>1
      <4>3. QED
        BY <4>2
    <3>2. GroupNames[f][i] = name(i)
      BY DEF name
    <3> HIDE DEF m
    <3>3. QED
      BY <3>1, <3>2 DEF m
  <2>5. Max({m}) = m
    <3>1. m \in 1..m
      <4>1. m \in Conditions
        BY <2>2, <2>3
      <4>2. 1 <= m
        BY <4>1, CombosAre DEF Conditions
      <4> HIDE DEF m
      <4>3. QED
        BY <2>3, <4>2
    <3> HIDE DEF m
    <3>2. QED
      BY <2>3, <3>1, MaxTop
  <2>6. Grouped[f][name(i)] = EqualTo(f, Max(firsts))
    <3>1. name(i) \in Range(GroupNames[f])
      BY <1>1 DEF Range, name
    <3>2. QED
      BY <3>1 DEF Grouped
  <2>7. EqualTo(f, m) = EqualTo(f, i)
    <3>1. m \in Conditions /\ eq(m) = eq(i)
      <4> HIDE DEF m
      <4>1. QED
        BY <1>3, <2>3
    <3> HIDE DEF m
    <3>2. QED
      BY <3>1, <1>4
  <2> HIDE DEF firsts, m
  <2>8. QED
    BY <2>1, <2>4, <2>5, <2>6, <2>7
<1>14. \A i, j \in Conditions :
         GroupNames[f][i] = GroupNames[f][j] <=> LevelOf(i, f).eq = LevelOf(j, f).eq
  BY <1>5, <1>12 DEF name, eq
<1>15. QED
  BY <1>2, <1>13, <1>14 DEF name

ObservationsTyped ==
  /\ DOMAIN observations = Conditions
  /\ \A i \in Conditions :
       \/ DOMAIN observations[i] = {}
       \/ /\ DOMAIN observations[i] = 1..Repetitions
          /\ \A k \in 1..Repetitions : observations[i][k] \in Values \union {Censored}

\* A condition has a value for each repetition, or none.
LEMMA ObservationsType == MatrixSpec => []ObservationsTyped
<1>1. MatrixInit => ObservationsTyped
  BY DEF MatrixInit, ObservationsTyped
<1>2. ObservationsTyped /\ [MatrixNext]_matrixVars => ObservationsTyped'
  <2>1. ASSUME ObservationsTyped, NEW values \in [1..Repetitions -> Values \union {Censored}],
               Observe(values)
        PROVE  ObservationsTyped'
    <3>1. observations' = [observations EXCEPT ![done + 1] = values] /\ done + 1 \in Conditions
      BY <2>1 DEF Observe
    <3>2. \A i \in Conditions :
            observations'[i] = IF i = done + 1 THEN values ELSE observations[i]
      BY <2>1, <3>1 DEF ObservationsTyped
    <3>3. DOMAIN observations' = Conditions
      BY <2>1, <3>1 DEF ObservationsTyped
    <3>4. DOMAIN values = 1..Repetitions
          /\ \A k \in 1..Repetitions : values[k] \in Values \union {Censored}
      OBVIOUS
    <3>5. ASSUME NEW i \in Conditions
          PROVE  \/ DOMAIN observations'[i] = {}
                 \/ /\ DOMAIN observations'[i] = 1..Repetitions
                    /\ \A k \in 1..Repetitions : observations'[i][k] \in Values \union {Censored}
      <4>1. CASE i = done + 1
        BY <3>2, <3>4, <4>1
      <4>2. CASE i # done + 1
        BY <2>1, <3>2, <4>2 DEF ObservationsTyped
      <4>3. QED
        BY <4>1, <4>2
    <3>6. QED
      BY <3>3, <3>5 DEF ObservationsTyped
  <2>2. ASSUME ObservationsTyped, UNCHANGED observations PROVE ObservationsTyped'
    BY <2>2 DEF ObservationsTyped
  <2>3. QED
    BY <2>1, <2>2 DEF MatrixNext, FailCondition, matrixVars
<1>3. QED
  BY <1>1, <1>2, PTL DEF MatrixSpec

\* The runs of some conditions are among those of all, with the same values.
LEMMA RunsAreOf ==
  ASSUME ObservationsTyped, NEW S \in SUBSET Conditions
  PROVE  /\ IsFiniteSet(Runs(S)) /\ Cardinality(Runs(S)) \in Nat
         /\ Cardinality(Runs(S)) <= Repetitions * CombosFrom[1]
         /\ Runs(S) = {r \in Runs(Conditions) : r[1] \in S}
         /\ DOMAIN ValuesOf(S) = Runs(S)
         /\ \A r \in Runs(S) : /\ ValuesOf(S)[r] = ValuesOf(Conditions)[r]
                               /\ ValuesOf(S)[r] \in Values \union {Censored}
<1>1. Repetitions \in Nat /\ CombosFrom[1] \in Nat
  BY CombosAre, MatrixAssumption
<1>2. IsFiniteSet(1..Repetitions) /\ Cardinality(1..Repetitions) = Repetitions
  <2>1. 1 \in Int /\ Repetitions \in Int
    BY <1>1
  <2>2. Cardinality(1..Repetitions) = IF 1 > Repetitions THEN 0 ELSE Repetitions - 1 + 1
    BY <2>1, FS_Interval
  <2>3. QED
    BY <2>1, <2>2, <1>1, FS_Interval
<1>3. IsFiniteSet(Conditions \X (1..Repetitions))
      /\ Cardinality(Conditions \X (1..Repetitions)) = CombosFrom[1] * Repetitions
  <2>1. PICK repeats : repeats = 1..Repetitions
    OBVIOUS
  <2>2. IsFiniteSet(Conditions \X repeats)
        /\ Cardinality(Conditions \X repeats) = Cardinality(Conditions) * Cardinality(repeats)
    BY <1>2, <2>1, ConditionsFinite, FS_Product
  <2>3. Cardinality(Conditions) = CombosFrom[1] /\ Cardinality(repeats) = Repetitions
    BY <1>2, <2>1, ConditionsFinite
  <2>4. Cardinality(Conditions \X repeats) = CombosFrom[1] * Repetitions
    BY <2>2, <2>3
  <2>5. QED
    BY <2>1, <2>2, <2>4
<1>4. Runs(S) \in SUBSET (Conditions \X (1..Repetitions))
  BY DEF Runs
<1>5. IsFiniteSet(Runs(S)) /\ Cardinality(Runs(S)) \in Nat
      /\ Cardinality(Runs(S)) <= CombosFrom[1] * Repetitions
  BY <1>3, <1>4, FS_Subset, FS_CardinalityType
<1>6. CombosFrom[1] * Repetitions = Repetitions * CombosFrom[1]
  <2>1. \A x, y \in Nat : x * y = y * x
    BY Z3
  <2>2. QED
    BY <1>1, <2>1
<1>7. Runs(S) = {r \in Runs(Conditions) : r[1] \in S}
  BY DEF Runs
<1>8. DOMAIN ValuesOf(S) = Runs(S)
      /\ \A r \in Runs(S) : ValuesOf(S)[r] = observations[r[1]][r[2]]
  BY DEF ValuesOf
<1>9. \A r \in Runs(Conditions) : ValuesOf(Conditions)[r] = observations[r[1]][r[2]]
  BY DEF ValuesOf
<1>10. \A r \in Runs(S) : r[1] \in Conditions /\ r[2] \in DOMAIN observations[r[1]]
  BY DEF Runs
<1>11. ASSUME NEW r \in Runs(S) PROVE observations[r[1]][r[2]] \in Values \union {Censored}
  <2>1. PICK i \in Conditions : i = r[1]
    BY <1>10
  <2>2. r[2] \in DOMAIN observations[i]
    BY <1>10, <2>1
  <2>3. observations[i][r[2]] \in Values \union {Censored}
    BY <2>1, <2>2 DEF ObservationsTyped
  <2>4. QED
    BY <2>1, <2>3
<1>12. QED
  BY <1>5, <1>6, <1>7, <1>8, <1>9, <1>11

\* What is counted in the groups is counted once.
LEMMA GroupsCount ==
  ASSUME NEW f \in DOMAIN Factors, TextsDiffer(f), ObservationsTyped,
         NEW R \in SUBSET Runs(Conditions), NEW count,
         count = [l \in DOMAIN Grouped[f] |-> Cardinality({r \in R : r[1] \in Grouped[f][l]})]
  PROVE  SumFunction(count) = Cardinality(R)
<1> DEFINE names == DOMAIN Grouped[f]
           part == [r \in R |-> GroupNames[f][r[1]]]
<1>1. names = {GroupNames[f][i] : i \in Conditions}
      /\ \A l \in names : Grouped[f][l] = {i \in Conditions : GroupNames[f][i] = l}
  BY GroupsAre
<1>2. IsFiniteSet(R)
  <2>1. Conditions \in SUBSET Conditions
    OBVIOUS
  <2>2. IsFiniteSet(Runs(Conditions))
    BY <2>1, RunsAreOf
  <2>3. QED
    BY <2>2, FS_Subset
<1>3. IsFiniteSet(names)
  <2> DEFINE g == [i \in Conditions |-> GroupNames[f][i]]
  <2>1. g \in Surjection(Conditions, names)
    BY <1>1 DEF Surjection
  <2> HIDE DEF g, names
  <2>2. QED
    BY <2>1, ConditionsFinite, FS_Surjection
<1>4. \A r \in R : r[1] \in Conditions
  BY DEF Runs
<1>5. part \in [R -> names]
  BY <1>1, <1>4
<1>6. \A l \in names : {r \in R : r[1] \in Grouped[f][l]} = {r \in R : part[r] = l}
  <2>1. SUFFICES ASSUME NEW l \in names
                 PROVE  {r \in R : r[1] \in Grouped[f][l]} = {r \in R : part[r] = l}
    OBVIOUS
  <2>2. \A r \in R : r[1] \in Grouped[f][l] <=> part[r] = l
    BY <1>1, <1>4
  <2> HIDE DEF part
  <2>3. QED
    BY <2>2
<1>7. count = [l \in names |-> Cardinality({r \in R : part[r] = l})]
  <2> HIDE DEF part
  <2>1. QED
    BY <1>6
<1> HIDE DEF part, names
<1>8. QED
  BY ONLY <1>2, <1>3, <1>5, <1>7, PartsAddUp

\* A mean lies between two of its values.
LEMMA MeanBetween ==
  ASSUME NEW F, IsFiniteSet(F), F # {}, NEW v, \A x \in F : v[x] \in Int,
         NEW k \in Nat \ {0}, Scale = k * Cardinality(F)
  PROVE  \E p, q \in F : /\ Scale * v[p] <= k * SumFunctionOnSet(v, F)
                         /\ k * SumFunctionOnSet(v, F) <= Scale * v[q]
<1> DEFINE s == SumFunctionOnSet(v, F)
           c == Cardinality(F)
           w == [x \in F |-> c * v[x]]
<1>1. c \in Nat \ {0} /\ s \in Int
  BY FS_CardinalityType, FS_EmptySet, SumInt
<1> HIDE DEF s, c
<1>2. \A x \in F : w[x] = c * v[x] /\ w[x] \in Int /\ c * v[x] \in Int
  <2>1. \A y \in Int : c * y \in Int
    BY <1>1, Z3
  <2>2. QED
    BY <2>1
<1> HIDE DEF w
<1>3. SumFunctionOnSet(w, F) = c * s
  BY <1>1, <1>2, SumScaled DEF s
<1>4. /\ (\A x \in F : w[x] <= s - 1) => SumFunctionOnSet(w, F) <= (s - 1) * c
      /\ (\A x \in F : s + 1 <= w[x]) => (s + 1) * c <= SumFunctionOnSet(w, F)
  <2>1. s - 1 \in Int /\ s + 1 \in Int
    BY <1>1
  <2>2. (\A x \in F : w[x] <= s - 1) => SumFunctionOnSet(w, F) <= (s - 1) * c
    BY <1>2, <2>1, SumBounded DEF c
  <2>3. (\A x \in F : s + 1 <= w[x]) => (s + 1) * c <= SumFunctionOnSet(w, F)
    BY <1>2, <2>1, SumBounded DEF c
  <2>4. QED
    BY <2>2, <2>3
<1>5. ~(c * s <= (s - 1) * c) /\ ~((s + 1) * c <= c * s)
  <2>1. (s - 1) * c = c * s - c /\ (s + 1) * c = c * s + c /\ c * s \in Int
    BY <1>1, Z3
  <2>2. QED
    BY <1>1, <2>1
<1>6. PICK p \in F : c * v[p] <= s
  <2>1. PICK x \in F : ~(s + 1 <= w[x])
    BY <1>3, <1>4, <1>5
  <2>2. c * v[x] <= s
    BY <1>1, <1>2, <2>1
  <2>3. QED
    BY <2>2
<1>7. PICK q \in F : s <= c * v[q]
  <2>1. PICK x \in F : ~(w[x] <= s - 1)
    BY <1>3, <1>4, <1>5
  <2>2. s <= c * v[x]
    BY <1>1, <1>2, <2>1
  <2>3. QED
    BY <2>2
<1>8. Scale * v[p] <= k * s /\ k * s <= Scale * v[q]
  <2>1. \A x, y \in Int : x <= y => k * x <= k * y
    BY Z3
  <2>2. \A x \in Int : (k * c) * x = k * (c * x)
    BY <1>1, Z3
  <2>3. k * (c * v[p]) <= k * s /\ k * s <= k * (c * v[q])
    BY <1>1, <1>2, <1>6, <1>7, <2>1
  <2>4. Scale * v[p] = k * (c * v[p]) /\ Scale * v[q] = k * (c * v[q])
    BY <2>2 DEF c
  <2>5. QED
    BY <2>3, <2>4
<1>9. QED
  BY <1>8 DEF s

\* Means of which each is a multiple of their number: what is left of them when
\* their mean is taken away adds up to nothing.
LEMMA EffectsCancel ==
  ASSUME NEW D, IsFiniteSet(D), D # {}, NEW mean, NEW effect, NEW grand,
         grand = SumFunctionOnSet(mean, D) \div Cardinality(D),
         \A l \in D : /\ \E x \in Int : mean[l] = Cardinality(D) * x
                      /\ effect[l] = mean[l] - grand
  PROVE  SumFunctionOnSet(effect, D) = 0
<1> DEFINE m == Cardinality(D)
           part == [l \in D |-> CHOOSE x \in Int : mean[l] = m * x]
           s == SumFunctionOnSet(part, D)
           flat == [l \in D |-> grand]
<1>1. m \in Nat \ {0}
  BY FS_CardinalityType, FS_EmptySet
<1>2. \A l \in D : part[l] \in Int /\ mean[l] = m * part[l]
  OBVIOUS
<1> HIDE DEF part, m
<1>3. s \in Int
  BY <1>2, SumInt
<1>4. SumFunctionOnSet(mean, D) = m * s
  BY <1>1, <1>2, SumScaled
<1> HIDE DEF s
<1>5. grand = s
  <2>1. \A x \in Int : (m * x) \div m = x
    BY <1>1, Z3
  <2>2. QED
    BY <1>3, <1>4, <2>1 DEF m
<1>6. \A l \in D : mean[l] \in Int /\ flat[l] = s /\ flat[l] \in Int
                   /\ effect[l] = mean[l] - flat[l]
  <2>1. \A x \in Int : m * x \in Int
    BY <1>1, Z3
  <2>2. QED
    BY <1>2, <1>3, <1>5, <2>1
<1> HIDE DEF flat
<1>7. SumFunctionOnSet(effect, D) = SumFunctionOnSet(mean, D) - SumFunctionOnSet(flat, D)
  BY <1>6, SumMinus
<1>8. SumFunctionOnSet(flat, D) = s * m
  <2>1. SumFunctionOnSet(flat, D) <= s * m /\ s * m <= SumFunctionOnSet(flat, D)
    <3>1. \A l \in D : flat[l] <= s /\ s <= flat[l]
      BY <1>3, <1>6
    <3>2. QED
      BY <1>3, <1>6, <3>1, SumBounded DEF m
  <2>2. SumFunctionOnSet(flat, D) \in Int
    BY <1>6, SumInt
  <2>3. s * m \in Int
    BY <1>1, <1>3, Z3
  <2>4. QED
    BY <2>1, <2>2, <2>3
<1>9. m * s = s * m /\ m * s \in Int
  BY <1>1, <1>3, Z3
<1>10. QED
  BY <1>4, <1>7, <1>8, <1>9

\* The level l of the factor f: its runs, those that recovered, and their mean.
RunsIn(f, l) == {r \in Runs(Conditions) : r[1] \in Grouped[f][l]}
RecoveredIn(f, l) == {r \in RunsIn(f, l) : ValuesOf(Conditions)[r] # Censored}
MeanIn(f, l) == CellMean(GroupOf(f, l))
MeansOf(f) == [l \in DOMAIN Grouped[f] |-> MeanIn(f, l)]
DefinedIn(f) == {l \in DOMAIN Grouped[f] : MeanIn(f, l) # Undefined}

\* The rows of a main effect.
LEMMA MainEffectIs ==
  ASSUME NEW f
  PROVE  /\ DOMAIN MainEffect(f) = DOMAIN Grouped[f]
         /\ \A l \in DOMAIN Grouped[f] :
              /\ MainEffect(f)[l].n = Cardinality(DOMAIN GroupOf(f, l))
              /\ MainEffect(f)[l].recovered = Cardinality(Finite(GroupOf(f, l)))
              /\ MainEffect(f)[l].mean = MeanIn(f, l)
              /\ MeanIn(f, l) # Undefined =>
                   MainEffect(f)[l].effect = MeanIn(f, l) - GrandMean(MeansOf(f))
<1> DEFINE groups == [l \in DOMAIN Grouped[f] |-> GroupOf(f, l)]
           means == [l \in DOMAIN groups |-> CellMean(groups[l])]
<1>1. means = MeansOf(f)
  BY DEF MeansOf, MeanIn
<1>2. DOMAIN groups = DOMAIN Grouped[f] /\ \A l \in DOMAIN Grouped[f] : groups[l] = GroupOf(f, l)
  OBVIOUS
<1>3. \A l \in DOMAIN Grouped[f] : MeansOf(f)[l] = MeanIn(f, l)
  BY DEF MeansOf
<1>4. MainEffect(f) = Levels(groups, MeansOf(f), GrandMean(MeansOf(f)))
  <2>1. MainEffect(f) = Levels(groups, means, GrandMean(means))
    BY DEF MainEffect, EffectIn, EffectOf
  <2> HIDE DEF means, groups
  <2>2. QED
    BY <2>1, <1>1
<1> HIDE DEF groups, means
<1>5. PICK grand : grand = GrandMean(MeansOf(f))
  OBVIOUS
<1>6. MainEffect(f) =
        [l \in DOMAIN Grouped[f] |->
           [n |-> Cardinality(DOMAIN groups[l]), recovered |-> Cardinality(Finite(groups[l])),
            mean |-> MeansOf(f)[l],
            effect |-> IF MeansOf(f)[l] = Undefined THEN Undefined ELSE MeansOf(f)[l] - grand]]
  BY <1>2, <1>4, <1>5 DEF Levels
<1>7. ASSUME NEW l \in DOMAIN Grouped[f]
      PROVE  /\ MainEffect(f)[l].n = Cardinality(DOMAIN GroupOf(f, l))
             /\ MainEffect(f)[l].recovered = Cardinality(Finite(GroupOf(f, l)))
             /\ MainEffect(f)[l].mean = MeanIn(f, l)
             /\ MeanIn(f, l) # Undefined =>
                  MainEffect(f)[l].effect = MeanIn(f, l) - grand
  <2>1. groups[l] = GroupOf(f, l) /\ MeansOf(f)[l] = MeanIn(f, l)
    BY <1>2, <1>3
  <2>2. MainEffect(f)[l] =
          [n |-> Cardinality(DOMAIN groups[l]), recovered |-> Cardinality(Finite(groups[l])),
           mean |-> MeansOf(f)[l],
           effect |-> IF MeansOf(f)[l] = Undefined THEN Undefined ELSE MeansOf(f)[l] - grand]
    BY <1>6
  <2>3. QED
    BY <2>1, <2>2
<1>8. QED
  BY <1>5, <1>6, <1>7

\* The values of a level are those of its runs.
LEMMA GroupIs ==
  ASSUME ObservationsTyped, NEW f \in DOMAIN Factors, TextsDiffer(f),
         NEW l \in DOMAIN Grouped[f]
  PROVE  /\ DOMAIN GroupOf(f, l) = RunsIn(f, l)
         /\ Finite(GroupOf(f, l)) = RecoveredIn(f, l)
         /\ \A r \in RecoveredIn(f, l) : GroupOf(f, l)[r] \in Int
         /\ IsFiniteSet(RecoveredIn(f, l)) /\ Cardinality(RecoveredIn(f, l)) \in Nat
         /\ Cardinality(RecoveredIn(f, l)) <= Repetitions * CombosFrom[1]
         /\ Cardinality(RecoveredIn(f, l)) = 0 <=> RecoveredIn(f, l) = {}
<1> DEFINE S == Grouped[f][l]
<1>1. S \in SUBSET Conditions
  BY GroupsAre
<1> HIDE DEF S
<1>2. /\ IsFiniteSet(Runs(S)) /\ Cardinality(Runs(S)) \in Nat
      /\ Cardinality(Runs(S)) <= Repetitions * CombosFrom[1]
      /\ Runs(S) = {r \in Runs(Conditions) : r[1] \in S}
      /\ DOMAIN ValuesOf(S) = Runs(S)
      /\ \A r \in Runs(S) : /\ ValuesOf(S)[r] = ValuesOf(Conditions)[r]
                            /\ ValuesOf(S)[r] \in Values \union {Censored}
  BY <1>1, RunsAreOf
<1>3. GroupOf(f, l) = ValuesOf(S) /\ RunsIn(f, l) = Runs(S)
  BY <1>2 DEF GroupOf, RunsIn, S
<1>4. Finite(GroupOf(f, l)) = RecoveredIn(f, l)
  BY <1>2, <1>3 DEF Finite, RecoveredIn
<1>5. \A r \in RecoveredIn(f, l) : GroupOf(f, l)[r] \in Int
  <2>1. \A v \in Values \union {Censored} : v \in Int
    BY MatrixAssumption
  <2>2. QED
    BY <1>2, <1>3, <2>1 DEF RecoveredIn
<1>6. RecoveredIn(f, l) \in SUBSET Runs(S)
  BY <1>3 DEF RecoveredIn
<1>7. IsFiniteSet(RecoveredIn(f, l)) /\ Cardinality(RecoveredIn(f, l)) <= Cardinality(Runs(S))
  BY <1>2, <1>6, FS_Subset
<1>8. Cardinality(RecoveredIn(f, l)) \in Nat
      /\ (Cardinality(RecoveredIn(f, l)) = 0 <=> RecoveredIn(f, l) = {})
  BY <1>7, FS_CardinalityType, FS_EmptySet
<1>9. Cardinality(RecoveredIn(f, l)) <= Repetitions * CombosFrom[1]
  <2>1. Repetitions * CombosFrom[1] \in Nat
    <3>1. \A x, y \in Nat : x * y \in Nat
      BY Z3
    <3>2. QED
      BY <3>1, CombosAre, MatrixAssumption
  <2>2. QED
    BY <1>2, <1>7, <1>8, <2>1
<1>10. QED
  BY <1>2, <1>3, <1>4, <1>5, <1>7, <1>8, <1>9

\* A mean is defined when a run recovered; it is not rounded, nor would it be when
\* divided by the number m of such means.
LEMMA MeanIs ==
  ASSUME ObservationsTyped, NEW f \in DOMAIN Factors, TextsDiffer(f),
         NEW l \in DOMAIN Grouped[f], NEW m \in Conditions
  PROVE  /\ RecoveredIn(f, l) = {} => MeanIn(f, l) = Undefined
         /\ RecoveredIn(f, l) # {} =>
              \E k \in Nat \ {0}, s \in Int :
                /\ Scale = (k * m) * Cardinality(RecoveredIn(f, l))
                /\ s = SumFunctionOnSet(GroupOf(f, l), RecoveredIn(f, l))
                /\ MeanIn(f, l) = m * (k * s) /\ MeanIn(f, l) = (k * m) * s
                /\ k * s \in Int /\ MeanIn(f, l) \in Int /\ k * m \in Nat \ {0}
<1> DEFINE F == RecoveredIn(f, l)
           v == GroupOf(f, l)
           c == Cardinality(F)
<1>1. MeanIn(f, l) = MeanOver(v, F)
  BY GroupIs DEF MeanIn, CellMean
<1>2. IsFiniteSet(F) /\ c \in Nat /\ c <= Repetitions * CombosFrom[1] /\ (c = 0 <=> F = {})
      /\ \A r \in F : v[r] \in Int
  BY GroupIs
<1> HIDE DEF F, v, c
<1>3. F = {} => MeanIn(f, l) = Undefined
  BY <1>1 DEF MeanOver
<1>4. ASSUME F # {}
      PROVE  \E k \in Nat \ {0}, s \in Int :
                /\ Scale = (k * m) * c
                /\ s = SumFunctionOnSet(v, F)
                /\ MeanIn(f, l) = m * (k * s) /\ MeanIn(f, l) = (k * m) * s
                /\ k * s \in Int /\ MeanIn(f, l) \in Int /\ k * m \in Nat \ {0}
  <2>1. m \in Nat \ {0} /\ c \in Nat \ {0}
    <3>1. m \in Nat /\ 1 <= m
      BY ConditionsFinite, CombosAre DEF Conditions
    <3>2. QED
      BY <3>1, <1>2, <1>4
  <2>2. Repetitions * CombosFrom[1] \in Nat
    <3>1. \A x, y \in Nat : x * y \in Nat
      BY Z3
    <3>2. QED
      BY <3>1, CombosAre, MatrixAssumption
  <2>3. c \in 1..(Repetitions * CombosFrom[1])
    BY <2>1, <2>2, <1>2
  <2>4. Scale % (c * m) = 0
    BY <2>3, ScaleAssumption
  <2>5. PICK n \in Nat \ {0} : n = c * m
    <3>1. c * m \in Nat \ {0}
      BY <2>1, Z3
    <3>2. QED
      BY <3>1
  <2>6. PICK k \in Nat \ {0} : Scale = k * n
    BY <2>4, <2>5, Multiple
  <2>7. PICK both \in Nat \ {0} : both = k * m
    <3>1. k * m \in Nat \ {0}
      BY <2>1, Z3
    <3>2. QED
      BY <3>1
  <2>8. k * (c * m) = (k * m) * c
    BY <2>1, Z3
  <2>9. Scale = both * c
    BY <2>5, <2>6, <2>7, <2>8
  <2>10. PICK s \in Int : s = SumFunctionOnSet(v, F)
    BY <1>2, SumInt
  <2>11. MeanIn(f, l) = (Scale * s) \div c
    BY <1>1, <1>4, <2>10 DEF MeanOver, c
  <2>12. MeanIn(f, l) = both * s /\ both * s \in Int
    BY <2>1, <2>9, <2>11, MeanExact
  <2>13. (k * m) * s = m * (k * s) /\ k * s \in Int
    BY <2>1, Z3
  <2>14. QED
    BY <2>7, <2>9, <2>10, <2>12, <2>13
<1>5. QED
  BY <1>3, <1>4 DEF F, v, c

\* The number of means is the number of a condition.
LEMMA DefinedFew ==
  ASSUME NEW f \in DOMAIN Factors, TextsDiffer(f)
  PROVE  /\ IsFiniteSet(DefinedIn(f))
         /\ DefinedIn(f) # {} => Cardinality(DefinedIn(f)) \in Conditions
<1> DEFINE names == DOMAIN Grouped[f]
           g == [i \in Conditions |-> GroupNames[f][i]]
           D == DefinedIn(f)
<1>1. names = {GroupNames[f][i] : i \in Conditions}
  BY GroupsAre
<1>2. g \in Surjection(Conditions, names)
  BY <1>1 DEF Surjection
<1>3. D \in SUBSET names
  BY DEF DefinedIn
<1> HIDE DEF g, names, D
<1>4. IsFiniteSet(names) /\ Cardinality(names) <= Cardinality(Conditions)
  BY <1>2, ConditionsFinite, FS_Surjection
<1>5. IsFiniteSet(D) /\ Cardinality(D) <= Cardinality(names)
      /\ Cardinality(D) \in Nat /\ Cardinality(names) \in Nat
      /\ (Cardinality(D) = 0 <=> D = {})
  BY <1>3, <1>4, FS_Subset, FS_CardinalityType, FS_EmptySet
<1>6. D # {} => Cardinality(D) \in Conditions
  <2>1. CombosFrom[1] \in Nat /\ Cardinality(Conditions) = CombosFrom[1]
    BY CombosAre, ConditionsFinite
  <2>2. QED
    BY <1>4, <1>5, <2>1 DEF Conditions
<1>7. QED
  BY <1>5, <1>6 DEF D

\* The effects of the levels of a factor cancel.
LEMMA EffectsCancelIn ==
  ASSUME ObservationsTyped, NEW f \in DOMAIN Factors, TextsDiffer(f)
  PROVE  SumFunction([l \in DefinedIn(f) |-> MainEffect(f)[l].effect]) = 0
<1> DEFINE D == DefinedIn(f)
           effect == [l \in D |-> MainEffect(f)[l].effect]
           means == MeansOf(f)
           grand == GrandMean(means)
<1>1. IsFiniteSet(D) /\ (D # {} => Cardinality(D) \in Conditions)
  BY DefinedFew
<1>2. SumFunction(effect) = SumFunctionOnSet(effect, D)
  BY DEF SumFunction
<1>3. \A l \in D : l \in DOMAIN Grouped[f] /\ MeanIn(f, l) # Undefined
  BY DEF DefinedIn
<1>4. \A l \in D : means[l] = MeanIn(f, l)
  BY <1>3 DEF MeansOf
<1>5. D = {l \in DOMAIN means : means[l] # Undefined}
  BY DEF MeansOf, DefinedIn
<1>6. \A l \in D : effect[l] = means[l] - grand
  <2>1. \A l \in DOMAIN Grouped[f] :
          MeanIn(f, l) # Undefined => MainEffect(f)[l].effect = MeanIn(f, l) - grand
    BY MainEffectIs
  <2>2. \A l \in D : effect[l] = MainEffect(f)[l].effect
    OBVIOUS
  <2> HIDE DEF D, effect, means, grand
  <2>3. QED
    BY <2>1, <2>2, <1>3, <1>4
<1>7. D # {} => grand = SumFunctionOnSet(means, D) \div Cardinality(D)
  <2> HIDE DEF means
  <2>1. QED
    BY <1>5 DEF GrandMean
<1> HIDE DEF D, effect, means, grand
<1>8. ASSUME D # {}, NEW l \in D PROVE \E x \in Int : means[l] = Cardinality(D) * x
  <2>1. PICK m \in Conditions : m = Cardinality(D)
    BY <1>1, <1>8
  <2>2. RecoveredIn(f, l) # {}
    BY <1>3, <2>1, MeanIs
  <2>3. PICK k \in Nat \ {0}, s \in Int : MeanIn(f, l) = m * (k * s) /\ k * s \in Int
    BY <1>3, <2>2, MeanIs
  <2>4. QED
    BY <1>4, <2>1, <2>3
<1>9. CASE D = {}
  <2>1. SumFunctionOnSet(effect, D) = 0
    BY <1>1, <1>9, SumChoice
  <2>2. QED
    BY <1>2, <2>1 DEF effect, D
<1>10. CASE D # {}
  <2>1. SumFunctionOnSet(effect, D) = 0
    BY <1>1, <1>6, <1>7, <1>8, <1>10, EffectsCancel
  <2>2. QED
    BY <1>2, <2>1 DEF effect, D
<1>11. QED
  BY <1>9, <1>10

LEMMA AccountedOfType ==
  ASSUME ObservationsTyped, NEW f \in DOMAIN Factors, TextsDiffer(f)
  PROVE  Accounted(f)
<1> DEFINE effect == MainEffect(f)
           names == DOMAIN Grouped[f]
           R == Runs(Conditions)
           Q == Finite(ValuesOf(Conditions))
<1>1. DOMAIN effect = names
      /\ \A l \in names : /\ effect[l].n = Cardinality(DOMAIN GroupOf(f, l))
                          /\ effect[l].recovered = Cardinality(Finite(GroupOf(f, l)))
                          /\ effect[l].mean = MeanIn(f, l)
  BY MainEffectIs
<1>2. Q = {r \in R : ValuesOf(Conditions)[r] # Censored}
  BY RunsAreOf DEF Finite
<1>3. \A l \in names : /\ DOMAIN GroupOf(f, l) = {r \in R : r[1] \in Grouped[f][l]}
                       /\ Finite(GroupOf(f, l)) = {r \in Q : r[1] \in Grouped[f][l]}
  <2>1. SUFFICES ASSUME NEW l \in names
                 PROVE  /\ DOMAIN GroupOf(f, l) = {r \in R : r[1] \in Grouped[f][l]}
                        /\ Finite(GroupOf(f, l)) = {r \in Q : r[1] \in Grouped[f][l]}
    OBVIOUS
  <2>2. DOMAIN GroupOf(f, l) = RunsIn(f, l) /\ Finite(GroupOf(f, l)) = RecoveredIn(f, l)
    BY GroupIs
  <2>3. RecoveredIn(f, l) = {r \in Q : r[1] \in Grouped[f][l]}
    <3> HIDE DEF Q
    <3>1. QED
      BY <1>2 DEF RecoveredIn, RunsIn
  <2>4. QED
    BY <2>2, <2>3 DEF RunsIn
<1> HIDE DEF effect
<1>4. SumFunction([l \in DOMAIN effect |-> effect[l].n]) = Cardinality(R)
  <2> DEFINE count == [l \in names |-> Cardinality({r \in R : r[1] \in Grouped[f][l]})]
  <2>1. [l \in DOMAIN effect |-> effect[l].n] = count
    BY <1>1, <1>3
  <2>2. R \in SUBSET Runs(Conditions)
    OBVIOUS
  <2> HIDE DEF R
  <2>3. SumFunction(count) = Cardinality(R)
    BY <2>2, GroupsCount
  <2> HIDE DEF count, names
  <2>4. QED
    BY <2>1, <2>3
<1>5. SumFunction([l \in DOMAIN effect |-> effect[l].recovered]) = Cardinality(Q)
  <2> DEFINE count == [l \in names |-> Cardinality({r \in Q : r[1] \in Grouped[f][l]})]
  <2>0. Q \in SUBSET Runs(Conditions)
    BY <1>2
  <2> HIDE DEF Q
  <2>1. [l \in DOMAIN effect |-> effect[l].recovered] = count
    BY <1>1, <1>3
  <2>3. SumFunction(count) = Cardinality(Q)
    BY <2>0, GroupsCount
  <2> HIDE DEF count, names
  <2>4. QED
    BY <2>1, <2>3
<1>6. SumFunction([l \in DefinedIn(f) |-> effect[l].effect]) = 0
  BY EffectsCancelIn DEF effect
<1>7. {l \in DOMAIN effect : effect[l].mean # Undefined} = DefinedIn(f)
  <2> HIDE DEF names
  <2>1. DefinedIn(f) = {l \in names : MeanIn(f, l) # Undefined}
    BY DEF DefinedIn, names
  <2>2. QED
    BY <1>1, <2>1
<1>8. ASSUME NEW l \in DOMAIN effect
      PROVE  LET values == GroupOf(f, l) IN
             /\ l \in DefinedIn(f) <=> effect[l].recovered > 0
             /\ l \in DefinedIn(f) => \E p, q \in Finite(values) :
                  Scale * values[p] <= effect[l].mean /\ effect[l].mean <= Scale * values[q]
  <2> DEFINE v == GroupOf(f, l)
             F == RecoveredIn(f, l)
  <2>1. l \in names /\ effect[l].recovered = Cardinality(F) /\ effect[l].mean = MeanIn(f, l)
        /\ Finite(v) = F
    BY <1>1, <1>8, GroupIs
  <2>2. l \in DefinedIn(f) <=> MeanIn(f, l) # Undefined
    BY <2>1 DEF DefinedIn
  <2>3. IsFiniteSet(F) /\ Cardinality(F) \in Nat /\ (Cardinality(F) = 0 <=> F = {})
        /\ \A r \in F : v[r] \in Int
    BY <2>1, GroupIs
  <2>4. 1 \in Conditions
    <3>1. PICK i \in Conditions : TRUE
      BY <2>1, GroupsAre
    <3>2. QED
      BY <3>1, CombosAre DEF Conditions
  <2>5. F = {} => MeanIn(f, l) = Undefined
    BY <2>1, <2>4, MeanIs
  <2> HIDE DEF v, F
  <2>6. ASSUME F # {}
        PROVE  /\ MeanIn(f, l) # Undefined
               /\ \E p, q \in F : Scale * v[p] <= MeanIn(f, l) /\ MeanIn(f, l) <= Scale * v[q]
    <3>1. PICK k \in Nat \ {0}, s \in Int :
             /\ Scale = (k * 1) * Cardinality(F)
             /\ s = SumFunctionOnSet(v, F)
             /\ MeanIn(f, l) = (k * 1) * s /\ MeanIn(f, l) \in Int
      <4>1. PICK one \in Conditions : one = 1
        BY <2>4
      <4>2. \E k \in Nat \ {0}, s \in Int :
             /\ Scale = (k * one) * Cardinality(F)
             /\ s = SumFunctionOnSet(v, F)
             /\ MeanIn(f, l) = (k * one) * s /\ MeanIn(f, l) \in Int
        BY <2>1, <2>6, MeanIs DEF F, v
      <4>3. QED
        BY <4>1, <4>2
    <3>2. Scale = k * Cardinality(F) /\ MeanIn(f, l) = k * SumFunctionOnSet(v, F)
      BY <3>1
    <3>3. \E p, q \in F : /\ Scale * v[p] <= k * SumFunctionOnSet(v, F)
                          /\ k * SumFunctionOnSet(v, F) <= Scale * v[q]
      BY <2>3, <2>6, <3>2, MeanBetween
    <3>4. Undefined \notin Int
      BY MatrixAssumption
    <3>5. QED
      BY <3>1, <3>2, <3>3, <3>4
  <2>7. l \in DefinedIn(f) <=> effect[l].recovered > 0
    BY <2>1, <2>2, <2>3, <2>5, <2>6
  <2>8. l \in DefinedIn(f) => \E p, q \in Finite(v) :
          Scale * v[p] <= effect[l].mean /\ effect[l].mean <= Scale * v[q]
    BY <2>1, <2>2, <2>5, <2>6
  <2>9. QED
    BY <2>7, <2>8 DEF v
<1> HIDE DEF names, R, Q
<1>9. QED
  BY <1>4, <1>5, <1>6, <1>7, <1>8 DEF Accounted, effect, R, Q

\* Whatever conditions failed and whatever runs did not recover: the levels of a
\* factor count every observation once, their effects cancel, and no mean lies
\* outside the values it was computed from; for any factors, levels and repetitions.
THEOREM EffectsAlwaysAccount == MatrixSpec => []EffectsAccount
<1>1. ObservationsTyped => EffectsAccount
  BY AccountedOfType DEF EffectsAccount
<1>2. QED
  BY <1>1, ObservationsType, PTL

-------------------------------------------------------------------------------
(* 9. Designs                                                              *)

\* One path lies below another when it goes on from it.
LEMMA BelowIs ==
  ASSUME NEW K, NEW s \in Seq(K), NEW t \in Seq(K)
  PROVE  Below(s, t) <=> Len(s) <= Len(t) /\ \A m \in 1..Len(s) : s[m] = t[m]
<1>1. Len(s) \in Nat /\ Len(t) \in Nat /\ (\A m \in 1..Len(s) : s[m] \in K)
      /\ (\A m \in 1..Len(t) : t[m] \in K)
  BY LenProperties, ElementOfSeq
<1>2. CASE Len(s) <= Len(t)
  <2> DEFINE a == SubSeq(s, 1, Len(s))
             b == SubSeq(t, 1, Len(s))
  <2>1. /\ a \in Seq(K) /\ Len(a) = Len(s)
        /\ \A m \in 1..Len(s) : a[m] = s[m]
    <3>1. \A m \in 1..Len(s) : s[m] \in K
      BY <1>1
    <3>2. /\ a \in Seq(K) /\ Len(a) = IF 1 <= Len(s) THEN Len(s) - 1 + 1 ELSE 0
          /\ \A m \in 1..(Len(s) - 1 + 1) : a[m] = s[1 + m - 1]
      BY <1>1, SubSeqProperties
    <3>3. QED
      BY <1>1, <3>2
  <2>2. /\ b \in Seq(K) /\ Len(b) = Len(s)
        /\ \A m \in 1..Len(s) : b[m] = t[m]
    <3>1. \A m \in 1..Len(s) : t[m] \in K
      BY <1>1, <1>2
    <3>2. /\ b \in Seq(K) /\ Len(b) = IF 1 <= Len(s) THEN Len(s) - 1 + 1 ELSE 0
          /\ \A m \in 1..(Len(s) - 1 + 1) : b[m] = t[1 + m - 1]
      BY <1>1, <3>1, SubSeqProperties
    <3>3. QED
      BY <1>1, <3>2
  <2> HIDE DEF a, b
  <2>3. a = b <=> \A m \in 1..Len(s) : s[m] = t[m]
    BY <2>1, <2>2, SeqEqual
  <2>4. QED
    BY <1>2, <2>3 DEF Below, IsPrefix, a, b
<1>3. QED
  BY <1>2 DEF Below, IsPrefix

\* What lies below a path lies below all that is above the path.
LEMMA BelowTransitive ==
  ASSUME NEW K, NEW s \in Seq(K), NEW t \in Seq(K), NEW u \in Seq(K), Below(s, t), Below(t, u)
  PROVE  Below(s, u)
<1>1. Len(s) \in Nat /\ Len(t) \in Nat /\ Len(u) \in Nat
  BY LenProperties
<1>2. QED
  BY <1>1, BelowIs

\* Of two paths above a third one lies above the other.
LEMMA BelowBoth ==
  ASSUME NEW K, NEW s \in Seq(K), NEW t \in Seq(K), NEW u \in Seq(K), Below(s, u), Below(t, u)
  PROVE  Below(s, t) \/ Below(t, s)
<1>1. Len(s) \in Nat /\ Len(t) \in Nat /\ Len(u) \in Nat
  BY LenProperties
<1>2. (\A m \in 1..Len(s) : s[m] = u[m]) /\ (\A m \in 1..Len(t) : t[m] = u[m])
  BY BelowIs
<1>3. CASE Len(s) <= Len(t)
  BY <1>1, <1>2, <1>3, BelowIs
<1>4. CASE Len(t) <= Len(s)
  BY <1>1, <1>2, <1>4, BelowIs
<1>5. QED
  BY <1>1, <1>3, <1>4

\* What lies below a path is the path and a rest, and the rest is read back from it.
LEMMA PathAndRest ==
  ASSUME NEW K, NEW s \in Seq(K), NEW r \in Seq(K)
  PROVE  /\ s \o r \in Seq(K) /\ Below(s, s \o r)
         /\ SubSeq(s \o r, Len(s) + 1, Len(s \o r)) = r
<1> DEFINE q == s \o r
           a == SubSeq(q, Len(s) + 1, Len(q))
<1>1. Len(s) \in Nat /\ Len(r) \in Nat
  BY LenProperties
<1>2. /\ q \in Seq(K) /\ Len(q) = Len(s) + Len(r)
      /\ \A m \in 1..(Len(s) + Len(r)) : q[m] = IF m <= Len(s) THEN s[m] ELSE r[m - Len(s)]
  BY ConcatProperties
<1> HIDE DEF q
<1>3. Below(s, q)
  BY <1>1, <1>2, BelowIs
<1>4. a = r
  <2>1. \A m \in (Len(s) + 1)..Len(q) : q[m] \in K
    BY <1>1, <1>2, ElementOfSeq
  <2>2. Len(s) + 1 \in Int /\ Len(q) \in Int
    BY <1>1, <1>2
  <2>3. /\ a \in Seq(K)
        /\ Len(a) = IF Len(s) + 1 <= Len(q) THEN Len(q) - (Len(s) + 1) + 1 ELSE 0
        /\ \A m \in 1..(Len(q) - (Len(s) + 1) + 1) : a[m] = q[Len(s) + 1 + m - 1]
    BY <2>1, <2>2, SubSeqProperties
  <2> HIDE DEF a
  <2>4. Len(a) = Len(r)
    BY <1>1, <1>2, <2>3
  <2>5. ASSUME NEW m \in 1..Len(a) PROVE a[m] = r[m]
    <3>1. m \in 1..(Len(q) - (Len(s) + 1) + 1) /\ Len(s) + 1 + m - 1 = Len(s) + m
      BY <1>1, <1>2, <2>4
    <3>2. a[m] = q[Len(s) + m]
      BY <2>3, <3>1
    <3>3. Len(s) + m \in 1..(Len(s) + Len(r)) /\ ~(Len(s) + m <= Len(s)) /\ Len(s) + m - Len(s) = m
      BY <1>1, <2>4
    <3>4. QED
      BY <1>2, <3>2, <3>3
  <2>6. QED
    BY <2>3, <2>4, <2>5, SeqEqual
<1>5. QED
  BY <1>2, <1>3, <1>4 DEF q

\* A path is above another one, or it is the path.
Above(path) == {SubSeq(path, 1, n) : n \in 1..(Len(path) - 1)}

\* The nodes that become dictionaries are above the path and not below it.
LEMMA AboveIs ==
  ASSUME NEW K, NEW path \in Seq(K), NEW q \in Above(path)
  PROVE  q \in Seq(K) /\ Below(q, path) /\ ~Below(path, q)
<1>1. PICK n \in 1..(Len(path) - 1) : q = SubSeq(path, 1, n)
  BY DEF Above
<1>2. Len(path) \in Nat
  BY LenProperties
<1>3. \A m \in 1..n : path[m] \in K
  BY <1>2, ElementOfSeq
<1>4. /\ q \in Seq(K) /\ Len(q) = IF 1 <= n THEN n - 1 + 1 ELSE 0
      /\ \A m \in 1..(n - 1 + 1) : q[m] = path[1 + m - 1]
  BY <1>1, <1>2, <1>3, SubSeqProperties
<1>5. Len(q) = n /\ \A m \in 1..n : q[m] = path[m]
  BY <1>2, <1>4
<1>6. QED
  BY <1>2, <1>4, <1>5, BelowIs

\* Neither of two paths lies above the other.
Apart(path, q) == ~Below(path, q) /\ ~Below(q, path)

\* What one assignment does: the level is what is at the path and below it, and what
\* lies neither above nor below stays.
Assigned(e, d, path, tree, K) ==
  /\ DOMAIN e \subseteq Seq(K)
  /\ {q \in DOMAIN e : Below(path, q)} = {path \o r : r \in DOMAIN tree}
  /\ \A r \in DOMAIN tree : e[path \o r] = tree[r]
  /\ \A q \in Seq(K) : Apart(path, q) =>
       /\ q \in DOMAIN e <=> q \in DOMAIN d
       /\ q \in DOMAIN d => e[q] = d[q]

\* _set_path() is such an assignment.
LEMMA SetPathIs ==
  ASSUME NEW K, NEW d, DOMAIN d \subseteq Seq(K), NEW path \in Seq(K),
         NEW tree, DOMAIN tree \subseteq Seq(K)
  PROVE  Assigned(SetPath(d, path, tree), d, path, tree, K)
<1> DEFINE e == SetPath(d, path, tree)
           above == Above(path)
           kept == {q \in DOMAIN d : ~Below(path, q)} \ above
           put == {path \o r : r \in DOMAIN tree}
           At(q) == IF q \in above THEN DictNode
                    ELSE IF q \in kept THEN d[q] ELSE tree[SubSeq(q, Len(path) + 1, Len(q))]
<1>1. e = [q \in above \union kept \union put |-> At(q)]
  BY DEF SetPath, Above
<1>2. \A q \in above : q \in Seq(K) /\ Below(q, path) /\ ~Below(path, q)
  BY AboveIs
<1>3. \A r \in DOMAIN tree :
        /\ path \o r \in Seq(K) /\ Below(path, path \o r)
        /\ SubSeq(path \o r, Len(path) + 1, Len(path \o r)) = r
  BY PathAndRest
<1> HIDE DEF e, above
<1>4. DOMAIN e = above \union kept \union put /\ \A q \in DOMAIN e : e[q] = At(q)
  BY <1>1
<1>5. \A q \in put : q \in Seq(K) /\ Below(path, q)
  BY <1>3
<1>6. DOMAIN e \subseteq Seq(K)
  BY <1>2, <1>4, <1>5
<1>7. {q \in DOMAIN e : Below(path, q)} = put
  BY <1>2, <1>4, <1>5
<1>8. ASSUME NEW r \in DOMAIN tree PROVE e[path \o r] = tree[r]
  <2>1. PICK q : q = path \o r
    OBVIOUS
  <2>2. q \in put /\ q \notin above /\ q \notin kept
    BY <1>2, <1>3, <2>1
  <2>3. e[q] = tree[SubSeq(q, Len(path) + 1, Len(q))]
    BY <1>4, <2>2
  <2>4. SubSeq(q, Len(path) + 1, Len(q)) = r
    BY <1>3, <2>1
  <2>5. QED
    BY <2>1, <2>3, <2>4
<1>9. ASSUME NEW q \in Seq(K), Apart(path, q)
      PROVE  /\ q \in DOMAIN e <=> q \in DOMAIN d
             /\ q \in DOMAIN d => e[q] = d[q]
  <2>1. q \notin above /\ q \notin put
    BY <1>2, <1>5, <1>9 DEF Apart
  <2>2. q \in kept <=> q \in DOMAIN d
    BY <1>9, <2>1 DEF Apart
  <2>3. QED
    BY <1>4, <2>1, <2>2
<1>10. QED
  BY <1>6, <1>7, <1>8, <1>9 DEF e, Assigned

\* What an assignment in the order of the factors does: the k-th one sets the path of
\* the factor that is k-th in it.
Put(d, order, i, k) == SetPath(d, Factors[order[k]].path, LevelOf(i, order[k]).tree)

\* it is the function by which Specs[i] is computed: from sets of positions to trees.
Puts(it, n, order, i) ==
  it = [T \in SUBSET (1..n) |-> IF T = {} THEN Base ELSE Put(it[T \ {Max(T)}], order, i, Max(T))]

\* There is such a function for any number of factors.
LEMMA PutsExist ==
  ASSUME NEW order, NEW i, NEW n \in Nat
  PROVE  \E it : Puts(it, n, order, i)
<1> DEFINE S == {k \in Nat : \E it : Puts(it, k, order, i)}
<1>1. 0 \in S
  <2> DEFINE it == [T \in SUBSET (1..0) |-> Base]
  <2>1. \A T \in SUBSET (1..0) : T = {}
    OBVIOUS
  <2>2. Puts(it, 0, order, i)
    BY <2>1 DEF Puts
  <2>3. QED
    BY <2>2
<1>2. ASSUME NEW k \in Nat, k \in S PROVE k + 1 \in S
  <2>1. PICK it : Puts(it, k, order, i)
    BY <1>2
  <2> DEFINE top == k + 1
             jt == [T \in SUBSET (1..top) |->
                      IF top \in T THEN Put(it[T \ {top}], order, i, top) ELSE it[T]]
  <2>2. \A T \in SUBSET (1..top) : top \notin T => T \in SUBSET (1..k)
    OBVIOUS
  <2>3. ASSUME NEW T \in SUBSET (1..top)
        PROVE  jt[T] = IF T = {} THEN Base ELSE Put(jt[T \ {Max(T)}], order, i, Max(T))
    <3>1. CASE top \in T
      <4>1. Max(T) = top
        BY <3>1, MaxTop
      <4>2. jt[T \ {top}] = it[T \ {top}]
        OBVIOUS
      <4>3. QED
        BY <3>1, <4>1, <4>2
    <3>2. CASE top \notin T
      <4>1. jt[T] = it[T]
        BY <3>2
      <4>2. it[T] = IF T = {} THEN Base ELSE Put(it[T \ {Max(T)}], order, i, Max(T))
        BY <2>1, <2>2, <3>2 DEF Puts
      <4>3. jt[T \ {Max(T)}] = it[T \ {Max(T)}]
        BY <3>2, <2>2
      <4>4. QED
        BY <4>1, <4>2, <4>3
    <3>3. QED
      BY <3>1, <3>2
  <2>4. Puts(jt, top, order, i)
    BY <2>3 DEF Puts
  <2>5. QED
    <3> HIDE DEF jt
    <3>1. \E it2 : Puts(it2, k + 1, order, i)
      BY <2>4
    <3>2. QED
      BY <3>1
<1>3. Nat \subseteq S
  BY <1>1, <1>2, InductiveSet
<1>4. QED
  BY <1>3

\* s is the course of the assignments of condition i: from the base to its specification.
Course(s, i) ==
  /\ s[0] = Base /\ s[Len(Factors)] = Specs[i]
  /\ \A k \in 1..Len(Factors) : s[k] = SetPath(s[k - 1], Factors[k].path, LevelOf(i, k).tree)

\* apply_factors() makes its assignments one after the other.
LEMMA CourseExists ==
  ASSUME NEW i \in Conditions
  PROVE  \E s : Course(s, i)
<1> DEFINE n == Len(Factors)
           order == [f \in DOMAIN Factors |-> f]
           Chosen == CHOOSE it : Puts(it, n, order, i)
<1>1. n \in Nat /\ DOMAIN Factors = 1..n
  BY MatrixAssumption
<1>2. Puts(Chosen, n, order, i)
  <2> HIDE DEF n, order
  <2>1. QED
    BY <1>1, PutsExist
<1>3. Specs[i] = Chosen[1..n]
  <2>1. Specs[i] =
          FoldLeft(LAMBDA d, f : SetPath(d, Factors[f].path, LevelOf(i, f).tree), Base, order)
    BY DEF Specs
  <2>2. DOMAIN order = 1..n
    BY <1>1
  <2>3. QED
    BY <2>1, <2>2 DEF FoldLeft, MapThenFoldSet, Puts, Put
<1> DEFINE s == [k \in 0..n |-> Chosen[1..k]]
<1> HIDE DEF Chosen, n
<1>4. Chosen[1..0] = Base
  <2>1. 1..0 = {}
    OBVIOUS
  <2>2. QED
    BY <1>2, <2>1 DEF Puts
<1>5. ASSUME NEW k \in 1..n
      PROVE  Chosen[1..k] = SetPath(Chosen[1..(k - 1)], Factors[k].path, LevelOf(i, k).tree)
  <2>1. PICK m \in Nat : m = k - 1 /\ k = m + 1
    BY <1>1
  <2> DEFINE T == 1..(m + 1)
  <2>2. T \in SUBSET (1..n) /\ T # {}
    <3>1. 1 \in T /\ \A j \in T : j \in 1..n
      BY <1>1, <2>1
    <3>2. QED
      BY <3>1
  <2>3. Max(T) = m + 1
    BY MaxTop
  <2>4. T \ {m + 1} = 1..m
    OBVIOUS
  <2> HIDE DEF T
  <2>5. Chosen[T] = Put(Chosen[T \ {Max(T)}], order, i, Max(T))
    <3> HIDE DEF order
    <3>1. QED
      BY <1>2, <2>2 DEF Puts
  <2>6. Chosen[T] = Put(Chosen[1..m], order, i, m + 1)
    BY <2>3, <2>4, <2>5
  <2>7. order[k] = k
    BY <1>1
  <2> HIDE DEF order
  <2>8. QED
    BY <2>1, <2>6, <2>7 DEF Put, T
<1>6. s[0] = Chosen[1..0] /\ s[n] = Chosen[1..n]
  BY <1>1
<1>7. \A k \in 1..n : s[k] = Chosen[1..k] /\ s[k - 1] = Chosen[1..(k - 1)]
  BY <1>1
<1> HIDE DEF s
<1>8. Course(s, i)
  BY <1>3, <1>4, <1>5, <1>6, <1>7 DEF Course, n
<1>9. QED
  BY <1>8

\* If there is a condition, every factor has a level.
LEMMA CombosPositive ==
  ASSUME Conditions # {}
  PROVE  /\ \A f \in 1..(Len(Factors) + 1) : CombosFrom[f] \in Nat \ {0}
         /\ \A f \in 1..Len(Factors) : Len(Factors[f].levels) \in Nat \ {0}
<1> DEFINE n == Len(Factors)
           S == {m \in Nat : m <= n => CombosFrom[m + 1] \in Nat \ {0}}
<1>1. n \in Nat /\ \A f \in 1..n : Len(Factors[f].levels) \in Nat
  BY MatrixAssumption
<1>2. \A f \in 1..(n + 1) :
        /\ CombosFrom[f] \in Nat
        /\ CombosFrom[f] = IF f > n THEN 1 ELSE Len(Factors[f].levels) * CombosFrom[f + 1]
  BY CombosStep, CombosNatural
<1> HIDE DEF n
<1>3. \A x, y \in Nat : x * y # 0 => x # 0 /\ y # 0
  BY Z3
<1>4. \A f \in 1..n : CombosFrom[f] # 0 => Len(Factors[f].levels) # 0 /\ CombosFrom[f + 1] # 0
  <2>1. TAKE f \in 1..n
  <2>2. f \in 1..(n + 1) /\ f + 1 \in 1..(n + 1) /\ ~(f > n)
    BY <1>1
  <2>3. /\ CombosFrom[f + 1] \in Nat /\ Len(Factors[f].levels) \in Nat
        /\ CombosFrom[f] = Len(Factors[f].levels) * CombosFrom[f + 1]
    BY <1>1, <1>2, <2>2
  <2>4. QED
    BY <1>3, <2>3
<1>5. 0 \in S
  <2>1. CombosFrom[1] \in Nat /\ CombosFrom[1] # 0
    BY <1>1, <1>2 DEF Conditions
  <2>2. QED
    BY <2>1
<1>6. ASSUME NEW m \in Nat, m \in S PROVE m + 1 \in S
  <2>1. SUFFICES ASSUME m + 1 <= n PROVE CombosFrom[m + 1 + 1] \in Nat \ {0}
    OBVIOUS
  <2>2. m + 1 \in 1..n /\ m + 1 + 1 \in 1..(n + 1) /\ m <= n
    BY <1>1, <2>1
  <2>3. CombosFrom[m + 1] # 0
    BY <1>6, <2>2
  <2>4. QED
    BY <1>2, <1>4, <2>2, <2>3
<1>7. Nat \subseteq S
  BY <1>5, <1>6, InductiveSet
<1>8. ASSUME NEW f \in 1..(n + 1) PROVE CombosFrom[f] \in Nat \ {0}
  <2>1. PICK m \in Nat : f = m + 1 /\ m <= n
    BY <1>1
  <2>2. QED
    BY <1>7, <2>1
<1>9. \A f \in 1..n : f \in 1..(n + 1)
  BY <1>1
<1>10. QED
  BY <1>1, <1>4, <1>8, <1>9 DEF n

\* Where the level of a condition stands among the levels of the factor.
Digit(i, f) == (((i - 1) \div CombosFrom[f + 1]) % Len(Factors[f].levels)) + 1

\* The level of a condition is one of the factor's.
LEMMA LevelIs ==
  ASSUME NEW i \in Conditions, NEW f \in DOMAIN Factors
  PROVE  Digit(i, f) \in DOMAIN Factors[f].levels /\ LevelOf(i, f) = Factors[f].levels[Digit(i, f)]
<1>1. /\ Len(Factors) \in Nat /\ f \in 1..Len(Factors) /\ f + 1 \in 1..(Len(Factors) + 1)
      /\ DOMAIN Factors[f].levels = 1..Len(Factors[f].levels)
  BY MatrixAssumption
<1>2. CombosFrom[f + 1] \in Nat \ {0} /\ Len(Factors[f].levels) \in Nat \ {0}
  BY <1>1, CombosPositive
<1>3. i \in Nat /\ i >= 1
  BY CombosAre DEF Conditions
<1>4. \A x \in Nat, c, l \in Nat \ {0} : (x \div c) % l \in 0..(l - 1)
  BY Z3
<1>5. i - 1 \in Nat
  BY <1>3
<1>6. ((i - 1) \div CombosFrom[f + 1]) % Len(Factors[f].levels) \in 0..(Len(Factors[f].levels) - 1)
  BY <1>2, <1>4, <1>5
<1>7. \A x, l \in Int : x \in 0..(l - 1) => x + 1 \in 1..l
  OBVIOUS
<1>8. Digit(i, f) \in DOMAIN Factors[f].levels
  BY <1>1, <1>2, <1>6, <1>7 DEF Digit
<1>9. QED
  BY <1>8 DEF LevelOf, Combination, Digit

\* All paths there are, and the keys they are made of.
LevelPaths == UNION {UNION {DOMAIN Factors[f].levels[p].tree : p \in DOMAIN Factors[f].levels} :
                       f \in DOMAIN Factors}
Paths == DOMAIN Base \union {Factors[f].path : f \in DOMAIN Factors} \union LevelPaths
Keys == UNION {Range(q) : q \in Paths}

\* All paths are sequences over one set of keys.
LEMMA PathsAre == \A q \in Paths : q \in Seq(Keys)
<1>1. TAKE q \in Paths
<1>2. q \in Seq(Range(q))
  <2>1. CASE q \in DOMAIN Base
    BY <2>1, PathAssumption DEF IsPath
  <2>2. CASE q \in {Factors[f].path : f \in DOMAIN Factors}
    BY <2>2, PathAssumption DEF IsPath
  <2>3. CASE q \in LevelPaths
    <3>1. PICK f \in DOMAIN Factors :
            \E p \in DOMAIN Factors[f].levels : q \in DOMAIN Factors[f].levels[p].tree
      BY <2>3 DEF LevelPaths
    <3>2. PICK p \in DOMAIN Factors[f].levels : q \in DOMAIN Factors[f].levels[p].tree
      BY <3>1
    <3>3. IsPath(q)
      BY <3>2, PathAssumption
    <3>4. QED
      BY <3>3 DEF IsPath
  <2>4. QED
    BY <2>1, <2>2, <2>3 DEF Paths
<1>3. Range(q) \subseteq Keys
  BY DEF Keys
<1>4. QED
  BY <1>2, <1>3, SeqMonotonic

\* So are the nodes of the trees that levels put there.
LEMMA TreesAre ==
  ASSUME NEW i \in Conditions, NEW f \in DOMAIN Factors
  PROVE  /\ Factors[f].path \in Seq(Keys)
         /\ DOMAIN LevelOf(i, f).tree \subseteq Seq(Keys)
<1>1. Factors[f].path \in Paths
  BY DEF Paths
<1>2. DOMAIN LevelOf(i, f).tree \subseteq LevelPaths
  BY LevelIs DEF LevelPaths
<1>3. QED
  BY <1>1, <1>2, PathsAre DEF Paths

\* The tree d has the level of condition i at the path of factor f, and nothing else
\* at or below it.
HasLevel(d, i, f) ==
  LET path == Factors[f].path  tree == LevelOf(i, f).tree IN
  /\ {q \in DOMAIN d : Below(path, q)} = {path \o r : r \in DOMAIN tree}
  /\ \A r \in DOMAIN tree : d[path \o r] = tree[r]

\* What is neither above nor below the path of any factor is as in the base.
KeepsRest(d) ==
  \A q \in DOMAIN Base :
    (\A f \in DOMAIN Factors : ~Below(Factors[f].path, q) /\ ~Below(q, Factors[f].path))
      => q \in DOMAIN d /\ d[q] = Base[q]

\* After the first k assignments the first k factors have their levels.
DesignedSoFar(d, i, k) ==
  /\ DOMAIN d \subseteq Seq(Keys)
  /\ \A f \in 1..k : HasLevel(d, i, f)
  /\ KeepsRest(d)

\* The path of another factor is apart from all that lies below the path of a factor.
LEMMA ApartFromBelow ==
  ASSUME NEW K, NEW path \in Seq(K), NEW other \in Seq(K), NEW q \in Seq(K),
         ~Below(path, other), ~Below(other, path), Below(path, q)
  PROVE  Apart(other, q)
<1>1. ~Below(other, q)
  BY BelowBoth
<1>2. ~Below(q, other)
  BY BelowTransitive
<1>3. QED
  BY <1>1, <1>2 DEF Apart

\* Each assignment adds the level of its factor and disturbs no earlier one.
LEMMA AssignmentDesigns ==
  ASSUME Disjoint, NEW i \in Conditions, NEW k \in DOMAIN Factors, NEW d,
         DesignedSoFar(d, i, k - 1)
  PROVE  DesignedSoFar(SetPath(d, Factors[k].path, LevelOf(i, k).tree), i, k)
<1>1. /\ Factors[k].path \in Seq(Keys) /\ DOMAIN LevelOf(i, k).tree \subseteq Seq(Keys)
      /\ DOMAIN d \subseteq Seq(Keys)
  BY TreesAre DEF DesignedSoFar
<1>2. k \in Nat /\ DOMAIN Factors = 1..Len(Factors) /\ Len(Factors) \in Nat
  BY MatrixAssumption
<1>3. PICK path, tree : path = Factors[k].path /\ tree = LevelOf(i, k).tree
  OBVIOUS
<1>4. PICK e : e = SetPath(d, path, tree)
  OBVIOUS
<1>5. /\ DOMAIN e \subseteq Seq(Keys)
      /\ {q \in DOMAIN e : Below(path, q)} = {path \o r : r \in DOMAIN tree}
      /\ \A r \in DOMAIN tree : e[path \o r] = tree[r]
      /\ \A q \in Seq(Keys) : Apart(path, q) =>
           /\ q \in DOMAIN e <=> q \in DOMAIN d
           /\ q \in DOMAIN d => e[q] = d[q]
  <2>1. path \in Seq(Keys) /\ DOMAIN tree \subseteq Seq(Keys) /\ DOMAIN d \subseteq Seq(Keys)
    BY <1>1, <1>3
  <2>2. Assigned(SetPath(d, path, tree), d, path, tree, Keys)
    BY ONLY <2>1, SetPathIs
  <2>3. Assigned(e, d, path, tree, Keys)
    BY ONLY <2>2, <1>4
  <2>4. QED
    BY ONLY <2>3 DEF Assigned
<1>6. HasLevel(e, i, k)
  BY <1>3, <1>5 DEF HasLevel
<1>7. ASSUME NEW f \in 1..(k - 1) PROVE HasLevel(e, i, f)
  <2>1. f \in DOMAIN Factors /\ f # k
    BY <1>2
  <2>2. PICK fp, ft : fp = Factors[f].path /\ ft = LevelOf(i, f).tree
    OBVIOUS
  <2>3. fp \in Seq(Keys) /\ DOMAIN ft \subseteq Seq(Keys) /\ path \in Seq(Keys)
    BY <1>1, <1>3, <2>1, <2>2, TreesAre
  <2>4. ~Below(fp, path) /\ ~Below(path, fp)
    BY <1>3, <2>1, <2>2 DEF Disjoint
  <2>5. \A q \in Seq(Keys) : Below(fp, q) => Apart(path, q)
    BY <2>3, <2>4, ApartFromBelow
  <2>6. /\ {q \in DOMAIN d : Below(fp, q)} = {fp \o r : r \in DOMAIN ft}
        /\ \A r \in DOMAIN ft : d[fp \o r] = ft[r]
    <3>1. HasLevel(d, i, f)
      BY DEF DesignedSoFar
    <3>2. QED
      BY <2>2, <3>1 DEF HasLevel
  <2>7. {q \in DOMAIN e : Below(fp, q)} = {q \in DOMAIN d : Below(fp, q)}
    BY <1>1, <1>5, <2>5
  <2>8. ASSUME NEW r \in DOMAIN ft PROVE e[fp \o r] = ft[r]
    <3>1. PICK q : q = fp \o r
      OBVIOUS
    <3>2. q \in DOMAIN d /\ Below(fp, q) /\ q \in Seq(Keys)
      BY <1>1, <2>6, <3>1
    <3>3. e[q] = d[q]
      BY <1>5, <2>5, <3>2
    <3>4. QED
      BY <2>6, <3>1, <3>3
  <2>9. QED
    BY <2>2, <2>6, <2>7, <2>8 DEF HasLevel
<1>8. KeepsRest(e)
  <2>1. SUFFICES ASSUME NEW q \in DOMAIN Base,
                        \A f \in DOMAIN Factors : ~Below(Factors[f].path, q) /\ ~Below(q, Factors[f].path)
                 PROVE  q \in DOMAIN e /\ e[q] = Base[q]
    BY DEF KeepsRest
  <2>2. q \in DOMAIN d /\ d[q] = Base[q]
    BY <2>1 DEF DesignedSoFar, KeepsRest
  <2>3. Apart(path, q) /\ q \in Seq(Keys)
    BY <1>1, <1>3, <2>1, <2>2 DEF Apart
  <2>4. QED
    BY <1>5, <2>2, <2>3
<1>9. \A f \in 1..k : f \in 1..(k - 1) \/ f = k
  BY <1>2
<1>10. DesignedSoFar(e, i, k)
  BY <1>5, <1>6, <1>7, <1>8, <1>9 DEF DesignedSoFar
<1>11. QED
  BY <1>3, <1>4, <1>10

\* The specification of a condition has the levels of all factors.
LEMMA SpecDesigned ==
  ASSUME Disjoint, NEW i \in Conditions
  PROVE  DesignedSoFar(Specs[i], i, Len(Factors))
<1>1. PICK s : Course(s, i)
  BY CourseExists
<1>2. Len(Factors) \in Nat /\ DOMAIN Factors = 1..Len(Factors)
  BY MatrixAssumption
<1> DEFINE S == {k \in Nat : k <= Len(Factors) => DesignedSoFar(s[k], i, k)}
<1>3. 0 \in S
  <2>1. s[0] = Base
    BY <1>1 DEF Course
  <2>2. DOMAIN Base \subseteq Seq(Keys)
    BY PathsAre DEF Paths
  <2>3. \A f \in 1..0 : FALSE
    OBVIOUS
  <2>4. KeepsRest(Base)
    BY DEF KeepsRest
  <2>5. QED
    BY <2>1, <2>2, <2>3, <2>4 DEF DesignedSoFar
<1>4. ASSUME NEW k \in Nat, k \in S PROVE k + 1 \in S
  <2>1. SUFFICES ASSUME k + 1 <= Len(Factors) PROVE DesignedSoFar(s[k + 1], i, k + 1)
    OBVIOUS
  <2>2. PICK m \in DOMAIN Factors : m = k + 1 /\ m - 1 = k
    BY <1>2, <2>1
  <2>3. DesignedSoFar(s[m - 1], i, m - 1)
    BY <1>2, <1>4, <2>1, <2>2
  <2>4. s[m] = SetPath(s[m - 1], Factors[m].path, LevelOf(i, m).tree)
    BY <1>1, <1>2 DEF Course
  <2>5. DesignedSoFar(SetPath(s[m - 1], Factors[m].path, LevelOf(i, m).tree), i, m)
    BY <2>3, AssignmentDesigns
  <2>6. QED
    BY <2>2, <2>4, <2>5
<1>5. Nat \subseteq S
  BY <1>3, <1>4, InductiveSet
<1>6. DesignedSoFar(s[Len(Factors)], i, Len(Factors))
  BY <1>2, <1>5
<1>7. QED
  BY <1>1, <1>6 DEF Course

\* Conditions with one specification have their assignments in common.
LEMMA SpecsDiffer ==
  ASSUME Disjoint, NEW i \in Conditions, NEW j \in Conditions, Specs[i] = Specs[j]
  PROVE  Assignments(i) = Assignments(j)
<1>1. PICK n \in Nat : n = Len(Factors) /\ DOMAIN Factors = 1..n
  BY MatrixAssumption
<1>2. ASSUME NEW f \in DOMAIN Factors PROVE LevelOf(i, f).json = LevelOf(j, f).json
  <2>1. PICK spec : spec = Specs[i] /\ spec = Specs[j]
    OBVIOUS
  <2>2. HasLevel(spec, i, f) /\ HasLevel(spec, j, f)
    BY <1>1, <2>1, SpecDesigned DEF DesignedSoFar
  <2>3. PICK path, a, b : path = Factors[f].path /\ a = LevelOf(i, f).tree /\ b = LevelOf(j, f).tree
    OBVIOUS
  <2>4. path \in Seq(Keys) /\ DOMAIN a \subseteq Seq(Keys) /\ DOMAIN b \subseteq Seq(Keys)
    BY <2>3, TreesAre
  <2>5. /\ {path \o r : r \in DOMAIN a} = {path \o r : r \in DOMAIN b}
        /\ \A r \in DOMAIN a : spec[path \o r] = a[r]
        /\ \A r \in DOMAIN b : spec[path \o r] = b[r]
    BY <2>2, <2>3 DEF HasLevel
  <2>6. \A r, t \in Seq(Keys) : path \o r = path \o t => r = t
    <3>1. TAKE r, t \in Seq(Keys)
    <3>2. SubSeq(path \o r, Len(path) + 1, Len(path \o r)) = r
      BY <2>4, PathAndRest
    <3>3. SubSeq(path \o t, Len(path) + 1, Len(path \o t)) = t
      BY <2>4, PathAndRest
    <3>4. QED
      BY <3>2, <3>3
  <2>7. ASSUME NEW x, NEW y, DOMAIN x \subseteq Seq(Keys), DOMAIN y \subseteq Seq(Keys),
               {path \o r : r \in DOMAIN x} = {path \o r : r \in DOMAIN y}
        PROVE  \A r \in DOMAIN x : r \in DOMAIN y
    <3>1. TAKE r \in DOMAIN x
    <3>2. PICK t \in DOMAIN y : path \o r = path \o t
      <4>1. PICK below : below = {path \o u : u \in DOMAIN y}
        OBVIOUS
      <4>2. below = {path \o u : u \in DOMAIN x}
        BY <2>7, <4>1
      <4>3. path \o r \in below
        BY ONLY <3>1, <4>2
      <4>4. QED
        BY ONLY <4>1, <4>3
    <3>3. QED
      BY <2>6, <2>7, <3>2
  <2>8. DOMAIN a = DOMAIN b
    BY <2>4, <2>5, <2>7
  <2>9. \A r \in DOMAIN a : a[r] = b[r]
    BY <2>5, <2>8
  <2>10. PICK p \in DOMAIN Factors[f].levels : LevelOf(i, f) = Factors[f].levels[p]
    BY LevelIs
  <2>11. PICK q \in DOMAIN Factors[f].levels : LevelOf(j, f) = Factors[f].levels[q]
    BY LevelIs
  <2>12. a = [r \in DOMAIN a |-> a[r]] /\ b = [r \in DOMAIN b |-> b[r]]
    BY <2>3, <2>10, <2>11, PathAssumption
  <2>13. a = b
    BY <2>8, <2>9, <2>12
  <2>14. Factors[f].levels[q].tree = Factors[f].levels[p].tree
    BY <2>3, <2>10, <2>11, <2>13
  <2>15. Factors[f].levels[q].json = Factors[f].levels[p].json
    BY <2>14, PathAssumption
  <2>16. QED
    BY <2>10, <2>11, <2>15
<1>3. QED
  BY <1>2 DEF Assignments

\* What the design guarantees, and how far the loop is.
DesignTyped == ~DuplicateIds /\ done \in 0..CombosFrom[1]

\* A design without colliding ids is as ConditionsAsDesigned says.
LEMMA DesignedOfType == DesignTyped => ConditionsAsDesigned
<1>1. SUFFICES ASSUME DesignTyped, Disjoint, NEW i \in 1..done
               PROVE  /\ \A f \in DOMAIN Factors : HasLevel(Specs[i], i, f)
                      /\ KeepsRest(Specs[i])
                      /\ \A j \in 1..(i - 1) : Specs[j] # Specs[i]
  BY DEF ConditionsAsDesigned, HasLevel, KeepsRest
<1>2. i \in Conditions /\ \A j \in 1..(i - 1) : j \in Conditions /\ j # i
  BY <1>1, CombosAre DEF DesignTyped, Conditions
<1>3. DOMAIN Factors = 1..Len(Factors)
  BY MatrixAssumption
<1>4. DesignedSoFar(Specs[i], i, Len(Factors))
  BY <1>1, <1>2, SpecDesigned
<1>5. \A j \in 1..(i - 1) : Specs[j] # Specs[i]
  BY <1>1, <1>2, SpecsDiffer DEF DesignTyped, DuplicateIds
<1>6. QED
  BY <1>3, <1>4, <1>5 DEF DesignedSoFar

\* Each condition the matrix command has run is the base with exactly the levels of its
\* own assignments: apply_factors() puts every level where it belongs and undoes none of
\* those before it, and, as build_design() refused equal levels, no two trees are equal.
THEOREM ConditionsAlwaysAsDesigned == MatrixSpec => []ConditionsAsDesigned
<1>1. MatrixInit => DesignTyped
  BY CombosAre DEF MatrixInit, DesignTyped
<1>2. DesignTyped /\ [MatrixNext]_matrixVars => DesignTyped'
  <2>1. SUFFICES ASSUME DesignTyped, [MatrixNext]_matrixVars PROVE DesignTyped'
    OBVIOUS
  <2>2. done' = done \/ (done + 1 \in Conditions /\ done' = done + 1)
    BY <2>1 DEF MatrixNext, matrixVars, Observe, FailCondition
  <2>3. done' \in 0..CombosFrom[1]
    BY <2>1, <2>2, CombosAre DEF DesignTyped, Conditions
  <2>4. QED
    BY <2>1, <2>3 DEF DesignTyped, DuplicateIds, Assignments, LevelOf, Combination, Conditions
<1>3. QED
  BY <1>1, <1>2, DesignedOfType, PTL DEF MatrixSpec

-------------------------------------------------------------------------------
(* 10. Views of a 2x2 experiment                                          *)

\* The combinations from a factor on are a multiple of those from a later one on.
LEMMA CombosDivide ==
  ASSUME Conditions # {}, NEW a \in 1..(Len(Factors) + 1), NEW b \in a..(Len(Factors) + 1)
  PROVE  \E k \in Nat \ {0} : CombosFrom[a] = k * CombosFrom[b]
<1>1. PICK n \in Nat : n = Len(Factors)
  BY CombosStep
<1>2. /\ \A f \in 1..(n + 1) : CombosFrom[f] \in Nat \ {0}
      /\ \A f \in 1..n : Len(Factors[f].levels) \in Nat \ {0}
      /\ \A f \in 1..(n + 1) :
           CombosFrom[f] = IF f > n THEN 1 ELSE Len(Factors[f].levels) * CombosFrom[f + 1]
  BY <1>1, CombosPositive, CombosStep
<1> DEFINE S == {m \in Nat : a + m <= n + 1 =>
                   \E k \in Nat \ {0} : CombosFrom[a] = k * CombosFrom[a + m]}
<1>3. 0 \in S
  <2>1. a + 0 = a /\ CombosFrom[a] \in Nat
    BY <1>1, <1>2
  <2>2. \A x \in Nat : x = 1 * x
    OBVIOUS
  <2>3. QED
    BY <2>1, <2>2
<1>4. ASSUME NEW m \in Nat, m \in S PROVE m + 1 \in S
  <2>1. SUFFICES ASSUME a + (m + 1) <= n + 1
                 PROVE  \E k \in Nat \ {0} : CombosFrom[a] = k * CombosFrom[a + (m + 1)]
    OBVIOUS
  <2>2. PICK f \in 1..n : f = a + m /\ f + 1 = a + (m + 1)
    BY <1>1, <2>1
  <2>3. f \in 1..(n + 1) /\ f + 1 \in 1..(n + 1) /\ ~(f > n) /\ f <= n + 1
    BY <2>2
  <2>4. PICK k \in Nat \ {0} : CombosFrom[a] = k * CombosFrom[f]
    BY <1>4, <2>2, <2>3
  <2>5. PICK l \in Nat \ {0}, c \in Nat \ {0} :
          l = Len(Factors[f].levels) /\ c = CombosFrom[f + 1] /\ CombosFrom[f] = l * c
    BY <1>2, <2>2, <2>3
  <2>6. k * (l * c) = (k * l) * c /\ k * l \in Nat \ {0}
    BY Z3
  <2>7. CombosFrom[a] = (k * l) * CombosFrom[f + 1]
    BY <2>4, <2>5, <2>6
  <2>8. QED
    BY <2>2, <2>6, <2>7
<1>5. Nat \subseteq S
  BY <1>3, <1>4, InductiveSet
<1>6. PICK m \in Nat : b = a + m /\ a + m <= n + 1
  BY <1>1
<1>7. m \in S
  BY <1>5
<1>8. QED
  BY <1>6, <1>7

\* A factor whose levels fall into two groups has at least two.
LEMMA BinaryLevels ==
  ASSUME Conditions # {}, NEW f \in BinaryFactors
  PROVE  Len(Factors[f].levels) >= 2
<1>1. f \in DOMAIN Factors /\ Cardinality({LevelOf(i, f).eq : i \in Conditions}) = 2
  BY DEF BinaryFactors
<1>2. Len(Factors[f].levels) \in Nat \ {0} /\ DOMAIN Factors[f].levels = 1..Len(Factors[f].levels)
  BY <1>1, CombosPositive, MatrixAssumption
<1>3. SUFFICES ASSUME Len(Factors[f].levels) = 1 PROVE FALSE
  <2>1. PICK l : l = Len(Factors[f].levels)
    OBVIOUS
  <2>2. l \in Nat \ {0}
    BY <1>2, <2>1
  <2>3. l = 1 \/ l >= 2
    BY <2>2
  <2>4. QED
    BY <2>1, <2>3
<1>4. PICK one : one = Factors[f].levels[1].eq
  OBVIOUS
<1>5. \A i \in Conditions : LevelOf(i, f).eq = one
  BY <1>1, <1>2, <1>3, <1>4, LevelIs
<1>6. {LevelOf(i, f).eq : i \in Conditions} = {one}
  BY <1>5
<1>7. Cardinality({one}) = 1
  BY FS_Singleton
<1>8. QED
  BY <1>1, <1>6, <1>7

\* Four is made of two factors of at least two in one way.
LEMMA FourIsTwoByTwo ==
  ASSUME NEW k \in Nat \ {0}, NEW lf \in Nat, lf >= 2, NEW y \in Nat \ {0},
         NEW j \in Nat \ {0}, NEW x \in Nat \ {0}, NEW lg \in Nat, lg >= 2, NEW c \in Nat \ {0},
         4 = k * (lf * y), y = j * x, x = lg * c
  PROVE  lf = 2 /\ lg = 2 /\ c = 1 /\ y = 2 /\ x = 2
<1>0. \A p, q \in Nat \ {0} : p * q \in Nat \ {0} /\ q <= p * q
  BY Z3
<1>1. \A p, q \in Nat \ {0} : p >= 2 => 2 * q <= p * q
  BY Z3
<1>2. 2 * c <= x
  BY <1>1
<1>3. x <= y
  BY <1>0
<1>4. 2 * y <= lf * y /\ lf * y \in Nat \ {0}
  BY <1>0, <1>1
<1>5. lf * y <= 4
  <2>1. PICK z \in Nat \ {0} : z = lf * y
    BY <1>4
  <2>2. z <= k * z
    BY <1>0
  <2>3. QED
    BY <2>1, <2>2
<1>6. c = 1 /\ y = 2 /\ x = 2
  BY <1>2, <1>3, <1>4, <1>5
<1>7. lg * 1 = 2 /\ lf * 2 <= 4
  BY <1>5, <1>6
<1>8. QED
  BY <1>6, <1>7

\* With four conditions, two binary factors have two levels each and no other factor
\* has more than one.
LEMMA TwoByTwo ==
  ASSUME Cardinality(Conditions) = 4, NEW f \in BinaryFactors, NEW g \in BinaryFactors, f < g
  PROVE  /\ Conditions = 1..4 /\ f \in DOMAIN Factors /\ g \in DOMAIN Factors
         /\ DOMAIN Factors[f].levels = 1..2 /\ DOMAIN Factors[g].levels = 1..2
         /\ \A i \in Conditions : /\ Digit(i, f) = (((i - 1) \div 2) % 2) + 1
                                  /\ Digit(i, g) = ((i - 1) % 2) + 1
<1>1. CombosFrom[1] = 4 /\ Conditions = 1..4
  BY ConditionsFinite DEF Conditions
<1>2. Conditions # {}
  BY <1>1
<1>3. PICK n \in Nat : n = Len(Factors) /\ DOMAIN Factors = 1..n
  BY MatrixAssumption
<1>4. f \in 1..n /\ g \in 1..n
  BY <1>3 DEF BinaryFactors
<1>5. /\ f \in 1..(n + 1) /\ g \in 1..(n + 1) /\ g \in (f + 1)..(n + 1) /\ f \in 1..(n + 1)
      /\ f + 1 \in 1..(n + 1) /\ g + 1 \in 1..(n + 1) /\ 1 \in 1..(n + 1)
      /\ ~(f > n) /\ ~(g > n)
  BY <1>4
<1>6. PICK lf \in Nat, lg \in Nat :
        lf = Len(Factors[f].levels) /\ lg = Len(Factors[g].levels) /\ lf >= 2 /\ lg >= 2
  BY <1>2, <1>3, <1>4, MatrixAssumption, BinaryLevels
<1>7. PICK y \in Nat \ {0}, x \in Nat \ {0}, c \in Nat \ {0} :
        y = CombosFrom[f + 1] /\ x = CombosFrom[g] /\ c = CombosFrom[g + 1]
  BY <1>2, <1>3, <1>5, CombosPositive
<1>8. CombosFrom[f] = lf * y /\ x = lg * c
  BY <1>3, <1>5, <1>6, <1>7, CombosStep
<1>9. PICK k \in Nat \ {0} : CombosFrom[1] = k * CombosFrom[f]
  BY <1>2, <1>3, <1>5, CombosDivide
<1>10. PICK j \in Nat \ {0} : y = j * x
  BY <1>2, <1>3, <1>5, <1>7, CombosDivide
<1>11. 4 = k * (lf * y)
  BY <1>1, <1>8, <1>9
<1>12. lf = 2 /\ lg = 2 /\ c = 1 /\ y = 2 /\ x = 2
  <2>1. /\ lf \in Nat /\ lf >= 2 /\ lg \in Nat /\ lg >= 2 /\ x = lg * c
        /\ k \in Nat \ {0} /\ j \in Nat \ {0} /\ c \in Nat \ {0}
        /\ y \in Nat \ {0} /\ x \in Nat \ {0}
    BY <1>6, <1>8
  <2>2. QED
    BY ONLY <2>1, <1>10, <1>11, FourIsTwoByTwo
<1>13. \A i \in Nat \ {0} : (i - 1) \div 1 = i - 1
  BY Z3
<1>14. ASSUME NEW i \in Conditions
       PROVE  Digit(i, f) = (((i - 1) \div 2) % 2) + 1 /\ Digit(i, g) = ((i - 1) % 2) + 1
  <2>1. (i - 1) \div 1 = i - 1
    BY <1>1, <1>13
  <2>2. QED
    BY <1>6, <1>7, <1>12, <2>1 DEF Digit
<1>15. QED
  BY <1>1, <1>3, <1>4, <1>6, <1>12, <1>14, MatrixAssumption

\* f and g are the two factors of a 2x2 design, and f is the slower one.
TwoFactors(f, g) ==
  Cardinality(Conditions) = 4 /\ f \in BinaryFactors /\ g \in BinaryFactors /\ f < g

\* The condition with the p-th level of the one and the q-th level of the other.
Corner(p, q) == 2 * (p - 1) + q

\* With four conditions every corner is one, at the two positions it is named for.
LEMMA CornerIs ==
  ASSUME NEW f, NEW g, TwoFactors(f, g), NEW p \in 1..2, NEW q \in 1..2
  PROVE  /\ Corner(p, q) \in Conditions
         /\ \A i \in Conditions : (Digit(i, f) = p /\ Digit(i, g) = q) <=> i = Corner(p, q)
<1>1. /\ Conditions = 1..4
      /\ \A i \in Conditions : /\ Digit(i, f) = (((i - 1) \div 2) % 2) + 1
                               /\ Digit(i, g) = ((i - 1) % 2) + 1
  BY TwoByTwo DEF TwoFactors
<1>2. \A i \in 1..4 :
        ((((i - 1) \div 2) % 2) + 1 = p /\ ((i - 1) % 2) + 1 = q) <=> i = 2 * (p - 1) + q
  <2>1. /\ ((1 - 1) \div 2) % 2 = 0 /\ ((2 - 1) \div 2) % 2 = 0
        /\ ((3 - 1) \div 2) % 2 = 1 /\ ((4 - 1) \div 2) % 2 = 1
    BY Z3
  <2>2. (1 - 1) % 2 = 0 /\ (2 - 1) % 2 = 1 /\ (3 - 1) % 2 = 0 /\ (4 - 1) % 2 = 1
    BY Z3
  <2>3. TAKE i \in 1..4
  <2>4. i = 1 \/ i = 2 \/ i = 3 \/ i = 4
    OBVIOUS
  <2>5. CASE i = 1
    BY <2>1, <2>2, <2>5
  <2>6. CASE i = 2
    BY <2>1, <2>2, <2>6
  <2>7. CASE i = 3
    BY <2>1, <2>2, <2>7
  <2>8. CASE i = 4
    BY <2>1, <2>2, <2>8
  <2>9. QED
    BY <2>4, <2>5, <2>6, <2>7, <2>8
<1>3. QED
  BY <1>1, <1>2 DEF Corner

\* The levels of a binary factor with two levels differ, and low first is one of their
\* two orders.
LEMMA LowFirstIs ==
  ASSUME NEW h \in BinaryFactors, DOMAIN Factors[h].levels = 1..2, 1 \in Conditions
  PROVE  /\ Factors[h].levels[1].eq # Factors[h].levels[2].eq
         /\ \E p \in 1..2 :
              LowFirst[h] = <<Factors[h].levels[p].eq, Factors[h].levels[3 - p].eq>>
<1> DEFINE eq(i) == LevelOf(i, h).eq
           eqs == {eq(i) : i \in Conditions}
           x == Factors[h].levels[1].eq
           y == Factors[h].levels[2].eq
           other == CHOOSE i \in Conditions : eq(i) # eq(1)
<1>1. h \in DOMAIN Factors /\ Cardinality(eqs) = 2
  BY DEF BinaryFactors
<1>2. \A i \in Conditions : eq(i) \in {x, y}
  BY <1>1, LevelIs
<1>3. \A e : eqs # {e}
  <2>1. PICK E : E = eqs
    OBVIOUS
  <2>2. Cardinality(E) = 2
    BY <1>1, <2>1
  <2>3. \A e : E # {e}
    BY ONLY <2>2, FS_Singleton
  <2>4. QED
    BY <2>1, <2>3
<1>4. LowFirst[h] = IF LevelOf(1, h).rank <= LevelOf(other, h).rank
                    THEN <<eq(1), eq(other)>> ELSE <<eq(other), eq(1)>>
  BY DEF LowFirst
<1> HIDE DEF eq, x, y
<1>5. \E i \in Conditions : eq(i) # eq(1)
  <2>1. SUFFICES ASSUME \A i \in Conditions : eq(i) = eq(1) PROVE FALSE
    OBVIOUS
  <2>2. eqs = {eq(1)}
    BY <2>1
  <2>3. QED
    BY <1>3, <2>2
<1>6. other \in Conditions /\ eq(other) # eq(1)
  BY <1>5
<1> HIDE DEF other
<1>7. (eq(1) = x /\ eq(other) = y) \/ (eq(1) = y /\ eq(other) = x)
  BY <1>2, <1>6
<1>8. LowFirst[h] = <<x, y>> \/ LowFirst[h] = <<y, x>>
  BY <1>4, <1>7
<1>9. x # y
  BY <1>6, <1>7
<1>10. 3 - 1 = 2 /\ 3 - 2 = 1
  OBVIOUS
<1>11. QED
  BY <1>8, <1>9, <1>10 DEF x, y

\* The level of a condition, by its position.
LEMMA LevelByDigit ==
  ASSUME NEW h \in DOMAIN Factors, DOMAIN Factors[h].levels = 1..2,
         Factors[h].levels[1].eq # Factors[h].levels[2].eq,
         NEW i \in Conditions, NEW p \in 1..2
  PROVE  LevelOf(i, h).eq = Factors[h].levels[p].eq <=> Digit(i, h) = p
<1>1. Digit(i, h) \in 1..2 /\ LevelOf(i, h).eq = Factors[h].levels[Digit(i, h)].eq
  BY LevelIs
<1>2. QED
  BY <1>1

\* Each cell is one condition, whichever factor comes first.
LEMMA CellIs ==
  ASSUME NEW f, NEW g, TwoFactors(f, g), NEW p \in 1..2, NEW q \in 1..2,
         NEW l, l = Factors[f].levels[p].eq, NEW m, m = Factors[g].levels[q].eq
  PROVE  /\ Cell(f, g, l, m) = observations[Corner(p, q)]
         /\ Cell(g, f, m, l) = observations[Corner(p, q)]
<1>1. /\ f \in BinaryFactors /\ g \in BinaryFactors
      /\ Conditions = 1..4 /\ f \in DOMAIN Factors /\ g \in DOMAIN Factors
      /\ DOMAIN Factors[f].levels = 1..2 /\ DOMAIN Factors[g].levels = 1..2
  BY TwoByTwo DEF TwoFactors
<1>2. 1 \in Conditions
  BY <1>1
<1>3. /\ Factors[f].levels[1].eq # Factors[f].levels[2].eq
      /\ Factors[g].levels[1].eq # Factors[g].levels[2].eq
  BY <1>1, <1>2, LowFirstIs
<1>4. PICK c \in Conditions :
        /\ c = Corner(p, q)
        /\ \A i \in Conditions : (Digit(i, f) = p /\ Digit(i, g) = q) <=> i = c
  BY CornerIs
<1>5. \A i \in Conditions : (LevelOf(i, f).eq = l /\ LevelOf(i, g).eq = m) <=> i = c
  <2>1. TAKE i \in Conditions
  <2>2. LevelOf(i, f).eq = l <=> Digit(i, f) = p
    BY <1>1, <1>3, LevelByDigit
  <2>3. LevelOf(i, g).eq = m <=> Digit(i, g) = q
    BY <1>1, <1>3, LevelByDigit
  <2>4. QED
    BY <1>4, <2>2, <2>3
<1>6. /\ {i \in Conditions : LevelOf(i, f).eq = l /\ LevelOf(i, g).eq = m} = {c}
      /\ {i \in Conditions : LevelOf(i, g).eq = m /\ LevelOf(i, f).eq = l} = {c}
  BY <1>5
<1>7. Min({c}) = c
  <2>1. {c} \in SUBSET Nat /\ {c} # {}
    BY <1>1
  <2>2. QED
    BY <2>1, MinNatural
<1>8. QED
  BY <1>4, <1>6, <1>7 DEF Cell

\* The conditions of a 2x2 experiment by the levels of the two factors, low first:
\* c[x][y] has the x-th level of f and the y-th of g.
Square(c, f, g) ==
  /\ c[1][1] \in Conditions /\ c[1][2] \in Conditions
  /\ c[2][1] \in Conditions /\ c[2][2] \in Conditions
  /\ Conditions = {c[1][1], c[1][2], c[2][1], c[2][2]}
  /\ c[1][1] # c[1][2] /\ c[2][1] # c[2][2]
  /\ \A x \in 1..2 :
       /\ {i \in Conditions : LevelOf(i, f).eq = LowFirst[f][x]} = {c[x][1], c[x][2]}
       /\ \A y \in 1..2 :
            /\ Cell(f, g, LowFirst[f][x], LowFirst[g][y]) = observations[c[x][y]]
            /\ Cell(g, f, LowFirst[g][y], LowFirst[f][x]) = observations[c[x][y]]

\* Every pair of factors of a 2x2 design has its square.
LEMMA SquareExists ==
  ASSUME NEW f, NEW g, TwoFactors(f, g)
  PROVE  \E c : Square(c, f, g)
<1>1. /\ f \in BinaryFactors /\ g \in BinaryFactors
      /\ Conditions = 1..4 /\ f \in DOMAIN Factors /\ g \in DOMAIN Factors
      /\ DOMAIN Factors[f].levels = 1..2 /\ DOMAIN Factors[g].levels = 1..2
  BY TwoByTwo DEF TwoFactors
<1>2. 1 \in Conditions
  BY <1>1
<1>3. /\ Factors[f].levels[1].eq # Factors[f].levels[2].eq
      /\ Factors[g].levels[1].eq # Factors[g].levels[2].eq
  BY <1>1, <1>2, LowFirstIs
<1>4. PICK p \in 1..2 : LowFirst[f] = <<Factors[f].levels[p].eq, Factors[f].levels[3 - p].eq>>
  BY <1>1, <1>2, LowFirstIs
<1>5. PICK q \in 1..2 : LowFirst[g] = <<Factors[g].levels[q].eq, Factors[g].levels[3 - q].eq>>
  BY <1>1, <1>2, LowFirstIs
<1> DEFINE P == <<p, 3 - p>>
           Q == <<q, 3 - q>>
           c == [x \in 1..2 |-> [y \in 1..2 |-> Corner(P[x], Q[y])]]
<1>6. /\ \A x \in 1..2 : P[x] \in 1..2 /\ Q[x] \in 1..2
      /\ P[1] # P[2] /\ Q[1] # Q[2]
  <2>1. 3 - p \in 1..2 /\ 3 - p # p /\ 3 - q \in 1..2 /\ 3 - q # q
    OBVIOUS
  <2>2. QED
    BY <2>1
<1>7. \A x \in 1..2 : /\ LowFirst[f][x] = Factors[f].levels[P[x]].eq
                      /\ LowFirst[g][x] = Factors[g].levels[Q[x]].eq
  BY <1>4, <1>5
<1>8. \A x, y \in 1..2 : c[x][y] = Corner(P[x], Q[y])
  OBVIOUS
<1> HIDE DEF c, P, Q
<1>9. \A x, y \in 1..2 : c[x][y] \in Conditions
  BY <1>6, <1>8, CornerIs
<1>10. \A x, y \in 1..2 : c[x][y] = 2 * (P[x] - 1) + Q[y]
  BY <1>8 DEF Corner
<1>11. c[1][1] # c[1][2] /\ c[2][1] # c[2][2]
  BY <1>6, <1>10
<1>12. Conditions = {c[1][1], c[1][2], c[2][1], c[2][2]}
  <2>1. (P[1] = 1 /\ P[2] = 2) \/ (P[1] = 2 /\ P[2] = 1)
    BY <1>6
  <2>2. (Q[1] = 1 /\ Q[2] = 2) \/ (Q[1] = 2 /\ Q[2] = 1)
    BY <1>6
  <2>3. \A i \in 1..4 : i = c[1][1] \/ i = c[1][2] \/ i = c[2][1] \/ i = c[2][2]
    <3>1. /\ c[1][1] = 2 * (P[1] - 1) + Q[1] /\ c[1][2] = 2 * (P[1] - 1) + Q[2]
          /\ c[2][1] = 2 * (P[2] - 1) + Q[1] /\ c[2][2] = 2 * (P[2] - 1) + Q[2]
      BY <1>10
    <3>2. QED
      BY <2>1, <2>2, <3>1
  <2>4. QED
    BY <1>1, <1>9, <2>3
<1>13. ASSUME NEW x \in 1..2
       PROVE  {i \in Conditions : LevelOf(i, f).eq = LowFirst[f][x]} = {c[x][1], c[x][2]}
  <2>1. \A i \in Conditions : LevelOf(i, f).eq = LowFirst[f][x] <=> Digit(i, f) = P[x]
    BY <1>1, <1>3, <1>6, <1>7, LevelByDigit
  <2>2. \A i \in Conditions : Digit(i, g) \in 1..2
    BY <1>1, LevelIs
  <2>3. \A i \in Conditions : Digit(i, g) = Q[1] \/ Digit(i, g) = Q[2]
    BY <1>6, <2>2
  <2>4. \A i \in Conditions, y \in 1..2 :
          (Digit(i, f) = P[x] /\ Digit(i, g) = Q[y]) <=> i = c[x][y]
    BY <1>6, <1>8, CornerIs
  <2>5. \A i \in Conditions : Digit(i, f) = P[x] <=> (i = c[x][1] \/ i = c[x][2])
    BY <2>3, <2>4
  <2>6. c[x][1] \in Conditions /\ c[x][2] \in Conditions
    BY <1>9
  <2>7. QED
    BY <2>1, <2>5, <2>6
<1>14. ASSUME NEW x \in 1..2, NEW y \in 1..2
       PROVE  /\ Cell(f, g, LowFirst[f][x], LowFirst[g][y]) = observations[c[x][y]]
              /\ Cell(g, f, LowFirst[g][y], LowFirst[f][x]) = observations[c[x][y]]
  BY <1>6, <1>7, <1>8, CellIs
<1>15. Square(c, f, g)
  BY <1>9, <1>11, <1>12, <1>13, <1>14 DEF Square
<1>16. QED
  BY <1>15

\* The mean of a cell is defined when a run recovered, and is then a number.
LEMMA CellMeanIs ==
  ASSUME ObservationsTyped, NEW i \in Conditions
  PROVE  /\ CellMean(observations[i]) # Undefined <=> Finite(observations[i]) # {}
         /\ CellMean(observations[i]) # Undefined => CellMean(observations[i]) \in Int
<1>1. PICK v : v = observations[i]
  OBVIOUS
<1>2. \/ DOMAIN v = {}
      \/ /\ DOMAIN v = 1..Repetitions
         /\ \A k \in 1..Repetitions : v[k] \in Values \union {Censored}
  BY <1>1 DEF ObservationsTyped
<1>3. PICK F : F = Finite(v)
  OBVIOUS
<1>4. F \in SUBSET (1..Repetitions) /\ \A k \in F : v[k] \in Int
  BY <1>2, <1>3, MatrixAssumption DEF Finite
<1>5. IsFiniteSet(F)
  <2>1. IsFiniteSet(1..Repetitions)
    BY MatrixAssumption, FS_Interval
  <2>2. QED
    BY <1>4, <2>1, FS_Subset
<1>6. CellMean(v) =
        IF F = {} THEN Undefined ELSE (Scale * SumFunctionOnSet(v, F)) \div Cardinality(F)
  BY <1>3 DEF CellMean, MeanOver
<1>7. ASSUME F # {} PROVE (Scale * SumFunctionOnSet(v, F)) \div Cardinality(F) \in Int
  <2>1. PICK s \in Int : s = SumFunctionOnSet(v, F)
    BY <1>4, <1>5, SumInt
  <2>2. PICK c \in Nat \ {0} : c = Cardinality(F)
    BY <1>5, <1>7, FS_CardinalityType, FS_EmptySet
  <2>3. \A x \in Int, y \in Int, d \in Nat \ {0} : (x * y) \div d \in Int
    BY Z3
  <2>4. Scale \in Int
    BY MatrixAssumption
  <2>5. QED
    BY <2>1, <2>2, <2>3, <2>4
<1>8. QED
  BY <1>1, <1>3, <1>6, <1>7, MatrixAssumption

\* The interaction of the two factors, by the means of the four conditions.
LEMMA InteractionIs ==
  ASSUME NEW f, NEW g, TwoFactors(f, g), NEW c, Square(c, f, g),
         NEW m, m = [x \in 1..2 |-> [y \in 1..2 |-> CellMean(observations[c[x][y]])]]
  PROVE  LET defined == Undefined \notin {m[1][1], m[1][2], m[2][1], m[2][2]} IN
         /\ Interaction(f, g) = IF defined THEN <<m[2][1] - m[1][1], m[2][2] - m[1][2]>> ELSE <<>>
         /\ Interaction(g, f) = IF defined THEN <<m[1][2] - m[1][1], m[2][2] - m[2][1]>> ELSE <<>>
<1>1. PICK a, b : a = LowFirst[f] /\ b = LowFirst[g]
  OBVIOUS
<1>2. \A x, y \in 1..2 : /\ CellMean(Cell(f, g, a[x], b[y])) = m[x][y]
                         /\ CellMean(Cell(g, f, b[y], a[x])) = m[x][y]
  BY <1>1 DEF Square
<1>3. /\ 1 \in 1..2 /\ 2 \in 1..2
  OBVIOUS
<1>4. /\ CellMean(Cell(f, g, a[1], b[1])) = m[1][1] /\ CellMean(Cell(g, f, b[1], a[1])) = m[1][1]
      /\ CellMean(Cell(f, g, a[1], b[2])) = m[1][2] /\ CellMean(Cell(g, f, b[2], a[1])) = m[1][2]
      /\ CellMean(Cell(f, g, a[2], b[1])) = m[2][1] /\ CellMean(Cell(g, f, b[1], a[2])) = m[2][1]
      /\ CellMean(Cell(f, g, a[2], b[2])) = m[2][2] /\ CellMean(Cell(g, f, b[2], a[2])) = m[2][2]
  BY <1>2, <1>3
<1>5. Interaction(f, g) = IF Undefined \in {m[1][1], m[2][1], m[1][2], m[2][2]} THEN <<>>
                          ELSE <<m[2][1] - m[1][1], m[2][2] - m[1][2]>>
  BY <1>1, <1>4 DEF Interaction, InteractionAt, TwoWay
<1>6. Interaction(g, f) = IF Undefined \in {m[1][1], m[1][2], m[2][1], m[2][2]} THEN <<>>
                          ELSE <<m[1][2] - m[1][1], m[2][2] - m[2][1]>>
  BY <1>1, <1>4 DEF Interaction, InteractionAt, TwoWay
<1>7. QED
  BY <1>5, <1>6

\* The interaction does not depend on which factor comes first.
LEMMA InteractionsSame ==
  ASSUME ObservationsTyped, NEW f, NEW g, TwoFactors(f, g)
  PROVE  InteractionsAgree(Interaction(f, g), Interaction(g, f))
<1>1. PICK c : Square(c, f, g)
  BY SquareExists
<1>2. PICK m : m = [x \in 1..2 |-> [y \in 1..2 |-> CellMean(observations[c[x][y]])]]
  OBVIOUS
<1>3. PICK ab, ba : ab = Interaction(f, g) /\ ba = Interaction(g, f)
  OBVIOUS
<1> DEFINE defined == Undefined \notin {m[1][1], m[1][2], m[2][1], m[2][2]}
<1>4. /\ ab = IF defined THEN <<m[2][1] - m[1][1], m[2][2] - m[1][2]>> ELSE <<>>
      /\ ba = IF defined THEN <<m[1][2] - m[1][1], m[2][2] - m[2][1]>> ELSE <<>>
  BY <1>1, <1>2, <1>3, InteractionIs
<1>5. \A x, y \in 1..2 : /\ c[x][y] \in Conditions
                         /\ m[x][y] = CellMean(observations[c[x][y]])
  BY <1>1, <1>2 DEF Square
<1>6. \A x, y \in 1..2 : /\ m[x][y] # Undefined <=> Finite(observations[c[x][y]]) # {}
                         /\ m[x][y] # Undefined => m[x][y] \in Int
  BY <1>5, CellMeanIs
<1>7. defined <=> \A i \in Conditions : Finite(observations[i]) # {}
  <2>1. Conditions = {c[1][1], c[1][2], c[2][1], c[2][2]}
    BY <1>1 DEF Square
  <2>2. 1 \in 1..2 /\ 2 \in 1..2
    OBVIOUS
  <2>3. QED
    BY <1>6, <2>1, <2>2
<1>8. defined => /\ m[1][1] \in Int /\ m[1][2] \in Int /\ m[2][1] \in Int /\ m[2][2] \in Int
  <2>1. 1 \in 1..2 /\ 2 \in 1..2
    OBVIOUS
  <2>2. QED
    BY <1>6, <2>1
<1> HIDE DEF defined
<1>9. (ab # <<>> <=> defined) /\ (ba # <<>> <=> defined)
  <2>1. \A x, y : <<x, y>> # <<>>
    OBVIOUS
  <2>2. QED
    BY <1>4, <2>1
<1>10. defined => ab[2] - ab[1] = ba[2] - ba[1]
  BY <1>4, <1>8
<1>11. InteractionsAgree(ab, ba)
  BY <1>7, <1>9, <1>10 DEF InteractionsAgree
<1>12. QED
  BY <1>3, <1>11

\* The repetitions are as many as their number.
LEMMA CountTo ==
  ASSUME NEW n \in Nat \ {0}
  PROVE  IsFiniteSet(1..n) /\ Cardinality(1..n) = n /\ 1..n # {}
<1>1. 1 \in Int /\ n \in Int
  OBVIOUS
<1>2. IsFiniteSet(1..n) /\ Cardinality(1..n) = IF 1 > n THEN 0 ELSE n - 1 + 1
  BY <1>1, FS_Interval
<1>3. 1 \in 1..n
  OBVIOUS
<1>4. QED
  BY <1>2, <1>3

\* A condition has a list of values, or the empty list.
ObservationLists ==
  \A i \in Conditions :
    observations[i] = <<>> \/ observations[i] \in [1..Repetitions -> Values \union {Censored}]

\* Of a condition whose runs all recovered, every repetition counts.
LEMMA WholeIs ==
  ASSUME ObservationLists, NEW i \in Conditions, Whole(i)
  PROVE  /\ DOMAIN observations[i] = 1..Repetitions /\ Len(observations[i]) = Repetitions
         /\ Finite(observations[i]) = 1..Repetitions
         /\ \A k \in 1..Repetitions : observations[i][k] \in Int /\ observations[i][k] # Censored
<1>1. PICK v : v = observations[i]
  OBVIOUS
<1>2. Len(v) = Repetitions /\ Censored \notin {v[k] : k \in DOMAIN v}
  BY <1>1 DEF Whole, ToSet
<1>3. v # <<>>
  <2>1. Len(<<>>) = 0
    OBVIOUS
  <2>2. Len(v) # 0
    BY <1>2, MatrixAssumption
  <2>3. QED
    BY <2>1, <2>2
<1>4. v \in [1..Repetitions -> Values \union {Censored}]
  BY <1>1, <1>3 DEF ObservationLists
<1>5. DOMAIN v = 1..Repetitions /\ \A k \in 1..Repetitions : v[k] \in Int /\ v[k] # Censored
  <2>1. DOMAIN v = 1..Repetitions /\ \A k \in 1..Repetitions : v[k] \in Values \union {Censored}
    BY <1>4
  <2>2. \A k \in DOMAIN v : v[k] # Censored
    BY <1>2
  <2>3. \A x \in Values \union {Censored} : x \in Int
    BY MatrixAssumption
  <2>4. QED
    BY <2>1, <2>2, <2>3
<1>6. QED
  BY <1>1, <1>2, <1>5 DEF Finite

\* What a mean of all repetitions of a condition is a multiple of.
LEMMA RepetitionsDivide ==
  ASSUME Conditions # {}
  PROVE  \E k \in Nat \ {0} : Scale = k * Repetitions
<1>1. PICK r \in Nat \ {0} : r = Repetitions
  BY MatrixAssumption
<1>2. PICK c \in Nat \ {0} : c = CombosFrom[1]
  BY CombosAre DEF Conditions
<1>3. 1 \in Conditions
  BY <1>2 DEF Conditions
<1>4. r \in 1..(r * c)
  <2>1. r * c \in Nat /\ r <= r * c
    BY Z3
  <2>2. QED
    BY <2>1
<1>5. Scale % (r * 1) = 0
  BY <1>1, <1>2, <1>3, <1>4, ScaleAssumption
<1>6. r * 1 = r
  BY Z3
<1>7. Scale % r = 0
  BY <1>5, <1>6
<1>8. QED
  BY <1>1, <1>7, Multiple

\* Its mean times the number of repetitions is the sum, exactly.
LEMMA WholeMean ==
  ASSUME ObservationLists, NEW i \in Conditions, Whole(i),
         NEW k \in Nat \ {0}, Scale = k * Repetitions
  PROVE  /\ SumFunctionOnSet(observations[i], 1..Repetitions) \in Int
         /\ CellMean(observations[i]) = k * SumFunctionOnSet(observations[i], 1..Repetitions)
<1>1. PICK r \in Nat \ {0} : r = Repetitions
  BY MatrixAssumption
<1>2. PICK v : v = observations[i]
  OBVIOUS
<1>3. Finite(v) = 1..r /\ \A x \in 1..r : v[x] \in Int
  BY <1>1, <1>2, WholeIs
<1>4. IsFiniteSet(1..r) /\ Cardinality(1..r) = r /\ 1..r # {}
  BY CountTo
<1>5. PICK s \in Int : s = SumFunctionOnSet(v, 1..r)
  BY <1>3, <1>4, SumInt
<1>6. CellMean(v) = (Scale * s) \div r
  BY <1>3, <1>4, <1>5 DEF CellMean, MeanOver
<1>7. CellMean(v) = k * s
  BY <1>1, <1>6, MeanExact
<1>8. QED
  BY <1>1, <1>2, <1>5, <1>7

\* When every run recovered, paired differences are those of the means.
LEMMA WholePairsAgree ==
  ASSUME ObservationLists, \A i \in Conditions : Whole(i)
  PROVE  PairsAgree
<1>1. SUFFICES ASSUME NEW i \in Conditions, NEW j \in Conditions
               PROVE  LET d == Paired(observations[i], observations[j]) IN
                      /\ d.censored = 0
                      /\ d.difference = CellMean(observations[i]) - CellMean(observations[j])
  BY DEF PairsAgree
<1>2. PICK r \in Nat \ {0} : r = Repetitions
  BY MatrixAssumption
<1>3. PICK a, b : a = observations[i] /\ b = observations[j]
  OBVIOUS
<1>4. /\ Len(a) = r /\ Len(b) = r
      /\ \A x \in 1..r : a[x] \in Int /\ a[x] # Censored /\ b[x] \in Int /\ b[x] # Censored
  BY <1>2, <1>3, WholeIs
<1>5. Min({Len(a), Len(b)}) = r
  <2>1. {r} \in SUBSET Nat /\ {r} # {} /\ {Len(a), Len(b)} = {r}
    BY <1>4
  <2>2. Min({r}) = r
    BY <2>1, MinNatural
  <2>3. QED
    BY <2>1, <2>2
<1>6. PICK d : d = Differences(a, b)
  OBVIOUS
<1>7. DOMAIN d = 1..r /\ \A x \in 1..r : d[x] = a[x] - b[x]
  BY <1>4, <1>5, <1>6 DEF Differences
<1>8. IsFiniteSet(1..r) /\ Cardinality(1..r) = r /\ 1..r # {}
  BY CountTo
<1>9. PICK k \in Nat \ {0} : Scale = k * r
  BY <1>2, RepetitionsDivide
<1>10. PICK s \in Int, t \in Int :
         s = SumFunctionOnSet(a, 1..r) /\ t = SumFunctionOnSet(b, 1..r)
  BY <1>4, <1>8, SumInt
<1>11. CellMean(a) = k * s /\ CellMean(b) = k * t
  <2>1. Scale = k * Repetitions /\ Whole(i) /\ Whole(j)
    BY <1>2, <1>9
  <2>2. /\ CellMean(observations[i]) = k * SumFunctionOnSet(observations[i], 1..Repetitions)
        /\ CellMean(observations[j]) = k * SumFunctionOnSet(observations[j], 1..Repetitions)
    BY <2>1, WholeMean
  <2>3. QED
    BY <1>2, <1>3, <1>10, <2>2
<1>12. SumFunctionOnSet(d, 1..r) = s - t
  <2>1. \A x \in 1..r : a[x] \in Int /\ b[x] \in Int /\ d[x] = a[x] - b[x]
    BY <1>4, <1>7
  <2>2. SumFunctionOnSet(d, 1..r) = SumFunctionOnSet(a, 1..r) - SumFunctionOnSet(b, 1..r)
    BY <1>8, <2>1, SumMinus
  <2>3. QED
    BY <1>10, <2>2
<1>13. MeanOver(d, DOMAIN d) = k * (s - t)
  <2>1. PICK u \in Int : u = s - t
    OBVIOUS
  <2>2. MeanOver(d, DOMAIN d) = (Scale * u) \div r
    BY <1>7, <1>8, <1>12, <2>1 DEF MeanOver
  <2>3. (Scale * u) \div r = k * u
    BY <1>9, MeanExact
  <2>4. QED
    BY <2>1, <2>2, <2>3
<1>14. k * (s - t) = k * s - k * t
  BY Z3
<1>15. /\ Paired(a, b).censored = r - Cardinality(DOMAIN d)
       /\ Paired(a, b).difference = MeanOver(d, DOMAIN d)
  BY <1>5, <1>6 DEF Paired
<1>16. /\ Paired(a, b).censored = 0
       /\ Paired(a, b).difference = CellMean(a) - CellMean(b)
  BY <1>7, <1>8, <1>11, <1>13, <1>14, <1>15
<1>17. QED
  BY <1>3, <1>16

\* Two conditions are two.
LEMMA FiniteTwo ==
  ASSUME NEW i, NEW j, i # j
  PROVE  IsFiniteSet({i, j}) /\ Cardinality({i, j}) = 2
<1>1. IsFiniteSet({i}) /\ Cardinality({i}) = 1
  BY FS_Singleton
<1>2. IsFiniteSet({i} \union {j}) /\ Cardinality({i} \union {j}) = 1 + 1
  BY <1>1, FS_AddElement
<1>3. {i, j} = {i} \union {j}
  OBVIOUS
<1>4. QED
  BY <1>2, <1>3

\* The repetitions of two conditions.
RunsOfTwo(i, j, n) == {i, j} \X (1..n)

\* The sum over the runs of two conditions is that of the one and that of the other.
LEMMA SumOfTwo ==
  ASSUME NEW i, NEW j, i # j, NEW a, NEW b, NEW v, NEW n \in Nat,
         \A k \in 1..n : /\ a[k] \in Int /\ b[k] \in Int
                         /\ v[<<i, k>>] = a[k] /\ v[<<j, k>>] = b[k]
  PROVE  SumFunctionOnSet(v, RunsOfTwo(i, j, n)) =
           SumFunctionOnSet(a, 1..n) + SumFunctionOnSet(b, 1..n)
<1> DEFINE T(m) == RunsOfTwo(i, j, m)
           S == {m \in Nat : m <= n => SumFunctionOnSet(v, T(m)) =
                                         SumFunctionOnSet(a, 1..m) + SumFunctionOnSet(b, 1..m)}
<1>1. \A m \in Nat : IsFiniteSet(1..m) /\ IsFiniteSet(T(m))
  <2>1. TAKE m \in Nat
  <2>2. IsFiniteSet(1..m)
    BY FS_Interval
  <2>3. IsFiniteSet({i, j})
    BY FiniteTwo
  <2>4. QED
    BY <2>2, <2>3, FS_Product DEF RunsOfTwo
<1>2. 0 \in S
  <2>1. 1..0 = {} /\ T(0) = {}
    BY DEF RunsOfTwo
  <2>2. \A f : SumFunctionOnSet(f, {}) = 0
    BY FS_EmptySet, SumChoice
  <2> HIDE DEF T
  <2>3. QED
    BY <2>1, <2>2
<1>3. ASSUME NEW m \in Nat, m \in S PROVE m + 1 \in S
  <2>1. SUFFICES ASSUME m + 1 <= n
                 PROVE  SumFunctionOnSet(v, T(m + 1)) =
                          SumFunctionOnSet(a, 1..(m + 1)) + SumFunctionOnSet(b, 1..(m + 1))
    OBVIOUS
  <2>2. PICK top \in 1..n : top = m + 1 /\ top \notin 1..m
    BY <2>1
  <2>3. 1..top = (1..m) \union {top} /\ \A k \in 1..top : k \in 1..n
    BY <2>1, <2>2
  <2>4. PICK p, q : p = <<i, top>> /\ q = <<j, top>>
    OBVIOUS
  <2>5. T(top) = (T(m) \union {p}) \union {q}
    BY <2>2, <2>3, <2>4 DEF RunsOfTwo
  <2>6. p \notin T(m) /\ q \notin T(m) \union {p}
    BY <2>2, <2>4 DEF RunsOfTwo
  <2>7. \A r \in (T(m) \union {p}) \union {q} : v[r] \in Int
    <3>1. \A r \in T(top) : \E k \in 1..n : r = <<i, k>> \/ r = <<j, k>>
      BY <2>3 DEF RunsOfTwo
    <3>2. \A k \in 1..n : v[<<i, k>>] \in Int /\ v[<<j, k>>] \in Int
      OBVIOUS
    <3> HIDE DEF T
    <3>3. QED
      BY <2>5, <3>1, <3>2
  <2>8. IsFiniteSet(T(m)) /\ IsFiniteSet(1..m)
    BY <1>1
  <2> HIDE DEF T
  <2>9. IsFiniteSet(T(m) \union {p})
    BY <2>8, FS_AddElement
  <2>10. SumFunctionOnSet(v, T(m) \union {p}) = v[p] + SumFunctionOnSet(v, T(m))
    BY <2>6, <2>7, <2>8, SumExtend
  <2>11. SumFunctionOnSet(v, (T(m) \union {p}) \union {q}) =
           v[q] + SumFunctionOnSet(v, T(m) \union {p})
    BY <2>6, <2>7, <2>9, SumExtend
  <2>12. \A k \in (1..m) \union {top} : a[k] \in Int /\ b[k] \in Int
    BY <2>3
  <2>13. /\ SumFunctionOnSet(a, (1..m) \union {top}) = a[top] + SumFunctionOnSet(a, 1..m)
         /\ SumFunctionOnSet(b, (1..m) \union {top}) = b[top] + SumFunctionOnSet(b, 1..m)
    BY <2>2, <2>8, <2>12, SumExtend
  <2>14. /\ SumFunctionOnSet(a, 1..m) \in Int /\ SumFunctionOnSet(b, 1..m) \in Int
    BY <2>8, <2>12, SumInt
  <2>15. SumFunctionOnSet(v, T(m)) = SumFunctionOnSet(a, 1..m) + SumFunctionOnSet(b, 1..m)
    BY <1>3, <2>1
  <2>16. v[p] = a[top] /\ v[q] = b[top] /\ a[top] \in Int /\ b[top] \in Int
    BY <2>4
  <2>17. SumFunctionOnSet(v, T(top)) =
           SumFunctionOnSet(a, 1..top) + SumFunctionOnSet(b, 1..top)
    <3>1. SumFunctionOnSet(v, T(top)) = v[q] + (v[p] + SumFunctionOnSet(v, T(m)))
      BY <2>5, <2>10, <2>11
    <3>2. PICK upto : upto = 1..top /\ upto = (1..m) \union {top}
      BY <2>3
    <3>3. /\ SumFunctionOnSet(a, upto) = a[top] + SumFunctionOnSet(a, 1..m)
          /\ SumFunctionOnSet(b, upto) = b[top] + SumFunctionOnSet(b, 1..m)
      BY ONLY <2>13, <3>2
    <3>4. SumFunctionOnSet(v, T(top)) = SumFunctionOnSet(a, upto) + SumFunctionOnSet(b, upto)
      BY ONLY <3>1, <3>3, <2>14, <2>15, <2>16
    <3>5. QED
      BY ONLY <3>2, <3>4
  <2>18. QED
    BY <2>2, <2>17
<1>4. Nat \subseteq S
  <2> HIDE DEF S
  <2>1. QED
    BY <1>2, <1>3, InductiveSet
<1>5. n \in S /\ n <= n
  BY <1>4
<1>6. SumFunctionOnSet(v, T(n)) = SumFunctionOnSet(a, 1..n) + SumFunctionOnSet(b, 1..n)
  BY <1>5
<1>7. QED
  BY <1>6

\* The grand mean is a number, if it is defined.
LEMMA GrandIs ==
  ASSUME ObservationsTyped, NEW f \in DOMAIN Factors, TextsDiffer(f), DefinedIn(f) # {}
  PROVE  GrandMean(MeansOf(f)) \in Int
<1> DEFINE D == DefinedIn(f)
           means == MeansOf(f)
<1>1. IsFiniteSet(D) /\ Cardinality(D) \in Conditions
  BY DefinedFew
<1>2. \A l \in D : l \in DOMAIN Grouped[f] /\ MeanIn(f, l) # Undefined
  BY DEF DefinedIn
<1>3. \A l \in D : means[l] = MeanIn(f, l)
  BY <1>2 DEF MeansOf
<1>4. D = {l \in DOMAIN means : means[l] # Undefined}
  BY DEF MeansOf, DefinedIn
<1>5. D # {}
  OBVIOUS
<1> HIDE DEF D, means
<1>6. GrandMean(means) = SumFunctionOnSet(means, D) \div Cardinality(D)
  BY <1>4, <1>5 DEF GrandMean
<1>7. \A l \in D : means[l] \in Int
  <2>1. TAKE l \in D
  <2>2. RecoveredIn(f, l) # {}
    BY <1>1, <1>2, MeanIs
  <2>3. MeanIn(f, l) \in Int
    BY <1>1, <1>2, <2>2, MeanIs
  <2>4. QED
    BY <1>3, <2>3
<1>8. SumFunctionOnSet(means, D) \in Int
  BY <1>1, <1>7, SumInt
<1>9. Cardinality(D) \in Nat \ {0}
  BY <1>1, ConditionsFinite, CombosAre DEF Conditions
<1>10. \A x \in Int, c \in Nat \ {0} : x \div c \in Int
  BY Z3
<1>11. QED
  BY <1>6, <1>8, <1>9, <1>10 DEF means

\* When every run recovered, the mean of a level of two conditions is the average of
\* theirs.
LEMMA GroupOfTwo ==
  ASSUME ObservationsTyped, ObservationLists, \A h \in Conditions : Whole(h),
         NEW f \in DOMAIN Factors, TextsDiffer(f), NEW l \in DOMAIN Grouped[f],
         NEW i \in Conditions, NEW j \in Conditions, i # j, Grouped[f][l] = {i, j}
  PROVE  /\ MeanIn(f, l) \in Int
         /\ 2 * MeanIn(f, l) = CellMean(observations[i]) + CellMean(observations[j])
<1>1. PICK r \in Nat \ {0} : r = Repetitions
  BY MatrixAssumption
<1>2. PICK v : v = GroupOf(f, l)
  OBVIOUS
<1>3. v = ValuesOf({i, j})
  BY <1>2 DEF GroupOf
<1>4. \A h \in Conditions :
        /\ DOMAIN observations[h] = 1..r
        /\ \A k \in 1..r : observations[h][k] \in Int /\ observations[h][k] # Censored
  BY <1>1, WholeIs
<1>5. Runs({i, j}) = {i, j} \X (1..r)
  BY <1>1, <1>4 DEF Runs
<1>6. DOMAIN v = {i, j} \X (1..r) /\ \A p \in {i, j} \X (1..r) : v[p] = observations[p[1]][p[2]]
  BY <1>3, <1>5 DEF ValuesOf
<1>7. \A k \in 1..r : /\ v[<<i, k>>] = observations[i][k]
                      /\ v[<<j, k>>] = observations[j][k]
  BY <1>6
<1>8. RecoveredIn(f, l) = {i, j} \X (1..r)
  <2>1. RecoveredIn(f, l) = {p \in DOMAIN v : v[p] # Censored}
    BY <1>2, GroupIs DEF Finite
  <2>2. \A p \in {i, j} \X (1..r) : v[p] # Censored
    BY <1>4, <1>6
  <2>3. QED
    BY <1>6, <2>1, <2>2
<1>9. Cardinality({i, j} \X (1..r)) = 2 * r
  <2>1. IsFiniteSet(1..r) /\ Cardinality(1..r) = r
    BY CountTo
  <2>2. PICK two, upto : two = {i, j} /\ upto = 1..r
    OBVIOUS
  <2>3. IsFiniteSet(two) /\ Cardinality(two) = 2
    BY <2>2, FiniteTwo
  <2>4. Cardinality(two \X upto) = Cardinality(two) * Cardinality(upto)
    BY <2>1, <2>2, <2>3, FS_Product
  <2>5. Cardinality(two \X upto) = 2 * r
    BY <2>1, <2>2, <2>3, <2>4
  <2>6. QED
    BY <2>2, <2>5
<1>10. 1 \in Conditions
  BY CombosAre DEF Conditions
<1>11. RecoveredIn(f, l) # {}
  <2>1. <<i, 1>> \in {i, j} \X (1..r)
    OBVIOUS
  <2>2. QED
    BY <1>8, <2>1
<1>12. PICK k \in Nat \ {0}, s \in Int :
         /\ Scale = (k * 1) * Cardinality(RecoveredIn(f, l))
         /\ s = SumFunctionOnSet(v, RecoveredIn(f, l))
         /\ MeanIn(f, l) = 1 * (k * s) /\ MeanIn(f, l) \in Int
  BY <1>2, <1>10, <1>11, MeanIs
<1>13. PICK a \in Int, b \in Int :
         /\ a = SumFunctionOnSet(observations[i], 1..r)
         /\ b = SumFunctionOnSet(observations[j], 1..r)
  <2>1. IsFiniteSet(1..r)
    BY CountTo
  <2>2. QED
    BY <1>4, <2>1, SumInt
<1>14. s = a + b
  <2>1. \A x \in 1..r : /\ observations[i][x] \in Int /\ observations[j][x] \in Int
                        /\ v[<<i, x>>] = observations[i][x] /\ v[<<j, x>>] = observations[j][x]
    BY <1>4, <1>7
  <2>2. PICK oi, oj : oi = observations[i] /\ oj = observations[j]
    OBVIOUS
  <2>3. r \in Nat /\ i # j /\ \A x \in 1..r : /\ oi[x] \in Int /\ oj[x] \in Int
                                            /\ v[<<i, x>>] = oi[x] /\ v[<<j, x>>] = oj[x]
    BY <2>1, <2>2
  <2>4. SumFunctionOnSet(v, RunsOfTwo(i, j, r)) =
          SumFunctionOnSet(oi, 1..r) + SumFunctionOnSet(oj, 1..r)
    BY ONLY <2>3, SumOfTwo
  <2>5. PICK z : z = RunsOfTwo(i, j, r) /\ z = RecoveredIn(f, l)
    BY <1>8 DEF RunsOfTwo
  <2>6. s = SumFunctionOnSet(v, z)
    BY ONLY <1>12, <2>5
  <2>7. SumFunctionOnSet(v, z) = SumFunctionOnSet(oi, 1..r) + SumFunctionOnSet(oj, 1..r)
    BY ONLY <2>4, <2>5
  <2>8. a = SumFunctionOnSet(oi, 1..r) /\ b = SumFunctionOnSet(oj, 1..r)
    BY ONLY <1>13, <2>2
  <2>9. QED
    BY ONLY <2>6, <2>7, <2>8
<1>15. Scale = (2 * k) * r /\ 2 * k \in Nat \ {0}
  <2>1. Scale = (k * 1) * (2 * r)
    BY <1>8, <1>9, <1>12
  <2>2. (k * 1) * (2 * r) = (2 * k) * r
    BY Z3
  <2>3. QED
    BY <2>1, <2>2
<1>16. CellMean(observations[i]) = (2 * k) * a /\ CellMean(observations[j]) = (2 * k) * b
  <2>1. PICK kk \in Nat \ {0} : kk = 2 * k
    BY <1>15
  <2>2. Scale = kk * Repetitions /\ Whole(i) /\ Whole(j)
    BY <1>1, <1>15, <2>1
  <2>3. /\ CellMean(observations[i]) = kk * SumFunctionOnSet(observations[i], 1..Repetitions)
        /\ CellMean(observations[j]) = kk * SumFunctionOnSet(observations[j], 1..Repetitions)
    BY <2>2, WholeMean
  <2>4. QED
    BY <1>1, <1>13, <2>1, <2>3
<1>17. 2 * (1 * (k * (a + b))) = (2 * k) * a + (2 * k) * b
  BY Z3
<1>18. QED
  BY <1>12, <1>14, <1>16, <1>17

\* The condition by which the group of a level is found.
Witness(f, l) == CHOOSE i \in Conditions : LevelOf(i, f).eq = l

\* When every run recovered, the effect of a level of f is, up to the grand mean, the
\* average of its two cells.
LEMMA LevelEffect ==
  ASSUME ObservationsTyped, ObservationLists, \A h \in Conditions : Whole(h),
         NEW f \in DOMAIN Factors, TextsDiffer(f), NEW l,
         NEW i \in Conditions, NEW j \in Conditions, i # j,
         {h \in Conditions : LevelOf(h, f).eq = l} = {i, j}
  PROVE  /\ GrandMean(MeansOf(f)) \in Int
         /\ MainEffect(f)[GroupNames[f][Witness(f, l)]].effect \in Int
         /\ 2 * (MainEffect(f)[GroupNames[f][Witness(f, l)]].effect + GrandMean(MeansOf(f))) =
              CellMean(observations[i]) + CellMean(observations[j])
<1>1. PICK w : w = Witness(f, l)
  OBVIOUS
<1>2. w \in Conditions /\ LevelOf(w, f).eq = l
  <2>1. \E h \in Conditions : LevelOf(h, f).eq = l
    OBVIOUS
  <2>2. QED
    BY <1>1, <2>1 DEF Witness
<1>3. PICK name : name = GroupNames[f][w]
  OBVIOUS
<1>4. name \in DOMAIN Grouped[f] /\ Grouped[f][name] = {h \in Conditions : GroupNames[f][h] = name}
  BY <1>2, <1>3, GroupsAre
<1>5. \A h \in Conditions : GroupNames[f][h] = name <=> LevelOf(h, f).eq = l
  BY <1>2, <1>3, GroupsAre
<1>6. Grouped[f][name] = {i, j}
  BY <1>4, <1>5
<1>7. PICK mean \in Int :
        /\ mean = MeanIn(f, name)
        /\ 2 * mean = CellMean(observations[i]) + CellMean(observations[j])
  BY <1>4, <1>6, GroupOfTwo
<1>8. mean # Undefined
  BY MatrixAssumption
<1>9. DefinedIn(f) # {}
  BY <1>4, <1>7, <1>8 DEF DefinedIn
<1>10. PICK grand \in Int : grand = GrandMean(MeansOf(f))
  BY <1>9, GrandIs
<1>11. MainEffect(f)[name].effect = mean - grand
  <2>1. \A k \in DOMAIN Grouped[f] :
          MeanIn(f, k) # Undefined => MainEffect(f)[k].effect = MeanIn(f, k) - GrandMean(MeansOf(f))
    BY MainEffectIs
  <2>2. QED
    BY <1>4, <1>7, <1>8, <1>10, <2>1
<1>12. PICK effect \in Int : effect = MainEffect(f)[name].effect /\ effect = mean - grand
  BY <1>11
<1>13. 2 * (effect + grand) = 2 * mean
  BY <1>12
<1>14. QED
  BY <1>1, <1>3, <1>7, <1>10, <1>12, <1>13

\* The two effects of a factor average to the difference of its main effects.
LEMMA EffectsAverage ==
  ASSUME ObservationsTyped, ObservationLists, \A h \in Conditions : Whole(h),
         NEW f, NEW g, TwoFactors(f, g), TextsDiffer(f)
  PROVE  Interaction(f, g)[1] + Interaction(f, g)[2] = 2 * Difference(f, MainEffect(f))
<1>1. PICK c : Square(c, f, g)
  BY SquareExists
<1>2. PICK m : m = [x \in 1..2 |-> [y \in 1..2 |-> CellMean(observations[c[x][y]])]]
  OBVIOUS
<1>3. f \in DOMAIN Factors /\ 1 \in 1..2 /\ 2 \in 1..2
  BY TwoByTwo DEF TwoFactors
<1>4. \A x, y \in 1..2 : m[x][y] = CellMean(observations[c[x][y]]) /\ c[x][y] \in Conditions
  BY <1>1, <1>2 DEF Square
<1>5. \A h \in Conditions :
        CellMean(observations[h]) # Undefined /\ CellMean(observations[h]) \in Int
  <2>1. TAKE h \in Conditions
  <2>2. Finite(observations[h]) = 1..Repetitions
    BY WholeIs
  <2>3. 1..Repetitions # {}
    BY MatrixAssumption, CountTo
  <2>4. QED
    BY <2>2, <2>3, CellMeanIs
<1>6. \A x, y \in 1..2 : m[x][y] # Undefined /\ m[x][y] \in Int
  BY <1>4, <1>5
<1>7. PICK m11 \in Int, m12 \in Int, m21 \in Int, m22 \in Int :
        /\ m11 = m[1][1] /\ m12 = m[1][2] /\ m21 = m[2][1] /\ m22 = m[2][2]
        /\ Undefined \notin {m11, m12, m21, m22}
  BY <1>3, <1>6
<1>8. Interaction(f, g) = <<m21 - m11, m22 - m12>>
  BY <1>1, <1>2, <1>7, InteractionIs
<1>9. PICK low : low = LowFirst[f]
  OBVIOUS
<1> DEFINE Of(x) == MainEffect(f)[GroupNames[f][Witness(f, low[x])]].effect
           grand == GrandMean(MeansOf(f))
<1>10. Difference(f, MainEffect(f)) = Of(2) - Of(1)
  BY <1>9 DEF Difference, Witness
<1>11. ASSUME NEW x \in 1..2
       PROVE  grand \in Int /\ Of(x) \in Int /\ 2 * (Of(x) + grand) = m[x][1] + m[x][2]
  <2>1. /\ c[x][1] \in Conditions /\ c[x][2] \in Conditions /\ c[x][1] # c[x][2]
        /\ {i \in Conditions : LevelOf(i, f).eq = low[x]} = {c[x][1], c[x][2]}
    BY <1>1, <1>9 DEF Square
  <2>2. PICK i \in Conditions, j \in Conditions :
          /\ i = c[x][1] /\ j = c[x][2] /\ i # j
          /\ {h \in Conditions : LevelOf(h, f).eq = low[x]} = {i, j}
    BY <2>1
  <2>3. /\ grand \in Int /\ Of(x) \in Int
        /\ 2 * (Of(x) + grand) = CellMean(observations[i]) + CellMean(observations[j])
    BY <1>3, <2>2, LevelEffect
  <2> HIDE DEF Of, grand
  <2>4. QED
    BY <1>3, <1>4, <2>2, <2>3
<1> HIDE DEF Of, grand
<1>12. PICK a \in Int, b \in Int, k \in Int :
         a = Of(1) /\ b = Of(2) /\ 2 * (a + k) = m11 + m12 /\ 2 * (b + k) = m21 + m22
  BY <1>3, <1>7, <1>11
<1>13. (m21 - m11) + (m22 - m12) = 2 * (b - a)
  BY <1>12
<1>14. QED
  BY <1>8, <1>10, <1>12, <1>13

\* Conditions are observed once, and with all their repetitions.
LEMMA ListsType == MatrixSpec => []ObservationLists
<1>1. MatrixInit => ObservationLists
  BY DEF MatrixInit, ObservationLists
<1>2. ObservationsTyped /\ ObservationLists /\ [MatrixNext]_matrixVars => ObservationLists'
  <2>1. SUFFICES ASSUME ObservationsTyped, ObservationLists, [MatrixNext]_matrixVars,
                        NEW i \in Conditions
                 PROVE  \/ observations'[i] = <<>>
                        \/ observations'[i] \in [1..Repetitions -> Values \union {Censored}]
    BY DEF ObservationLists, Conditions
  <2>2. CASE UNCHANGED observations
    BY <2>1, <2>2 DEF ObservationLists
  <2>3. ASSUME NEW values \in [1..Repetitions -> Values \union {Censored}], Observe(values)
        PROVE  \/ observations'[i] = <<>>
               \/ observations'[i] \in [1..Repetitions -> Values \union {Censored}]
    <3>1. observations' = [observations EXCEPT ![done + 1] = values]
      BY <2>3 DEF Observe
    <3>2. observations'[i] = IF i = done + 1 THEN values ELSE observations[i]
      BY <2>1, <3>1 DEF ObservationsTyped
    <3>3. QED
      BY <2>1, <3>2 DEF ObservationLists
  <2>4. QED
    BY <2>1, <2>2, <2>3 DEF MatrixNext, FailCondition, matrixVars
<1>3. QED
  BY <1>1, <1>2, ObservationsType, PTL DEF MatrixSpec

\* The views agree whatever the observations are.
LEMMA ViewsOfType == ObservationsTyped /\ ObservationLists => ViewsAgree
<1>1. SUFFICES ASSUME ObservationsTyped, ObservationLists, Cardinality(Conditions) = 4
               PROVE  /\ \A p \in BinaryPairs :
                           InteractionsAgree(Interaction(p[1], p[2]), Interaction(p[2], p[1]))
                      /\ (\A i \in Conditions : Whole(i)) =>
                           /\ \A p \in BinaryPairs : TextsDiffer(p[1]) =>
                                Interaction(p[1], p[2])[1] + Interaction(p[1], p[2])[2] =
                                  2 * Difference(p[1], MainEffect(p[1]))
                           /\ PairsAgree
  BY DEF ViewsAgree
<1>2. \A p \in BinaryPairs : TwoFactors(p[1], p[2])
  BY <1>1 DEF BinaryPairs, TwoFactors
<1>3. \A p \in BinaryPairs : InteractionsAgree(Interaction(p[1], p[2]), Interaction(p[2], p[1]))
  BY <1>1, <1>2, InteractionsSame
<1>4. ASSUME \A i \in Conditions : Whole(i)
      PROVE  /\ \A p \in BinaryPairs : TextsDiffer(p[1]) =>
                  Interaction(p[1], p[2])[1] + Interaction(p[1], p[2])[2] =
                    2 * Difference(p[1], MainEffect(p[1]))
             /\ PairsAgree
  BY <1>1, <1>2, <1>4, EffectsAverage, WholePairsAgree
<1>5. QED
  BY <1>3, <1>4

\* In every 2x2 experiment of the matrix command, interaction_effect(), main_effect() and
\* paired_difference_summary() agree: the interaction is defined exactly if each cell has
\* a run that recovered, is the same either way round, and averages to the main effects.
THEOREM ViewsAlwaysAgree == MatrixSpec => []ViewsAgree
BY ObservationsType, ListsType, ViewsOfType, PTL
===============================================================================

-------------------------- MODULE RecoveryDetection --------------------------
(***************************************************************************)
(* detect_recovery() of analysis/recovery.py, applied as the runner does   *)
(* to the buckets of one timeline: throughput and p95 latency share their  *)
(* times, one time unit apart.  The state is a run that grows bucket by    *)
(* bucket, and the report is what the analysis makes of it so far.         *)
(*                                                                         *)
(* Ratios are fractions of integers and means are kept as sum and count,   *)
(* so that every comparison is exact; the code compares floats.            *)
(***************************************************************************)
EXTENDS Integers, Sequences, FiniteSets, FiniteSetsExt, SequencesExt

CONSTANTS BaselineWindow, StabilityWindow,  \* in buckets
          AvailNum, AvailDen,               \* availability_threshold
          GateNum, GateDen,                 \* (1 + latency_tolerance) * latency_ratio
          Firsts,                           \* times of the first bucket (after a warm-up)
          Rates, Latencies,                 \* rps and p95 a bucket with requests can have
          MaxBuckets                        \* bound: length of a run

ASSUME RecoveryAssumption ==
  /\ BaselineWindow \in Nat /\ StabilityWindow \in Nat
  /\ AvailNum \in Nat \ {0} /\ AvailDen \in Nat /\ AvailNum <= AvailDen
  /\ GateDen \in Nat \ {0} /\ GateNum \in Nat /\ GateNum > GateDen
  /\ Firsts \subseteq Nat /\ Rates \subseteq Nat /\ Latencies \subseteq Nat
  /\ MaxBuckets \in Nat

VARIABLES first,   \* the time of the first bucket
          series   \* the buckets: rps and p95

recoveryVars == <<first, series>>

\* Times are natural numbers and durations too.
None == -1
Infinity == -2

RecoveryInit == first \in Firsts /\ series = <<>>

\* A bucket without requests has a p95 of zero.
Buckets == [rps : Rates \ {0}, p95 : Latencies] \union [rps : {0}, p95 : {0}]

NextBucket(b) ==
  /\ Len(series) < MaxBuckets
  /\ series' = Append(series, b)
  /\ UNCHANGED first

-------------------------------------------------------------------------------
Time(i) == first + i - 1

\* Plausible slip: the baseline is everything there is.
MutBaselineSize(s) == Len(s)

\* The buckets of the baseline window, or the first three when there are none.
BaselineSize(s) ==
  LET inside == Cardinality({i \in 1..Len(s) : Time(i) <= BaselineWindow}) IN
  IF inside > 0 THEN inside ELSE IF Len(s) < 3 THEN Len(s) ELSE 3

SumOf(values) == FoldLeft(LAMBDA a, b : a + b, 0, values)

\* The means over the baseline, as sums over n buckets.
Baseline(s) ==
  LET n == BaselineSize(s) IN
  [n   |-> n,
   rps |-> SumOf([i \in 1..n |-> s[i].rps]),
   p95 |-> SumOf([i \in 1..n |-> s[i].p95])]

\* r >= ratio * baseline
Available(base, r) == r * base.n * AvailDen >= AvailNum * base.rps

\* p95 <= latency_gate_value(...)
InGate(base, p) == p * base.n * GateDen <= GateNum * base.p95

LatencyActive(base) == base.p95 > 0

\* The first bucket below the threshold, 0 if there is none (or the report is empty).
DegradedBucket(s, base) ==
  IF Len(s) < 3 \/ base.rps = 0 THEN 0
  ELSE SelectInSeq(s, LAMBDA b : ~Available(base, b.rps))

Window(s, i) == {j \in i..Len(s) : Time(j) <= Time(i) + StabilityWindow}

\* Plausible slip: the window ends one bucket early.
MutThroughputSustained(s, base, i) ==
  \A j \in Window(s, i) : Time(j) < Time(i) + StabilityWindow => Available(base, s[j].rps)

ThroughputSustained(s, base, i) == \A j \in Window(s, i) : Available(base, s[j].rps)

\* _latency_recovery_sustained(): the buckets are taken from the degradation on.
LatencySustained(s, base, after, i) ==
  \A j \in after..Len(s) : Time(j) <= Time(i) + StabilityWindow => InGate(base, s[j].p95)

\* _first_sustained_recovery(), 0 for None.
RecoveredBucket(s, base, after) ==
  LET recovered == {i \in after..Len(s) :
                      /\ ThroughputSustained(s, base, i)
                      /\ LatencyActive(base) => LatencySustained(s, base, after, i)}
  IN IF recovered = {} THEN 0 ELSE Min(recovered)

Report(s) ==
  LET base == Baseline(s)
      d == DegradedBucket(s, base)
      r == RecoveredBucket(s, base, d)
  IN IF d = 0
     THEN [degraded_at |-> None, recovered_at |-> None, time_to_recovery |-> 0,
           degraded_duration |-> 0, latency_degraded |-> FALSE, latency_recovered |-> FALSE]
     ELSE [degraded_at |-> Time(d),
           recovered_at |-> IF r = 0 THEN None ELSE Time(r),
           time_to_recovery |-> IF r = 0 THEN Infinity ELSE r - d,
           degraded_duration |-> (IF r = 0 THEN Len(s) ELSE r) - d,
           latency_degraded |-> LatencyActive(base)
                                /\ \E j \in d..Len(s) : ~InGate(base, s[j].p95),
           latency_recovered |-> r # 0 /\ LatencyActive(base)]

RecoveryNext == \E b \in Buckets : NextBucket(b)

RecoverySpec == RecoveryInit /\ [][RecoveryNext]_recoveryVars

-------------------------------------------------------------------------------
\* The time of the last bucket, and whether the baseline is complete.
Now(s) == Time(Len(s))
BaselineClosed(s) ==
  /\ Len(s) >= 3
  /\ Now(s) >= BaselineWindow

\* Both gates hold in a bucket; and from bucket i on, as far as the series reaches into
\* the stability window.
InBothGates(base, b) ==
  Available(base, b.rps) /\ (LatencyActive(base) => InGate(base, b.p95))

GatesHold(s, base, i) == \A j \in Window(s, i) : InBothGates(base, s[j])

\* The analysis reports a recovery from its first bucket on, when nothing is known yet of
\* the rest of the stability window.  Such a report is provisional, and this is all that
\* may happen to it: it stands while the buckets of its window keep both gates, is
\* withdrawn by the first that does not, and no other bucket takes its place in the
\* same step; where there is no recovery the only one that can be found is the bucket
\* that has just arrived, so that none is ever dated back.
EarlyRecoveryProvisional ==
  [][LET base == Baseline(series')  old == Report(series)  new == Report(series') IN
     BaselineClosed(series) /\ old.degraded_at # None =>
       /\ old.recovered_at = None => new.recovered_at \in {None, Now(series')}
       /\ old.recovered_at # None /\ Now(series') <= old.recovered_at + StabilityWindow =>
            new.recovered_at =
              IF InBothGates(base, Last(series')) THEN old.recovered_at ELSE None]_recoveryVars

\* A longer run does not rewrite what was settled: once the baseline is complete the
\* degradation stays where it was found, and a recovery that was observed for the
\* whole stability window is never withdrawn or moved.
VerdictsStand ==
  [][LET old == Report(series)  new == Report(series') IN
     BaselineClosed(series) /\ old.degraded_at # None =>
       /\ new.degraded_at = old.degraded_at
       /\ old.recovered_at # None /\ old.recovered_at + StabilityWindow <= Now(series) =>
            new.recovered_at = old.recovered_at]_recoveryVars

\* docs/statistics.md:114 says "All evaluated gates must hold for the continuous
\* stability window W", and the head of analysis/recovery.py that recovery requires it: a
\* reported recovery has its whole window inside the run, and both gates hold in it.
\* (_first_sustained_recovery looks at the buckets there are: the last bucket of a run is
\* a recovery if it is a good one.)
RecoveryHasWindow ==
  LET r == Report(series) IN
  r.recovered_at # None =>
    /\ r.recovered_at + StabilityWindow <= Now(series)
    /\ GatesHold(series, Baseline(series), r.recovered_at - first + 1)

\* The same sentence read the other way: a run in which both gates hold for a whole
\* window after the degradation has recovered.
SustainedIsRecovered ==
  LET base == Baseline(series)  d == DegradedBucket(series, base) IN
  d # 0 /\ (\E i \in d..Len(series) : Time(i) + StabilityWindow <= Now(series)
                                      /\ GatesHold(series, base, i)) =>
    Report(series).recovered_at # None
===============================================================================

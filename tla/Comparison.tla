------------------------------ MODULE Comparison ------------------------------
(***************************************************************************)
(* The compare command: experiments with their repetitions are read in the *)
(* order they are named, and analysis/comparison.py makes a table of their *)
(* recovery times, the effects against the first one, and the paired       *)
(* differences of two of them.  The metric is the recovery time, the one   *)
(* that can be inf; every other metric is the case without inf.            *)
(*                                                                         *)
(* An effect size is known by its sign, which is what it says about the    *)
(* direction of a difference; means are sums over counts.                  *)
(***************************************************************************)
EXTENDS MatrixAnalysis

CONSTANTS Titles,          \* names an experiment can have
          MaxExperiments,  \* bound: experiments compared
          MaxRuns          \* bound: repetitions of an experiment

ASSUME ComparisonAssumption ==
  /\ MaxExperiments \in Nat /\ MaxRuns \in Nat
  /\ \A n \in 1..MaxRuns : Scale % n = 0

VARIABLE experiments  \* the entries read so far: name and metrics_per_run

ComparisonInit == experiments = <<>>

\* experiment.json of the next id on the command line is read.
ReadExperiment(name, runs) ==
  /\ Len(experiments) < MaxExperiments
  /\ experiments' = Append(experiments, [name |-> name, runs |-> runs])

Recoveries == BoundedSeq(Values \union {Censored}, MaxRuns)

ComparisonNext == \E name \in Titles, runs \in Recoveries : ReadExperiment(name, runs)

ComparisonSpec == ComparisonInit /\ [][ComparisonNext]_experiments

-------------------------------------------------------------------------------
HasCensored(values) == Censored \in ToSet(values)

\* aggregate_metric(): all runs are counted, the recovered ones averaged.
Aggregate(runs) ==
  [n |-> Len(runs), recovered |-> Cardinality(Finite(runs)), mean |-> CellMean(runs)]

\* rows[name] = row: of two experiments with one name the later one stays, in the
\* place of the first.
NamedFirst(i) == \A j \in 1..(i - 1) : experiments[j].name # experiments[i].name
LastNamed(name) == Max({j \in DOMAIN experiments : experiments[j].name = name})
Table ==
  [row \in 1..Cardinality({e.name : e \in ToSet(experiments)}) |->
     LET i == CHOOSE k \in DOMAIN experiments :
                NamedFirst(k) /\ Cardinality({j \in 1..k : NamedFirst(j)}) = row
         name == experiments[i].name
     IN [name |-> name, cell |-> Aggregate(experiments[LastNamed(name)].runs)]]

Constant(values) == \A j, k \in DOMAIN values : values[j] = values[k]

SignOf(x) == IF x > 0 THEN 1 ELSE IF x < 0 THEN -1 ELSE 0

\* cohens_d(): 0 when neither group varies, whatever their means.
CohensD(a, b) ==
  IF Constant(a) /\ Constant(b) THEN 0 ELSE SignOf(SumFunction(a) - SumFunction(b))

\* cohens_d_paired(): 0 when the differences do not vary, whatever they are.
CohensDPaired(differences) ==
  IF Cardinality(DOMAIN differences) < 2 \/ Constant(differences) THEN 0
  ELSE SignOf(SumFunction(differences))

\* Plausible slip: the groups are not cut to the same length.
MutEffect(a, b) ==
  LET n == Min({Len(a), Len(b)}) IN
  IF HasCensored(a) \/ HasCensored(b)
  THEN [n |-> n, kind |-> "rates", a |-> Cardinality(Finite(a)), b |-> Cardinality(Finite(b)),
        d |-> 0]
  ELSE [n |-> n, kind |-> IF n >= 2 THEN "d" ELSE "none", a |-> n, b |-> n,
        d |-> IF n >= 2 THEN CohensD(a, b) ELSE 0]

\* The effect of one experiment against the reference, over the first n runs of both:
\* recovery rates when one of them did not recover, else Cohen's d.
Effect(a, b) ==
  LET n == Min({Len(a), Len(b)})
      x == SubSeq(a, 1, n)  y == SubSeq(b, 1, n)
  IN IF HasCensored(x) \/ HasCensored(y)
     THEN [n |-> n, kind |-> "rates", a |-> Cardinality(Finite(x)), b |-> Cardinality(Finite(y)),
           d |-> 0]
     ELSE [n |-> n, kind |-> IF n >= 2 THEN "d" ELSE "none", a |-> n, b |-> n,
           d |-> IF n >= 2 THEN CohensD(x, y) ELSE 0]

Effects ==
  [k \in 1..(Len(experiments) - 1) |-> Effect(experiments[1].runs, experiments[k + 1].runs)]

\* _pair_metric(): the pairs of which both runs recovered.
PairMetric(a, b) == [summary |-> Paired(a, b), d |-> CohensDPaired(Differences(a, b))]

\* build_paired_comparison(): pairs by position, with a warning for unequal lengths.
PairedRuns(a, b) ==
  [matched |-> Min({Len(a), Len(b)}), unbalanced |-> Len(a) # Len(b),
   metric |-> PairMetric(a, b)]

-------------------------------------------------------------------------------
\* The independent and the paired view of two experiments speak of the same runs.
\* They match the same number of them; recovery rates appear exactly when a pair was
\* excluded, and bound the pairs that are left; when none was, both effect sizes point
\* the way of the mean difference, or are zero; and each view is turned around when
\* the experiments change places.  With one length of all experiments and one name for
\* each, the rates are those of the table.
EffectsAgree ==
  \A k \in DOMAIN Effects :
    LET a == experiments[1].runs  b == experiments[k + 1].runs
        effect == Effects[k]  pairs == PairedRuns(a, b)  paired == pairs.metric
        left   == paired.summary.n - paired.summary.censored
        back   == Effect(b, a)  pairedBack == PairMetric(b, a)
    IN /\ effect.n = pairs.matched /\ effect.n = paired.summary.n
       /\ ~pairs.unbalanced => effect.n = Len(a) /\ effect.n = Len(b)
       /\ effect.kind = "rates" <=> paired.summary.censored > 0
       /\ left <= Min({effect.a, effect.b}) /\ left >= effect.a + effect.b - effect.n
       /\ left > 0 <=> paired.summary.difference # Undefined
       /\ effect.kind = "d" =>
            {effect.d, paired.d} \subseteq {0, SignOf(paired.summary.difference)}
       /\ back.kind = effect.kind /\ back.d = -effect.d /\ pairedBack.d = -paired.d
       /\ back.a = effect.b /\ back.b = effect.a
       /\ (\A e \in ToSet(experiments) : Len(e.runs) = Len(a))
            /\ Len(Table) = Len(experiments) =>
            /\ effect.a = Table[1].cell.recovered
            /\ effect.b = Table[k + 1].cell.recovered
===============================================================================

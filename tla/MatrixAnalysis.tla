---------------------------- MODULE MatrixAnalysis ----------------------------
(***************************************************************************)
(* Factorial experiments: the design of analysis/design.py, whose          *)
(* conditions the matrix command runs one after the other, and the effects *)
(* and comparisons that design.py, interactions.py, comparison.py and      *)
(* statistics.py compute from the repetitions of the conditions that       *)
(* succeeded.                                                              *)
(*                                                                         *)
(* A level is known by its canonical JSON (the design), its value under    *)
(* Python's == (groups and cells), its text (the key of a group; texts are *)
(* sorted by rank) and the tree it puts into a specification: a function   *)
(* from the paths of its nodes, empty for None.  A condition id, a hash of *)
(* the assignments, is the assignments themselves.  A list of values is    *)
(* known by its positions; a run that did not recover has the value inf.   *)
(* Means are exact, in multiples of 1 / Scale.                             *)
(***************************************************************************)
EXTENDS Integers, Sequences, FiniteSets, FiniteSetsExt, SequencesExt

CONSTANTS Base,        \* the base specification: a function from paths
          DictNode,    \* the value of a node that is a dictionary
          Factors,     \* a sequence of [path, levels]; a level is [json, eq, text, rank, tree]
          Values,      \* finite values of the metric
          Censored,    \* inf: the run did not recover
          Undefined,   \* None: the mean of nothing
          Repetitions, \* repetitions of a condition
          Scale        \* a multiple of every count that is divided by

ASSUME MatrixAssumption ==
  /\ Values \subseteq Nat /\ Censored \in Int \ Nat /\ Undefined \notin Int
  /\ Repetitions \in Nat \ {0} /\ Scale \in Nat \ {0}
  /\ Len(Factors) \in Nat /\ DOMAIN Factors = 1..Len(Factors)
  /\ \A f \in DOMAIN Factors :
       /\ Len(Factors[f].levels) \in Nat
       /\ DOMAIN Factors[f].levels = 1..Len(Factors[f].levels)

\* A path is a sequence of keys.  What a level puts into a specification is the tree of
\* its value, and the canonical form is made of the value: levels with one tree have it
\* in common.
IsPath(q) == q \in Seq(Range(q))

ASSUME PathAssumption ==
  /\ \A q \in DOMAIN Base : IsPath(q)
  /\ \A f \in DOMAIN Factors : IsPath(Factors[f].path)
  /\ \A f \in DOMAIN Factors : \A p \in DOMAIN Factors[f].levels :
       LET level == Factors[f].levels[p] IN
       /\ \A r \in DOMAIN level.tree : IsPath(r)
       /\ level.tree = [r \in DOMAIN level.tree |-> level.tree[r]]
       /\ \A q \in DOMAIN Factors[f].levels :
            Factors[f].levels[q].tree = level.tree => Factors[f].levels[q].json = level.json

VARIABLES done,         \* conditions the loop has been through
          observations  \* observations[i]: the values of condition i, if it is ok

matrixVars == <<done, observations>>

-------------------------------------------------------------------------------
\* _canonical_level(): build_design() raises on levels with the same canonical form.
DuplicateLevels ==
  \E f \in DOMAIN Factors :
    \E p, q \in DOMAIN Factors[f].levels :
      p < q /\ Factors[f].levels[p].json = Factors[f].levels[q].json

Below(path, q) == IsPrefix(path, q)

\* Plausible slip: None leaves the entry as it is.
MutSetPath(d, path, tree) ==
  LET above == {SubSeq(path, 1, n) : n \in 1..(Len(path) - 1)}
      kept  == {q \in DOMAIN d : ~Below(path, q) \/ tree = <<>>} \ above
  IN [q \in above \union kept \union {path \o r : r \in DOMAIN tree} |->
        IF q \in above THEN DictNode
        ELSE IF q \in kept THEN d[q] ELSE tree[SubSeq(q, Len(path) + 1, Len(q))]]

\* _set_path(): what is above the path becomes a dictionary, what was at the path
\* and below gives way to the level, or to nothing for None.
SetPath(d, path, tree) ==
  LET above == {SubSeq(path, 1, n) : n \in 1..(Len(path) - 1)}
      kept  == {q \in DOMAIN d : ~Below(path, q)} \ above
  IN [q \in above \union kept \union {path \o r : r \in DOMAIN tree} |->
        IF q \in above THEN DictNode
        ELSE IF q \in kept THEN d[q] ELSE tree[SubSeq(q, Len(path) + 1, Len(q))]]

\* The number of combinations of the factors from f on.
CombosFrom[f \in 1..(Len(Factors) + 1)] ==
  IF f > Len(Factors) THEN 1 ELSE Len(Factors[f].levels) * CombosFrom[f + 1]

Conditions == 1..CombosFrom[1]

\* No mean of the runs of some conditions, and no mean of such means, is rounded.
ASSUME ScaleAssumption ==
  \A n \in 1..(Repetitions * CombosFrom[1]), m \in Conditions : Scale % (n * m) = 0

\* itertools.product(): the last factor varies fastest.
Combination ==
  [i \in Conditions |-> [f \in DOMAIN Factors |->
     Factors[f].levels[(((i - 1) \div CombosFrom[f + 1]) % Len(Factors[f].levels)) + 1]]]

LevelOf(i, f) == Combination[i][f]

\* DesignCondition.factors, and the id condition_hash() makes of them.
Assignments(i) == [f \in DOMAIN Factors |-> LevelOf(i, f).json]

\* apply_factors(): the assignments in the order of the factors.
Specs ==
  [i \in Conditions |->
     FoldLeft(LAMBDA d, f : SetPath(d, Factors[f].path, LevelOf(i, f).tree),
              Base, [f \in DOMAIN Factors |-> f])]

\* build_design() raises on ids that collide.
DuplicateIds == \E i, j \in Conditions : i # j /\ Assignments(i) = Assignments(j)

-------------------------------------------------------------------------------
MatrixInit ==
  /\ ~DuplicateLevels /\ ~DuplicateIds
  /\ done = 0
  /\ observations = [i \in Conditions |-> <<>>]

\* The condition succeeds: every repetition has a value, or did not recover.
Observe(values) ==
  /\ done + 1 \in Conditions
  /\ done' = done + 1
  /\ observations' = [observations EXCEPT ![done + 1] = values]

\* The condition fails and has no observations.
FailCondition ==
  /\ done + 1 \in Conditions
  /\ done' = done + 1
  /\ UNCHANGED observations

MatrixNext ==
  \/ FailCondition
  \/ \E values \in [1..Repetitions -> Values \union {Censored}] : Observe(values)

MatrixSpec == MatrixInit /\ [][MatrixNext]_matrixVars

-------------------------------------------------------------------------------
\* _finite_only(), _finite_cell(), summarize_censored(): the runs that recovered.
Finite(values) == {k \in DOMAIN values : values[k] # Censored}

MeanOver(values, runs) ==
  IF runs = {} THEN Undefined
  ELSE (Scale * SumFunctionOnSet(values, runs)) \div Cardinality(runs)

\* _censored_cell_mean(): nothing when no run recovered.
CellMean(values) == MeanOver(values, Finite(values))

\* group_by_factor(): conditions whose levels are == are a group, named by the text of
\* its first level; of two groups with one name the later one stays.
EqualTo(f, i) == {j \in Conditions : LevelOf(j, f).eq = LevelOf(i, f).eq}
GroupNames ==
  [f \in DOMAIN Factors |-> [i \in Conditions |-> LevelOf(Min(EqualTo(f, i)), f).text]]
Grouped ==
  [f \in DOMAIN Factors |-> [name \in Range(GroupNames[f]) |->
     EqualTo(f, Max({Min(EqualTo(f, i)) : i \in {j \in Conditions : GroupNames[f][j] = name}}))]]
Runs(conditions) ==
  {r \in conditions \X (1..Repetitions) : r[2] \in DOMAIN observations[r[1]]}
ValuesOf(conditions) == [r \in Runs(conditions) |-> observations[r[1]][r[2]]]
GroupOf(f, name) == ValuesOf(Grouped[f][name])

\* Plausible slip: an empty group counts as a group with mean zero.
MutGrandMean(means) ==
  SumFunction([l \in DOMAIN means |-> IF means[l] = Undefined THEN 0 ELSE means[l]])
    \div Cardinality(DOMAIN means)

\* main_effect(): the grand mean is the mean of the group means that are defined.
GrandMean(means) ==
  LET defined == {l \in DOMAIN means : means[l] # Undefined} IN
  IF defined = {} THEN Undefined
  ELSE SumFunctionOnSet(means, defined) \div Cardinality(defined)

Levels(groups, means, grand) ==
  [l \in DOMAIN groups |->
     [n |-> Cardinality(DOMAIN groups[l]), recovered |-> Cardinality(Finite(groups[l])),
      mean |-> means[l],
      effect |-> IF means[l] = Undefined THEN Undefined ELSE means[l] - grand]]

EffectOf(groups, means) == Levels(groups, means, GrandMean(means))

EffectIn(groups) == EffectOf(groups, [l \in DOMAIN groups |-> CellMean(groups[l])])

MainEffect(f) == EffectIn([l \in DOMAIN Grouped[f] |-> GroupOf(f, l)])

\* Plausible slip: the second effect is taken from the wrong pair of cells.
MutTwoWay(offOff, onOff, offOn, onOn) ==
  LET m00 == CellMean(offOff)  m10 == CellMean(onOff)
      m01 == CellMean(offOn)   m11 == CellMean(onOn)
  IN IF Undefined \in {m00, m10, m01, m11} THEN <<>> ELSE <<m10 - m00, m11 - m10>>

\* two_way_interaction() and the end of interaction_effect(): the effect of a factor
\* at the low and at the high level of the other one, or nothing.
TwoWay(offOff, onOff, offOn, onOn) ==
  LET m00 == CellMean(offOff)  m10 == CellMean(onOff)
      m01 == CellMean(offOn)   m11 == CellMean(onOn)
  IN IF Undefined \in {m00, m10, m01, m11} THEN <<>> ELSE <<m10 - m00, m11 - m01>>

\* The levels of a binary factor in the order of their texts, low first.
BinaryFactors == {f \in DOMAIN Factors : Cardinality({LevelOf(i, f).eq : i \in Conditions}) = 2}
LowFirst ==
  [f \in BinaryFactors |->
     LET a == LevelOf(1, f)
         b == LevelOf(CHOOSE i \in Conditions : LevelOf(i, f).eq # a.eq, f)
     IN IF a.rank <= b.rank THEN <<a.eq, b.eq>> ELSE <<b.eq, a.eq>>]

\* The first condition with these levels of f and g.
Cell(f, g, l, m) ==
  LET matching == {i \in Conditions : LevelOf(i, f).eq = l /\ LevelOf(i, g).eq = m} IN
  IF matching = {} THEN <<>> ELSE observations[Min(matching)]

\* interaction_effect(), for the pairs of binary_factor_pairs().
BinaryPairs == {p \in BinaryFactors \X BinaryFactors : p[1] < p[2]}
InteractionAt(f, g, a, b) ==
  TwoWay(Cell(f, g, a[1], b[1]), Cell(f, g, a[2], b[1]),
         Cell(f, g, a[1], b[2]), Cell(f, g, a[2], b[2]))

Interaction(f, g) == InteractionAt(f, g, LowFirst[f], LowFirst[g])

\* The differences of the pairs of which both runs recovered.
Differences(a, b) ==
  [k \in {k \in 1..Min({Len(a), Len(b)}) : a[k] # Censored /\ b[k] # Censored} |-> a[k] - b[k]]

\* paired_difference_summary().
Paired(a, b) ==
  LET n == Min({Len(a), Len(b)})
      d == Differences(a, b)
  IN [n |-> n, censored |-> n - Cardinality(DOMAIN d), difference |-> MeanOver(d, DOMAIN d)]

-------------------------------------------------------------------------------
\* A condition runs the base experiment with its own levels and no other change:
\* each factor's path holds the level of the condition, the rest of the tree is the
\* base, and no two conditions have the same tree (before the schema reads it) - for
\* factors none of which lies inside another.
Disjoint ==
  \A f, g \in DOMAIN Factors : f # g => ~Below(Factors[f].path, Factors[g].path)

ConditionsAsDesigned ==
  Disjoint =>
    \A i \in 1..done :
      LET spec == Specs[i] IN
      /\ \A f \in DOMAIN Factors :
           LET path == Factors[f].path  tree == LevelOf(i, f).tree IN
           /\ {q \in DOMAIN spec : Below(path, q)} = {path \o r : r \in DOMAIN tree}
           /\ \A r \in DOMAIN tree : spec[path \o r] = tree[r]
      /\ \A q \in DOMAIN Base :
           (\A f \in DOMAIN Factors : ~Below(Factors[f].path, q) /\ ~Below(q, Factors[f].path))
             => q \in DOMAIN spec /\ spec[q] = Base[q]
      /\ \A j \in 1..(i - 1) : Specs[j] # spec

\* The effects of one factor account for all observations.
Accounted(f) ==
  LET effect  == MainEffect(f)
      defined == {l \in DOMAIN effect : effect[l].mean # Undefined}
  IN /\ SumFunction([l \in DOMAIN effect |-> effect[l].n]) = Cardinality(Runs(Conditions))
     /\ SumFunction([l \in DOMAIN effect |-> effect[l].recovered])
          = Cardinality(Finite(ValuesOf(Conditions)))
     /\ SumFunction([l \in defined |-> effect[l].effect]) = 0
     /\ \A l \in DOMAIN effect :
          LET values == GroupOf(f, l) IN
          /\ l \in defined <=> effect[l].recovered > 0
          /\ l \in defined => \E p, q \in Finite(values) :
               Scale * values[p] <= effect[l].mean /\ effect[l].mean <= Scale * values[q]

TextsDiffer(f) ==
  Cardinality(DOMAIN Grouped[f]) = Cardinality({LevelOf(i, f).eq : i \in Conditions})

\* Whatever failed or did not recover, every observation is counted in one level of
\* each factor, the effects of a factor's levels cancel, and no mean lies outside the
\* values it was computed from - for levels that differ in their texts.
EffectsAccount == done > 0 => \A f \in DOMAIN Factors : TextsDiffer(f) => Accounted(f)

\* Every run of the condition recovered.
Whole(i) == Len(observations[i]) = Repetitions /\ Censored \notin ToSet(observations[i])

\* The interaction of two factors, taken either way round.
InteractionsAgree(ab, ba) ==
  /\ ab # <<>> <=> \A i \in Conditions : Finite(observations[i]) # {}
  /\ ba # <<>> <=> ab # <<>>
  /\ ab # <<>> => ab[2] - ab[1] = ba[2] - ba[1]

\* The difference of the effects of the two levels of a factor, low first.
Difference(f, effect) ==
  LET of(l) == effect[GroupNames[f][CHOOSE i \in Conditions : LevelOf(i, f).eq = l]].effect
  IN of(LowFirst[f][2]) - of(LowFirst[f][1])

\* Paired differences are those of the means.
PairsAgree ==
  \A i, j \in Conditions :
    LET d == Paired(observations[i], observations[j]) IN
    /\ d.censored = 0
    /\ d.difference = CellMean(observations[i]) - CellMean(observations[j])

\* The ways of looking at one 2x2 experiment agree.  The interaction is defined
\* exactly when a run of each cell recovered; it does not depend on which factor comes
\* first; when every run recovered, the two effects of a factor average to the
\* difference of its main effects (for levels that differ in their texts), and the
\* paired differences are those of the means.
ViewsAgree ==
  done > 0 /\ Cardinality(Conditions) = 4 =>
    /\ \A p \in BinaryPairs :
         InteractionsAgree(Interaction(p[1], p[2]), Interaction(p[2], p[1]))
    /\ (\A i \in Conditions : Whole(i)) =>
         /\ \A p \in BinaryPairs : TextsDiffer(p[1]) =>
              LET ab == Interaction(p[1], p[2]) IN
              ab[1] + ab[2] = 2 * Difference(p[1], MainEffect(p[1]))
         /\ PairsAgree
===============================================================================

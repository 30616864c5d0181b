--------------------------- MODULE ControlPlane_proofs ---------------------------
(***************************************************************************)
(* Proofs about the job queue and about the control plane around it, for   *)
(* any number of jobs, requests and crashes.                               *)
(*                                                                         *)
(* 1. What LREM, and LREM for one id after the other, do to the number of  *)
(*    entries of each id.  The second is a fold; its facts are proved by   *)
(*    induction on the number of ids, from the least number outside a set. *)
(* 2. The queue: no job is lost, whatever its workers do to each other,    *)
(*    and with one worker every unfinished job has one entry.              *)
(* 3. The same queue under the API and the workers of the control plane.   *)
(* 4. With one deployed worker, what the database says of an experiment    *)
(*    and of its runs, and what the queue says of the jobs, agree as       *)
(*    promised.  This part does not look into the two lists.  It needs     *)
(*    only that the worker is the one writer of the rows of the runs, that *)
(*    a job it holds is not finished in the queue, and what its plan for   *)
(*    the next commit assumes of the rows it has read.                     *)
(***************************************************************************)
EXTENDS ControlPlane, Integers, FiniteSetTheorems, SequenceTheorems, TLAPS

(* 1. Lists                                                                *)

\* A set of numbers that is not empty has a least one: initial segments are well-founded.
LEMMA LeastNatural ==
  ASSUME NEW S \in SUBSET Nat, S # {}
  PROVE  \E n \in S : \A m \in S : n <= m
<1> DEFINE Belows == {1..n : n \in S}
<1>1. Belows \subseteq FiniteSubsetsOf(Nat) /\ Belows # {}
  <2>1. \A n \in S : 1..n \in SUBSET Nat /\ IsFiniteSet(1..n)
    BY FS_Interval
  <2>2. QED
    BY <2>1 DEF FiniteSubsetsOf
<1>2. PICK I \in Belows : \A J \in Belows : ~(<<J, I>> \in StrictSubsetOrdering(Nat))
  BY <1>1, FS_StrictSubsetOrderingWellFounded, WFMin
<1>3. PICK n \in S : I = 1..n
  OBVIOUS
<1>4. \A m \in S : ~(m < n)
  <2>1. SUFFICES ASSUME NEW m \in S, m < n PROVE FALSE
    OBVIOUS
  <2>2. 1..m \in Belows /\ 1..m \subseteq 1..n /\ 1..m # 1..n
    <3>1. n \in 1..n /\ n \notin 1..m
      BY <2>1
    <3>2. QED
      BY <2>1, <3>1
  <2>3. <<1..m, I>> \in StrictSubsetOrdering(Nat)
    BY <2>2, <1>3 DEF StrictSubsetOrdering
  <2>4. QED
    BY <2>2, <2>3, <1>2
<1>5. QED
  BY <1>4

\* Induction, for a set of numbers.
LEMMA InductiveSet ==
  ASSUME NEW S, 0 \in S, \A n \in Nat : n \in S => n + 1 \in S
  PROVE  Nat \subseteq S
<1> DEFINE Out == Nat \ S
<1>1. SUFFICES ASSUME Out # {} PROVE FALSE
  OBVIOUS
<1>2. PICK n \in Out : \A m \in Out : n <= m
  BY <1>1, LeastNatural
<1>3. n # 0 /\ n - 1 \in Nat /\ n - 1 \notin Out
  BY <1>2
<1>4. QED
  BY <1>3

\* Max of a set of numbers up to k that holds k.
LEMMA MaxTop ==
  ASSUME NEW k \in Nat, NEW T \in SUBSET (1..k), k \in T
  PROVE  Max(T) = k
<1>1. k \in T /\ \A y \in T : k >= y
  OBVIOUS
<1>2. \A x \in T : (\A y \in T : x >= y) => x = k
  BY <1>1
<1>3. QED
  BY <1>1, <1>2 DEF Max

\* it is the function by which LremAll(list, ids) is computed: from sets of positions in
\* ids to lists.
Removes(it, n, list, ids) ==
  it = [T \in SUBSET (1..n) |->
          IF T = {} THEN list ELSE Lrem(it[T \ {Max(T)}], ids[Max(T)])]

\* There is such a function, for any number of ids.
LEMMA RemovesExists ==
  ASSUME NEW list, NEW ids, NEW n \in Nat
  PROVE  \E it : Removes(it, n, list, ids)
<1> DEFINE S == {k \in Nat : \E it : Removes(it, k, list, ids)}
<1>1. 0 \in S
  <2> DEFINE it == [T \in SUBSET (1..0) |-> list]
  <2>1. \A T \in SUBSET (1..0) : T = {}
    OBVIOUS
  <2>2. Removes(it, 0, list, ids)
    BY <2>1 DEF Removes
  <2>3. QED
    BY <2>2
<1>2. ASSUME NEW k \in Nat, k \in S PROVE k + 1 \in S
  <2>1. PICK it : Removes(it, k, list, ids)
    BY <1>2
  <2> DEFINE top == k + 1
             jt == [T \in SUBSET (1..top) |->
                      IF top \in T THEN Lrem(it[T \ {top}], ids[top]) ELSE it[T]]
  <2>2. \A T \in SUBSET (1..top) : top \notin T => T \in SUBSET (1..k)
    OBVIOUS
  <2>3. ASSUME NEW T \in SUBSET (1..top)
        PROVE  jt[T] = IF T = {} THEN list ELSE Lrem(jt[T \ {Max(T)}], ids[Max(T)])
    <3>1. CASE top \in T
      <4>1. Max(T) = top
        BY <3>1, MaxTop
      <4>2. jt[T \ {top}] = it[T \ {top}]
        OBVIOUS
      <4>3. QED
        BY <3>1, <4>1, <4>2
    <3>2. CASE top \notin T
      <4>1. jt[T] = it[T]
        BY <3>2
      <4>2. it[T] = IF T = {} THEN list ELSE Lrem(it[T \ {Max(T)}], ids[Max(T)])
        BY <2>1, <2>2, <3>2 DEF Removes
      <4>3. jt[T \ {Max(T)}] = it[T \ {Max(T)}]
        BY <3>2, <2>2
      <4>4. QED
        BY <4>1, <4>2, <4>3
    <3>3. QED
      BY <3>1, <3>2
  <2>4. Removes(jt, top, list, ids)
    BY <2>3 DEF Removes
  <2>5. QED
    <3> HIDE DEF jt
    <3>1. \E it2 : Removes(it2, k + 1, list, ids)
      BY <2>4
    <3>2. QED
      BY <3>1
<1>3. Nat \subseteq S
  BY <1>1, <1>2, InductiveSet
<1>4. QED
  BY <1>3

\* The fold is what such a function gives for all positions.
LEMMA LremAllComputed ==
  ASSUME NEW list, NEW ids \in Seq(Jobs)
  PROVE  \E it : Removes(it, Len(ids), list, ids) /\ LremAll(list, ids) = it[1..Len(ids)]
<1> DEFINE Chosen == CHOOSE it : Removes(it, Len(ids), list, ids)
<1>1. DOMAIN ids = 1..Len(ids) /\ Len(ids) \in Nat
  BY LenProperties
<1>2. Removes(Chosen, Len(ids), list, ids)
  BY <1>1, RemovesExists
<1>3. LremAll(list, ids) = Chosen[1..Len(ids)]
  BY <1>1 DEF LremAll, FoldLeft, MapThenFoldSet, Removes
<1>4. QED
  BY <1>2, <1>3

\* It removes the ids from the first on.
LEMMA RemovesAt ==
  ASSUME NEW list, NEW ids, NEW n \in Nat, NEW it, Removes(it, n, list, ids)
  PROVE  /\ it[1..0] = list
         /\ \A k \in Nat : k < n => it[1..(k + 1)] = Lrem(it[1..k], ids[k + 1])
<1>1. it[1..0] = list
  <2>1. 1..0 = {}
    OBVIOUS
  <2>2. QED
    BY <2>1 DEF Removes
<1>2. ASSUME NEW k \in Nat, k < n PROVE it[1..(k + 1)] = Lrem(it[1..k], ids[k + 1])
  <2> DEFINE T == 1..(k + 1)
  <2>1. T \in SUBSET (1..n) /\ T # {}
    BY <1>2
  <2>2. Max(T) = k + 1
    BY MaxTop
  <2>3. T \ {k + 1} = 1..k
    OBVIOUS
  <2> HIDE DEF T
  <2>4. it[T] = Lrem(it[T \ {Max(T)}], ids[Max(T)])
    BY <2>1 DEF Removes
  <2>5. QED
    BY <2>2, <2>3, <2>4 DEF T
<1>3. QED
  BY <1>1, <1>2

\* Two such functions agree on the positions both speak of.
LEMMA RemovesUnique ==
  ASSUME NEW list, NEW ids, NEW more, NEW m \in Nat, NEW n \in Nat,
         NEW it, Removes(it, m, list, ids),
         NEW jt, Removes(jt, n, list, more), m <= n,
         \A i \in 1..m : ids[i] = more[i]
  PROVE  it[1..m] = jt[1..m]
<1> DEFINE S == {k \in Nat : k <= m => it[1..k] = jt[1..k]}
<1>0. ASSUME NEW f, NEW k \in Nat, NEW x, Removes(f, k, list, x)
      PROVE  /\ f[1..0] = list
             /\ \A i \in Nat : i < k => f[1..(i + 1)] = Lrem(f[1..i], x[i + 1])
  BY ONLY <1>0, RemovesAt
<1>1. /\ it[1..0] = list
      /\ \A k \in Nat : k < m => it[1..(k + 1)] = Lrem(it[1..k], ids[k + 1])
  BY <1>0
<1>2. /\ jt[1..0] = list
      /\ \A k \in Nat : k < n => jt[1..(k + 1)] = Lrem(jt[1..k], more[k + 1])
  BY <1>0
<1>3. 0 \in S
  BY <1>1, <1>2
<1>4. ASSUME NEW k \in Nat, k \in S PROVE k + 1 \in S
  <2>1. SUFFICES ASSUME k + 1 <= m PROVE it[1..(k + 1)] = jt[1..(k + 1)]
    OBVIOUS
  <2>2. it[1..k] = jt[1..k] /\ ids[k + 1] = more[k + 1]
    BY <2>1, <1>4
  <2>3. QED
    BY <2>1, <2>2, <1>1, <1>2
<1>5. Nat \subseteq S
  BY <1>3, <1>4, InductiveSet
<1>6. QED
  BY <1>5

LEMMA LremAllEmpty ==
  ASSUME NEW list
  PROVE  LremAll(list, <<>>) = list
<1>1. <<>> \in Seq(Jobs) /\ Len(<<>>) = 0
  BY EmptySeq
<1>2. PICK it : Removes(it, 0, list, <<>>) /\ LremAll(list, <<>>) = it[1..0]
  BY <1>1, LremAllComputed
<1>3. QED
  BY <1>2, RemovesAt

\* One more id is one more LREM, the last.
LEMMA LremAllAppend ==
  ASSUME NEW list, NEW ids \in Seq(Jobs), NEW j \in Jobs
  PROVE  LremAll(list, Append(ids, j)) = Lrem(LremAll(list, ids), j)
<1> DEFINE more == Append(ids, j)
           m == Len(ids)
<1>1. more \in Seq(Jobs) /\ Len(more) = m + 1 /\ m \in Nat
      /\ (\A i \in 1..m : more[i] = ids[i]) /\ more[m + 1] = j
  BY AppendProperties, LenProperties
<1> HIDE DEF more, m
<1>2. PICK it : Removes(it, m, list, ids) /\ LremAll(list, ids) = it[1..m]
  BY LremAllComputed DEF m
<1>3. PICK jt : Removes(jt, m + 1, list, more) /\ LremAll(list, more) = jt[1..(m + 1)]
  BY <1>1, LremAllComputed
<1>4. it[1..m] = jt[1..m]
  BY <1>1, <1>2, <1>3, RemovesUnique
<1>5. jt[1..(m + 1)] = Lrem(jt[1..m], j)
  BY <1>1, <1>3, RemovesAt
<1>6. QED
  BY <1>2, <1>3, <1>4, <1>5 DEF more

\* The positions of an id.
At(list, j) == {i \in 1..Len(list) : list[i] = j}

\* Occurrences counts the positions of an id.
LEMMA OccurrencesCount ==
  ASSUME NEW list \in Seq(Jobs), NEW j
  PROVE  /\ IsFiniteSet(At(list, j))
         /\ Occurrences(list, j) = Cardinality(At(list, j)) /\ Occurrences(list, j) \in Nat
         /\ Occurrences(list, j) > 0 <=> Contains(list, j)
<1>1. Len(list) \in Nat /\ DOMAIN list = 1..Len(list)
  BY LenProperties
<1>2. IsFiniteSet(1..Len(list)) /\ At(list, j) \subseteq 1..Len(list)
  BY <1>1, FS_Interval DEF At
<1>3. IsFiniteSet(At(list, j))
  BY <1>2, FS_Subset
<1>4. Occurrences(list, j) = Cardinality(At(list, j)) /\ Occurrences(list, j) \in Nat
  BY <1>1, <1>3, FS_CardinalityType DEF Occurrences, At
<1>5. At(list, j) # {} <=> Contains(list, j)
  BY DEF At, Contains
<1>6. QED
  BY <1>3, <1>4, <1>5, FS_EmptySet

LEMMA OccurrencesConcat ==
  ASSUME NEW s \in Seq(Jobs), NEW t \in Seq(Jobs), NEW j
  PROVE  /\ s \o t \in Seq(Jobs)
         /\ Occurrences(s \o t, j) = Occurrences(s, j) + Occurrences(t, j)
<1> DEFINE m == Len(s)
           n == Len(t)
           st == s \o t
           Late == {i \in 1..(m + n) : i > m /\ st[i] = j}
<1>1. m \in Nat /\ n \in Nat /\ st \in Seq(Jobs) /\ Len(st) = m + n
      /\ \A i \in 1..(m + n) : st[i] = IF i <= m THEN s[i] ELSE t[i - m]
  BY ConcatProperties, LenProperties
<1>2. At(st, j) = At(s, j) \union Late /\ At(s, j) \intersect Late = {}
  BY <1>1 DEF At
<1>3. IsFiniteSet(At(s, j)) /\ IsFiniteSet(At(t, j))
  BY OccurrencesCount
<1>4. IsFiniteSet(Late) /\ Cardinality(Late) = Cardinality(At(t, j))
  <2> DEFINE f == [i \in At(t, j) |-> i + m]
  <2>1. f \in [At(t, j) -> Late]
    BY <1>1 DEF At
  <2>2. \A a, b \in At(t, j) : f[a] = f[b] => a = b
    BY <1>1 DEF At
  <2>3. \A l \in Late : \E a \in At(t, j) : f[a] = l
    <3>1. SUFFICES ASSUME NEW l \in Late PROVE l - m \in At(t, j) /\ f[l - m] = l
      BY Zenon
    <3>2. l - m \in At(t, j)
      BY <1>1 DEF At
    <3>3. QED
      BY <1>1, <3>2
  <2> HIDE DEF f
  <2>4. f \in Bijection(At(t, j), Late)
    BY <2>1, <2>2, <2>3 DEF Bijection, Injection, Surjection, IsInjective
  <2>5. ExistsBijection(At(t, j), Late)
    BY <2>4 DEF ExistsBijection
  <2>6. QED
    BY <1>3, <2>5, FS_Bijection
<1> HIDE DEF Late
<1>5. Cardinality(At(st, j)) = Cardinality(At(s, j)) + Cardinality(Late)
  <2> HIDE DEF st
  <2>1. Cardinality(At(s, j) \union Late)
          = Cardinality(At(s, j)) + Cardinality(Late) - Cardinality(At(s, j) \intersect Late)
    BY <1>3, <1>4, FS_Union
  <2>2. Cardinality(At(s, j)) \in Nat /\ Cardinality(Late) \in Nat
    BY <1>3, <1>4, FS_CardinalityType
  <2>3. Cardinality(At(s, j) \intersect Late) = 0
    BY <1>2, FS_EmptySet
  <2>4. QED
    BY <1>2, <2>1, <2>2, <2>3
<1> HIDE DEF st
<1>6. QED
  <2>1. Occurrences(st, j) = Cardinality(At(st, j)) /\ Occurrences(s, j) = Cardinality(At(s, j))
        /\ Occurrences(t, j) = Cardinality(At(t, j))
    BY <1>1, OccurrencesCount
  <2>2. QED
    BY <1>1, <1>4, <1>5, <2>1 DEF st

LEMMA OccurrencesOne ==
  ASSUME NEW k \in Jobs, NEW j
  PROVE  <<k>> \in Seq(Jobs) /\ Occurrences(<<k>>, j) = IF j = k THEN 1 ELSE 0
<1>1. <<k>> \in Seq(Jobs) /\ Len(<<k>>) = 1 /\ <<k>>[1] = k
  OBVIOUS
<1>2. At(<<k>>, j) = IF j = k THEN {1} ELSE {}
  BY <1>1 DEF At
<1>3. QED
  BY <1>1, <1>2, OccurrencesCount, FS_Singleton, FS_EmptySet

LEMMA OccurrencesAppend ==
  ASSUME NEW list \in Seq(Jobs), NEW k \in Jobs, NEW j
  PROVE  /\ Append(list, k) \in Seq(Jobs)
         /\ Occurrences(Append(list, k), j) = Occurrences(list, j) + IF j = k THEN 1 ELSE 0
<1>1. <<k>> \in Seq(Jobs) /\ Occurrences(<<k>>, j) = IF j = k THEN 1 ELSE 0
  BY OccurrencesOne
<1>2. Append(list, k) = list \o <<k>>
  BY AppendIsConcat
<1>3. list \o <<k>> \in Seq(Jobs) /\ Occurrences(list \o <<k>>, j) = Occurrences(list, j) + Occurrences(<<k>>, j)
  BY <1>1, OccurrencesConcat
<1>4. QED
  BY <1>1, <1>2, <1>3

LEMMA OccurrencesHead ==
  ASSUME NEW list \in Seq(Jobs), list # <<>>, NEW j
  PROVE  /\ Head(list) \in Jobs /\ Tail(list) \in Seq(Jobs)
         /\ Occurrences(list, j) = (IF j = Head(list) THEN 1 ELSE 0) + Occurrences(Tail(list), j)
<1>1. Head(list) \in Jobs /\ Tail(list) \in Seq(Jobs) /\ list = <<Head(list)>> \o Tail(list)
  OBVIOUS
<1> DEFINE h == Head(list)
           t == Tail(list)
<1> HIDE DEF h, t
<1>2. <<h>> \in Seq(Jobs) /\ Occurrences(<<h>>, j) = IF j = h THEN 1 ELSE 0
  BY <1>1, OccurrencesOne DEF h
<1>3. Occurrences(<<h>> \o t, j) = Occurrences(<<h>>, j) + Occurrences(t, j)
  BY <1>1, <1>2, OccurrencesConcat DEF t
<1>4. QED
  BY <1>1, <1>2, <1>3 DEF h, t

\* LREM takes out one entry of the id, if there is one, and no other entry.
LEMMA OccurrencesLrem ==
  ASSUME NEW list \in Seq(Jobs), NEW k \in Jobs
  PROVE  /\ Lrem(list, k) \in Seq(Jobs)
         /\ \A j : Occurrences(Lrem(list, k), j) =
                     IF j = k /\ Contains(list, k) THEN Occurrences(list, j) - 1
                     ELSE Occurrences(list, j)
<1>1. CASE ~Contains(list, k)
  BY <1>1 DEF Lrem, RemoveFirst, Contains
<1>2. CASE Contains(list, k)
  <2> DEFINE n == Len(list)
             p == SelectInSeq(list, LAMBDA v : v = k)
             before == SubSeq(list, 1, p - 1)
             after == SubSeq(list, p + 1, n)
  <2>1. n \in Nat /\ \A i \in 1..n : list[i] \in Jobs
    BY LenProperties, ElementOfSeq
  <2>2. p \in 1..n /\ list[p] = k
    <3> DEFINE I == {i \in 1..n : list[i] = k}
    <3>1. I \in SUBSET Nat /\ I # {}
      BY <1>2, <2>1 DEF Contains
    <3>2. PICK least \in I : \A m \in I : least <= m
      BY <3>1, LeastNatural
    <3>3. Min(I) \in I
      BY <3>2 DEF Min
    <3>4. QED
      BY <3>1, <3>3 DEF SelectInSeq
  <2>3. Lrem(list, k) = before \o after
    BY <1>2 DEF Lrem, RemoveFirst, RemoveAt, Contains
  <2> HIDE DEF p
  <2>4. before \in Seq(Jobs) /\ after \in Seq(Jobs) /\ <<k>> \in Seq(Jobs)
    BY <2>1, <2>2, SubSeqProperties
  <2>5. list = before \o (<<k>> \o after)
    <3>1. SubSeq(list, p, n) = <<k>> \o after
      BY <2>1, <2>2, SubSeqRecursiveFirst
    <3>2. before \o SubSeq(list, p, n) = SubSeq(list, 1, n)
      <4>1. 1 \in 1..(n + 1) /\ p - 1 \in (1 - 1)..n /\ n \in (p - 1)..n /\ (p - 1) + 1 = p
        BY <2>1, <2>2
      <4>2. SubSeq(list, 1, p - 1) \o SubSeq(list, (p - 1) + 1, n) = SubSeq(list, 1, n)
        BY <4>1, ConcatAdjacentSubSeq
      <4>3. QED
        BY <4>1, <4>2
    <3>3. QED
      BY <3>1, <3>2, SubSeqFull
  <2> HIDE DEF before, after
  <2>6. \A j : Occurrences(list, j) = Occurrences(before, j) + (IF j = k THEN 1 ELSE 0) + Occurrences(after, j)
    <3>1. SUFFICES ASSUME NEW j PROVE Occurrences(list, j) =
            Occurrences(before, j) + (IF j = k THEN 1 ELSE 0) + Occurrences(after, j)
      OBVIOUS
    <3>2. /\ <<k>> \o after \in Seq(Jobs)
          /\ Occurrences(<<k>> \o after, j) = (IF j = k THEN 1 ELSE 0) + Occurrences(after, j)
      <4>1. Occurrences(<<k>>, j) = IF j = k THEN 1 ELSE 0
        BY OccurrencesOne
      <4>2. /\ <<k>> \o after \in Seq(Jobs)
            /\ Occurrences(<<k>> \o after, j) = Occurrences(<<k>>, j) + Occurrences(after, j)
        BY ONLY <2>4, OccurrencesConcat
      <4>3. QED
        BY <4>1, <4>2
    <3>3. Occurrences(before \o (<<k>> \o after), j) = Occurrences(before, j) + Occurrences(<<k>> \o after, j)
      <4> DEFINE rest == <<k>> \o after
      <4>1. rest \in Seq(Jobs)
        BY <3>2
      <4> HIDE DEF rest
      <4>2. Occurrences(before \o rest, j) = Occurrences(before, j) + Occurrences(rest, j)
        BY ONLY <2>4, <4>1, OccurrencesConcat
      <4>3. QED
        BY <4>2 DEF rest
    <3>4. Occurrences(before, j) \in Nat /\ Occurrences(after, j) \in Nat
      BY <2>4, OccurrencesCount
    <3>5. QED
      BY <2>5, <3>2, <3>3, <3>4
  <2>7. \A j : /\ Lrem(list, k) \in Seq(Jobs)
               /\ Occurrences(Lrem(list, k), j) = Occurrences(before, j) + Occurrences(after, j)
    BY <2>3, <2>4, OccurrencesConcat
  <2>8. \A j : Occurrences(before, j) \in Nat /\ Occurrences(after, j) \in Nat
    BY <2>4, OccurrencesCount
  <2>9. QED
    BY <1>2, <2>6, <2>7, <2>8
<1>3. QED
  BY <1>1, <1>2

\* LREM for each of several ids takes out as many entries as there are of it, up to all.
LEMMA OccurrencesLremAll ==
  ASSUME NEW list \in Seq(Jobs), NEW ids \in Seq(Jobs)
  PROVE  /\ LremAll(list, ids) \in Seq(Jobs)
         /\ \A j : Occurrences(LremAll(list, ids), j) =
                     IF Occurrences(ids, j) <= Occurrences(list, j)
                     THEN Occurrences(list, j) - Occurrences(ids, j) ELSE 0
<1> DEFINE Right(s) == /\ LremAll(list, s) \in Seq(Jobs)
                       /\ \A j : Occurrences(LremAll(list, s), j) =
                                   IF Occurrences(s, j) <= Occurrences(list, j)
                                   THEN Occurrences(list, j) - Occurrences(s, j) ELSE 0
           S == {n \in Nat : \A s \in Seq(Jobs) : Len(s) = n => Right(s)}
<1>1. 0 \in S
  <2>1. SUFFICES ASSUME NEW s \in Seq(Jobs), Len(s) = 0 PROVE Right(s)
    OBVIOUS
  <2>2. s = <<>>
    BY <2>1, EmptySeq
  <2>3. LremAll(list, s) = list
    BY <2>2, LremAllEmpty
  <2>4. \A j : Occurrences(s, j) = 0 /\ Occurrences(list, j) \in Nat
    <3>1. \A j : ~Contains(s, j)
      BY <2>1 DEF Contains
    <3>2. QED
      BY <3>1, OccurrencesCount
  <2>5. QED
    BY <2>3, <2>4
<1>2. ASSUME NEW n \in Nat, n \in S PROVE n + 1 \in S
  <2>1. SUFFICES ASSUME NEW s \in Seq(Jobs), Len(s) = n + 1 PROVE Right(s)
    OBVIOUS
  <2>2. PICK t \in Seq(Jobs), k \in Jobs : s = Append(t, k)
    <3>1. s # <<>>
      BY <2>1, EmptySeq
    <3>2. QED
      BY <3>1, SequenceEmptyOrAppend
  <2>3. Len(t) = n
    BY <2>1, <2>2, AppendProperties, LenProperties
  <2>4. Right(t)
    BY <1>2, <2>3
  <2>5. LremAll(list, s) = Lrem(LremAll(list, t), k)
    BY <2>2, LremAllAppend
  <2> DEFINE left == LremAll(list, t)
  <2>6. \A j : /\ Occurrences(t, j) \in Nat /\ Occurrences(list, j) \in Nat
               /\ Occurrences(s, j) = Occurrences(t, j) + IF j = k THEN 1 ELSE 0
               /\ Occurrences(left, j) \in Nat /\ (Occurrences(left, j) > 0 <=> Contains(left, j))
    BY <2>2, <2>4, OccurrencesCount, OccurrencesAppend
  <2>7. /\ Lrem(left, k) \in Seq(Jobs)
        /\ \A j : Occurrences(Lrem(left, k), j) =
                    IF j = k /\ Contains(left, k) THEN Occurrences(left, j) - 1
                    ELSE Occurrences(left, j)
    BY <2>4, OccurrencesLrem
  <2>8. \A j : Occurrences(left, j) = IF Occurrences(t, j) <= Occurrences(list, j)
                                      THEN Occurrences(list, j) - Occurrences(t, j) ELSE 0
    BY <2>4
  <2> HIDE DEF left
  <2>9. \A j : Occurrences(Lrem(left, k), j) = IF Occurrences(s, j) <= Occurrences(list, j)
                                               THEN Occurrences(list, j) - Occurrences(s, j) ELSE 0
    <3>1. SUFFICES ASSUME NEW j
                   PROVE Occurrences(Lrem(left, k), j) =
                           IF Occurrences(s, j) <= Occurrences(list, j)
                           THEN Occurrences(list, j) - Occurrences(s, j) ELSE 0
      OBVIOUS
    <3>2. CASE j # k
      BY <3>2, <2>6, <2>7, <2>8
    <3>3. CASE j = k
      BY <3>3, <2>6, <2>7, <2>8
    <3>4. QED
      BY <3>2, <3>3
  <2>10. QED
    BY <2>5, <2>7, <2>9 DEF left
<1>3. Nat \subseteq S
  <2> HIDE DEF S
  <2>1. QED
    BY <1>1, <1>2, InductiveSet
<1>4. QED
  BY <1>3, LenProperties

\* The jobs of an experiment as a list.
LEMMA AllJobsListed ==
  IsFiniteSet(Jobs) => SetToSeq(Jobs) \in Seq(Jobs)
<1>1. SUFFICES ASSUME IsFiniteSet(Jobs) PROVE SetToSeq(Jobs) \in Seq(Jobs)
  OBVIOUS
<1>2. Cardinality(Jobs) \in Nat /\ ExistsBijection(1..Cardinality(Jobs), Jobs)
  BY <1>1, FS_CardinalityType
<1>3. \E f \in [1..Cardinality(Jobs) -> Jobs] : IsInjective(f)
  BY <1>2 DEF ExistsBijection, Bijection, Injection, IsInjective
<1>4. SetToSeq(Jobs) \in [1..Cardinality(Jobs) -> Jobs]
  BY <1>3 DEF SetToSeq
<1>5. QED
  BY <1>2, <1>4

-------------------------------------------------------------------------------
(* 2. The queue                                                            *)

\* The types of the hashes and of the workers' locals.
JobRecords == [status : JobStatus, claimed : Claims]

WorkerRecords == [at : {"top", "claiming", "popped", "holding"} \union InScan,
                  job : Jobs \union {NoJob}, scan : Seq(Jobs), seen : Claims,
                  stuck : Seq(Jobs)]

QueueTyped ==
  /\ queue \in Seq(Jobs) /\ processing \in Seq(Jobs)
  /\ job \in [Jobs -> JobRecords]
  /\ worker \in [Workers -> WorkerRecords]
  /\ up \subseteq Workers
  /\ enqueues \in 0..MaxEnqueues /\ crashes \in 0..MaxCrashes

\* The entries of a job in the two lists.
Entries(j) == Occurrences(queue, j) + Occurrences(processing, j)

Unfinished(j) == job[j].status \in {"QUEUED", "RUNNING"}

\* What a worker knows at each point of its loop.
Knows(w) ==
  /\ IF worker[w].at \in {"popped", "holding"} THEN worker[w].job \in Jobs
                                                ELSE worker[w].job = NoJob
  /\ worker[w].at \notin InScan => worker[w].stuck = <<>>
  /\ worker[w].at \in {"judging", "dropping"} => worker[w].scan # <<>>

\* What is left of a scan and what it found are entries of the processing list.
ScanFits(w) ==
  worker[w].at \in InScan =>
    \A j \in Jobs : Occurrences(worker[w].scan, j) + Occurrences(worker[w].stuck, j)
                      <= Occurrences(processing, j)

\* The job in the hands of a worker has an entry in the processing list.
Entered(w) ==
  worker[w].at \in {"popped", "holding"} => Occurrences(processing, worker[w].job) > 0

\* A job that was queued again after its cancellation was read does not need the entry
\* that is about to be dropped.
DropFits(w) ==
  worker[w].at = "dropping" =>
    \A j \in Jobs : j = Head(worker[w].scan) /\ Unfinished(j) => Occurrences(queue, j) > 0

\* The only worker there is.
Sole(w) ==
  /\ \A v \in Workers : v # w => worker[v] = WorkerStart
  /\ ScanFits(w) /\ Entered(w) /\ DropFits(w)
  /\ \A j \in Jobs : Unfinished(j) => Entries(j) > 0

\* The workers that have popped a job or hold it.
Holders(j) == {w \in Workers : worker[w].job = j}

\* Where no worker dies, every entry of the processing list is in the hands of one.
Handed ==
  (\A w \in Workers : up # {w}) =>
    \A j \in Jobs : Occurrences(processing, j) <= Cardinality(Holders(j))

\* The inductive invariant.  NeverLost needs what is said of a sole worker for its crash,
\* and what is said of several for the entry that one drops: by then the job may have
\* been queued again, and have been popped by another.
QueueInv ==
  /\ QueueTyped
  /\ \A w \in Workers : Knows(w) /\ (up = {w} => Sole(w))
  /\ Handed
  /\ NeverLost

LEMMA EntriesType ==
  ASSUME QueueTyped, NEW j
  PROVE  /\ Occurrences(queue, j) \in Nat /\ Occurrences(processing, j) \in Nat
         /\ Entries(j) \in Nat
         /\ Entries(j) > 0 <=> Contains(queue, j) \/ Contains(processing, j)
         /\ Occurrences(processing, j) > 0 <=> Contains(processing, j)
<1>1. /\ Occurrences(queue, j) \in Nat /\ (Occurrences(queue, j) > 0 <=> Contains(queue, j))
      /\ Occurrences(processing, j) \in Nat
      /\ Occurrences(processing, j) > 0 <=> Contains(processing, j)
  BY OccurrencesCount DEF QueueTyped
<1>2. QED
  BY <1>1 DEF Entries

LEMMA NoEntries ==
  ASSUME NEW j
  PROVE  Occurrences(<<>>, j) = 0
<1> DEFINE none == <<>>
<1>1. none \in Seq(Jobs) /\ Len(none) = 0
  BY EmptySeq
<1> HIDE DEF none
<1>2. ~Contains(none, j)
  BY <1>1 DEF Contains
<1>3. Occurrences(none, j) \in Nat /\ (Occurrences(none, j) > 0 <=> Contains(none, j))
  BY <1>1, OccurrencesCount
<1>4. Occurrences(none, j) = 0
  BY <1>2, <1>3
<1>5. QED
  BY <1>4 DEF none

\* In the hands of a worker.
InHand(j) == \E w \in Workers : worker[w].job = j \/ Contains(worker[w].stuck, j)

\* Enough for NeverLost: an entry, or a worker that has the job in its hands.
LEMMA FoundAgain ==
  ASSUME QueueTyped', \A j \in Jobs : Unfinished(j)' => Entries(j)' > 0 \/ InHand(j)'
  PROVE  NeverLost'
<1>1. \A j \in Jobs :
        /\ Occurrences(queue', j) \in Nat /\ (Occurrences(queue', j) > 0 <=> Contains(queue', j))
        /\ Occurrences(processing', j) \in Nat
        /\ Occurrences(processing', j) > 0 <=> Contains(processing', j)
  BY OccurrencesCount DEF QueueTyped
<1>2. QED
  BY <1>1 DEF NeverLost, Entries, InHand, Unfinished

\* And what NeverLost says.
LEMMA FoundBefore ==
  ASSUME QueueInv, NEW j \in Jobs, Unfinished(j)
  PROVE  Entries(j) > 0 \/ InHand(j)
BY EntriesType DEF QueueInv, NeverLost, InHand, Unfinished

\* The holders of a job are counted.
LEMMA HolderCount ==
  ASSUME NEW j
  PROVE  IsFiniteSet(Holders(j)) /\ Cardinality(Holders(j)) \in Nat
BY FS_Subset, FS_CardinalityType, JobQueueAssumption DEF Holders

\* Workers keep their jobs, and the processing list grows by no entry.
LEMMA HandedKept ==
  ASSUME QueueInv, QueueTyped', up' = up, \A v \in Workers : worker'[v].job = worker[v].job,
         \A j \in Jobs : Occurrences(processing', j) <= Occurrences(processing, j)
  PROVE  Handed'
<1>1. \A j \in Jobs : /\ Occurrences(processing, j) \in Nat /\ Occurrences(processing', j) \in Nat
                      /\ Cardinality(Holders(j)) \in Nat
  BY OccurrencesCount, HolderCount DEF QueueInv, QueueTyped
<1>2. \A j : Holders(j)' = Holders(j)
  BY DEF Holders
<1>3. QED
  BY <1>1, <1>2 DEF QueueInv, Handed

LEMMA QueueInitHolds ==
  ASSUME JobQueueInit
  PROVE  QueueInv /\ \A j \in Jobs : Entries(j) = 0 /\ ~Unfinished(j)
<1>1. /\ queue = <<>> /\ processing = <<>> /\ enqueues = 0 /\ crashes = 0
      /\ job = [j \in Jobs |-> [status |-> "absent", claimed |-> "never"]]
      /\ worker = [w \in Workers |-> WorkerStart] /\ up \subseteq Workers
  BY DEF JobQueueInit
<1>2. <<>> \in Seq(Jobs)
  BY EmptySeq
<1>3. WorkerStart \in WorkerRecords /\ [status |-> "absent", claimed |-> "never"] \in JobRecords
  BY <1>2 DEF WorkerStart, WorkerRecords, JobRecords, JobStatus, Claims
<1>4. QueueTyped
  BY <1>1, <1>2, <1>3, JobQueueAssumption DEF QueueTyped
<1>5. \A j : Occurrences(queue, j) = 0 /\ Occurrences(processing, j) = 0
  BY <1>1, NoEntries
<1>6. \A j \in Jobs : Entries(j) = 0 /\ ~Unfinished(j)
  BY <1>1, <1>5 DEF Entries, Unfinished
<1>7. \A w \in Workers : Knows(w) /\ Sole(w)
  BY <1>1, <1>6 DEF Knows, Sole, ScanFits, Entered, DropFits, WorkerStart, InScan
<1>8. NeverLost
  BY <1>6 DEF NeverLost, Unfinished
<1>9. Handed
  BY <1>4, <1>5, HolderCount DEF Handed
<1>10. QED
  BY <1>4, <1>6, <1>7, <1>8, <1>9 DEF QueueInv

-------------------------------------------------------------------------------
\* enqueue_experiment().
LEMMA EnqueueEffect ==
  ASSUME QueueTyped, NEW ids \in Seq(Jobs), Enqueue(ids)
  PROVE  /\ QueueTyped' /\ UNCHANGED <<processing, worker, up>>
         /\ \A j \in Jobs : /\ Entries(j)' = Entries(j) + Occurrences(ids, j)
                            /\ Occurrences(queue, j)' = Occurrences(queue, j) + Occurrences(ids, j)
                            /\ Occurrences(ids, j) \in Nat
                            /\ Unfinished(j)' <=> Unfinished(j) \/ Occurrences(ids, j) > 0
<1>1. /\ queue' = queue \o ids /\ UNCHANGED <<processing, worker, up, crashes>>
      /\ job' = [j \in Jobs |-> IF Contains(ids, j) THEN [status |-> "QUEUED", claimed |-> "never"]
                                ELSE job[j]]
      /\ enqueues' \in 0..MaxEnqueues
  BY JobQueueAssumption DEF Enqueue, QueueTyped
<1>2. \A j \in Jobs : /\ queue' \in Seq(Jobs)
                      /\ Occurrences(queue', j) = Occurrences(queue, j) + Occurrences(ids, j)
  BY <1>1, OccurrencesConcat DEF QueueTyped
<1>3. queue' \in Seq(Jobs)
  BY <1>1 DEF QueueTyped
<1>4. [status |-> "QUEUED", claimed |-> "never"] \in JobRecords
  BY DEF JobRecords, JobStatus, Claims
<1>5. QueueTyped'
  BY <1>1, <1>3, <1>4 DEF QueueTyped
<1>6. \A j \in Jobs : /\ Occurrences(ids, j) \in Nat /\ (Occurrences(ids, j) > 0 <=> Contains(ids, j))
  BY OccurrencesCount
<1>7. \A j \in Jobs : Occurrences(queue, j) \in Nat /\ Occurrences(processing, j) \in Nat
  BY EntriesType
<1>8. \A j \in Jobs : Unfinished(j)' <=> Unfinished(j) \/ Occurrences(ids, j) > 0
  BY <1>1, <1>6 DEF Unfinished
<1>9. \A j \in Jobs : Entries(j)' = Entries(j) + Occurrences(ids, j)
  BY <1>1, <1>2, <1>6, <1>7 DEF Entries
<1>10. QED
  BY <1>1, <1>2, <1>5, <1>6, <1>8, <1>9

LEMMA EnqueuePreserves ==
  ASSUME QueueInv, NEW ids \in Seq(Jobs), Enqueue(ids)
  PROVE  QueueInv'
<1>1. /\ QueueTyped' /\ UNCHANGED <<processing, worker, up>>
      /\ \A j \in Jobs : /\ Entries(j)' = Entries(j) + Occurrences(ids, j)
                         /\ Occurrences(queue, j)' = Occurrences(queue, j) + Occurrences(ids, j)
                         /\ Occurrences(ids, j) \in Nat
                         /\ Unfinished(j)' <=> Unfinished(j) \/ Occurrences(ids, j) > 0
  BY EnqueueEffect DEF QueueInv
<1>2. \A j \in Jobs : Entries(j) \in Nat /\ Occurrences(queue, j) \in Nat
  BY EntriesType DEF QueueInv
<1>3. ASSUME NEW w \in Workers PROVE Knows(w)' /\ (up = {w} => Sole(w)')
  <2>1. Knows(w)' /\ (ScanFits(w) => ScanFits(w)') /\ (Entered(w) => Entered(w)')
    BY <1>1 DEF QueueInv, Knows, ScanFits, Entered
  <2>2. DropFits(w) => DropFits(w)'
    BY <1>1, <1>2 DEF DropFits
  <2>3. QED
    BY <1>1, <1>2, <2>1, <2>2 DEF QueueInv, Sole
<1>4. NeverLost'
  <2>1. SUFFICES ASSUME NEW j \in Jobs, Unfinished(j)' PROVE Entries(j)' > 0 \/ InHand(j)'
    BY <1>1, FoundAgain
  <2>2. Unfinished(j) => Entries(j) > 0 \/ InHand(j)
    BY FoundBefore
  <2>3. InHand(j) => InHand(j)'
    BY <1>1 DEF InHand
  <2>4. QED
    BY <1>1, <1>2, <2>1, <2>2, <2>3
<1>5. Handed'
  <2>1. \A j \in Jobs : Occurrences(processing, j) \in Nat
    BY EntriesType DEF QueueInv
  <2>2. QED
    BY <1>1, <2>1, HandedKept
<1>6. QED
  BY <1>1, <1>3, <1>4, <1>5 DEF QueueInv

\* It is enough to look at the worker that moves.
LEMMA MovePreserves ==
  ASSUME QueueInv, NEW w \in Workers, up' = up, \A v \in Workers : up = {v} => v = w,
         \A v \in Workers : v # w => worker'[v] = worker[v],
         QueueTyped', Knows(w)', Handed',
         up = {w} => /\ ScanFits(w)' /\ Entered(w)' /\ DropFits(w)'
                     /\ \A j \in Jobs : Unfinished(j)' => Entries(j)' > 0,
         \A j \in Jobs : Unfinished(j)' => Entries(j)' > 0 \/ InHand(j)'
  PROVE  QueueInv'
<1>1. NeverLost'
  BY FoundAgain
<1>2. ASSUME NEW v \in Workers PROVE Knows(v)' /\ (up' = {v} => Sole(v)')
  <2>1. Knows(v)'
    BY DEF QueueInv, Knows
  <2>2. ASSUME up' = {v} PROVE Sole(v)'
    BY <2>2 DEF QueueInv, Sole
  <2>3. QED
    BY <2>1, <2>2
<1>3. QED
  BY <1>1, <1>2 DEF QueueInv

\* A job another worker has in its hands stays there.
LEMMA OtherHands ==
  ASSUME NEW w \in Workers, \A v \in Workers : v # w => worker'[v] = worker[v],
         NEW j \in Jobs, InHand(j),
         worker[w].job = j \/ Contains(worker[w].stuck, j) => Entries(j)' > 0 \/ InHand(j)'
  PROVE  Entries(j)' > 0 \/ InHand(j)'
BY DEF InHand

\* The steps of the loop that touch no list, but for the judgement of an id.
LEMMA LoopMovePreserves ==
  ASSUME QueueInv, NEW w \in Workers, w \in up, BeginScan(w) \/ PopTimeout(w) \/ ReadPayload(w)
  PROVE  QueueInv' /\ \A j \in Jobs : Entries(j)' = Entries(j) /\ (Unfinished(j)' <=> Unfinished(j))
<1>1. /\ UNCHANGED <<queue, processing, job, enqueues, crashes, up>>
      /\ \/ /\ worker[w].at = "top"
            /\ worker' = [worker EXCEPT ![w].at = "scanning", ![w].scan = processing, ![w].stuck = <<>>]
         \/ worker' = [worker EXCEPT ![w].at = "top"] /\ worker[w].at = "claiming"
         \/ /\ worker[w].at = "scanning" /\ worker[w].scan # <<>>
            /\ worker' = [worker EXCEPT ![w].at = "judging",
                                        ![w].seen = job[Head(worker[w].scan)].claimed]
  BY DEF BeginScan, PopTimeout, ReadPayload
<1>2. /\ worker \in [Workers -> WorkerRecords] /\ worker[w] \in WorkerRecords
      /\ processing \in Seq(Jobs) /\ <<>> \in Seq(Jobs) /\ job \in [Jobs -> JobRecords]
      /\ Knows(w)
  BY EmptySeq DEF QueueInv, QueueTyped
<1>3. /\ \A v \in Workers : v # w => worker'[v] = worker[v]
      /\ worker'[w].job = worker[w].job /\ worker'[w].stuck = worker[w].stuck
      /\ worker' \in [Workers -> WorkerRecords]
      /\ worker[w].at \notin {"popped", "holding"}
      /\ \/ /\ worker'[w].at = "scanning" /\ worker'[w].scan = processing
            /\ worker[w].stuck = <<>>
         \/ worker'[w].at = "top" /\ worker[w].stuck = <<>>
         \/ /\ worker'[w].at = "judging" /\ worker[w].at = "scanning"
            /\ worker'[w].scan = worker[w].scan /\ worker[w].scan # <<>>
  <2>1. CASE worker' = [worker EXCEPT ![w].at = "top"] /\ worker[w].at = "claiming"
    BY <1>2, <2>1 DEF WorkerRecords, Knows, InScan
  <2>2. CASE /\ worker[w].at = "top"
             /\ worker' = [worker EXCEPT ![w].at = "scanning", ![w].scan = processing, ![w].stuck = <<>>]
    BY <1>2, <2>2 DEF WorkerRecords, Knows, InScan
  <2>3. CASE /\ worker[w].at = "scanning" /\ worker[w].scan # <<>>
             /\ worker' = [worker EXCEPT ![w].at = "judging",
                                         ![w].seen = job[Head(worker[w].scan)].claimed]
    <3>1. worker[w].scan \in Seq(Jobs)
      BY <1>2 DEF WorkerRecords
    <3>2. job[Head(worker[w].scan)].claimed \in Claims
      BY <1>2, <2>3, <3>1, OccurrencesHead DEF JobRecords
    <3>3. QED
      BY <1>2, <2>3, <3>2 DEF WorkerRecords, InScan
  <2>4. QED
    BY <1>1, <2>1, <2>2, <2>3
<1>4. QueueTyped'
  BY <1>1, <1>3 DEF QueueInv, QueueTyped
<1>5. Knows(w)' /\ Entered(w)' /\ DropFits(w)'
  BY <1>1, <1>2, <1>3 DEF Knows, Entered, DropFits, InScan
<1>6. \A j \in Jobs : Entries(j)' = Entries(j) /\ (Unfinished(j)' <=> Unfinished(j))
  BY <1>1 DEF Entries, Unfinished
<1>7. \A j \in Jobs : Occurrences(processing, j) \in Nat /\ Occurrences(<<>>, j) = 0
  BY <1>2, NoEntries, EntriesType DEF QueueInv
<1>8. up = {w} => ScanFits(w)'
  <2>1. CASE worker'[w].at = "judging"
    BY <1>1, <1>3, <2>1 DEF QueueInv, Sole, ScanFits, InScan
  <2>2. CASE worker'[w].at # "judging"
    BY <1>1, <1>3, <1>7, <2>2 DEF ScanFits, InScan
  <2>3. QED
    BY <2>1, <2>2
<1>9. ASSUME NEW j \in Jobs, Unfinished(j)' PROVE Entries(j)' > 0 \/ InHand(j)'
  <2>1. Entries(j) > 0 \/ InHand(j)
    BY <1>6, <1>9, FoundBefore
  <2>2. InHand(j) => InHand(j)'
    BY <1>3 DEF InHand
  <2>3. QED
    BY <1>6, <2>1, <2>2
<1>10. up = {w} => \A j \in Jobs : Unfinished(j)' => Entries(j)' > 0
  BY <1>6 DEF QueueInv, Sole
<1>11. Handed'
  BY <1>1, <1>3, <1>4, <1>7, HandedKept
<1>12. QED
  BY <1>1, <1>3, <1>4, <1>5, <1>6, <1>8, <1>9, <1>10, <1>11, MovePreserves

\* The scan goes on to the next id, and may have found one more stuck job.
LEMMA NextIdEffect ==
  ASSUME QueueInv, NEW w \in Workers, worker[w].at \in InScan, worker[w].scan # <<>>,
         NEW found, found = <<>> \/ found = <<Head(worker[w].scan)>>, NextId(w, found)
  PROVE  /\ \A v \in Workers : v # w => worker'[v] = worker[v]
         /\ worker' \in [Workers -> WorkerRecords]
         /\ worker'[w].at = "scanning" /\ worker'[w].job = worker[w].job
         /\ \A j \in Jobs :
              /\ Contains(worker[w].stuck, j) => Contains(worker'[w].stuck, j)
              /\ Occurrences(worker'[w].scan, j) + Occurrences(worker'[w].stuck, j) =
                   Occurrences(worker[w].scan, j) + Occurrences(worker[w].stuck, j)
                   - IF found = <<>> /\ j = Head(worker[w].scan) THEN 1 ELSE 0
<1> DEFINE h == Head(worker[w].scan)
           t == Tail(worker[w].scan)
           more == worker[w].stuck \o found
<1>1. /\ worker \in [Workers -> WorkerRecords] /\ worker[w] \in WorkerRecords
      /\ worker[w].scan \in Seq(Jobs) /\ worker[w].stuck \in Seq(Jobs)
  BY DEF QueueInv, QueueTyped, WorkerRecords
<1>2. /\ h \in Jobs /\ t \in Seq(Jobs)
      /\ \A j : Occurrences(worker[w].scan, j) = (IF j = h THEN 1 ELSE 0) + Occurrences(t, j)
  BY <1>1, OccurrencesHead
<1>3. worker' = [worker EXCEPT ![w] = [@ EXCEPT !.at = "scanning", !.scan = t, !.seen = "never",
                                                !.stuck = more]]
  BY <1>1 DEF NextId
<1> HIDE DEF h, t
<1>4. /\ found \in Seq(Jobs)
      /\ \A j \in Jobs : Occurrences(found, j) = IF found # <<>> /\ j = h THEN 1 ELSE 0
  <2>1. CASE found = <<>>
    BY <2>1, NoEntries, EmptySeq
  <2>2. CASE found # <<>>
    <3>1. found = <<h>>
      BY <2>2 DEF h
    <3>2. <<h>> \in Seq(Jobs) /\ \A j : Occurrences(<<h>>, j) = IF j = h THEN 1 ELSE 0
      BY <1>2, OccurrencesOne
    <3>3. QED
      BY <2>2, <3>1, <3>2
  <2>3. QED
    BY <2>1, <2>2
<1>5. /\ more \in Seq(Jobs)
      /\ \A j \in Jobs : Occurrences(more, j) = Occurrences(worker[w].stuck, j) + Occurrences(found, j)
  BY <1>1, <1>4, OccurrencesConcat
<1> HIDE DEF more
<1>6. /\ \A v \in Workers : v # w => worker'[v] = worker[v]
      /\ worker' \in [Workers -> WorkerRecords]
      /\ worker'[w].at = "scanning" /\ worker'[w].job = worker[w].job
      /\ worker'[w].scan = t /\ worker'[w].stuck = more
  BY <1>1, <1>2, <1>3, <1>5 DEF WorkerRecords, InScan, Claims
<1>7. ASSUME NEW j \in Jobs
      PROVE  /\ Contains(worker[w].stuck, j) => Contains(more, j)
             /\ Occurrences(t, j) + Occurrences(more, j) =
                  Occurrences(worker[w].scan, j) + Occurrences(worker[w].stuck, j)
                  - IF found = <<>> /\ j = h THEN 1 ELSE 0
  <2>1. /\ Occurrences(t, j) \in Nat /\ Occurrences(worker[w].stuck, j) \in Nat
        /\ Occurrences(found, j) \in Nat /\ Occurrences(more, j) \in Nat
        /\ Occurrences(worker[w].stuck, j) > 0 <=> Contains(worker[w].stuck, j)
        /\ Occurrences(more, j) > 0 <=> Contains(more, j)
    BY <1>1, <1>2, <1>4, <1>5, OccurrencesCount
  <2>2. QED
    BY <1>2, <1>4, <1>5, <2>1
<1>8. QED
  BY <1>6, <1>7 DEF h

\* The judgement of an id touches no list.
LEMMA JudgeItemPreserves ==
  ASSUME QueueInv, NEW w \in Workers, w \in up, JudgeItem(w)
  PROVE  QueueInv' /\ \A j \in Jobs : Entries(j)' = Entries(j) /\ (Unfinished(j)' <=> Unfinished(j))
<1> DEFINE h == Head(worker[w].scan)
<1>1. /\ worker \in [Workers -> WorkerRecords] /\ worker[w] \in WorkerRecords
      /\ worker[w].at = "judging" /\ worker[w].at \in InScan /\ worker[w].scan # <<>> /\ Knows(w)
  BY DEF QueueInv, QueueTyped, JudgeItem, Knows, InScan
<1>2. /\ UNCHANGED <<queue, processing, job, enqueues, crashes, up>>
      /\ \/ job[h].status = "CANCELLED" /\ worker' = [worker EXCEPT ![w].at = "dropping"]
         \/ \E found \in {<<>>, <<h>>} : NextId(w, found)
  BY DEF JudgeItem
<1>3. /\ \A v \in Workers : v # w => worker'[v] = worker[v]
      /\ worker' \in [Workers -> WorkerRecords]
      /\ worker'[w].at \in InScan \ {"judging"} /\ worker'[w].job = worker[w].job
      /\ worker'[w].at = "dropping" =>
           worker'[w].scan = worker[w].scan /\ job[h].status = "CANCELLED"
      /\ \A j \in Jobs :
           /\ Contains(worker[w].stuck, j) => Contains(worker'[w].stuck, j)
           /\ Occurrences(worker'[w].scan, j) + Occurrences(worker'[w].stuck, j) <=
                Occurrences(worker[w].scan, j) + Occurrences(worker[w].stuck, j)
  <2>1. \A j \in Jobs : Occurrences(worker[w].scan, j) \in Nat /\ Occurrences(worker[w].stuck, j) \in Nat
    BY <1>1, OccurrencesCount DEF WorkerRecords
  <2>2. CASE job[h].status = "CANCELLED" /\ worker' = [worker EXCEPT ![w].at = "dropping"]
    <3>1. /\ worker'[w].scan = worker[w].scan /\ worker'[w].stuck = worker[w].stuck
          /\ worker'[w].at = "dropping" /\ worker'[w].job = worker[w].job
          /\ worker' \in [Workers -> WorkerRecords]
          /\ \A v \in Workers : v # w => worker'[v] = worker[v]
      BY <1>1, <2>2 DEF WorkerRecords, InScan
    <3>2. QED
      BY <2>1, <2>2, <3>1 DEF InScan
  <2>3. CASE \E found \in {<<>>, <<h>>} : NextId(w, found)
    <3>1. PICK found \in {<<>>, <<h>>} : NextId(w, found)
      BY <2>3
    <3>2. /\ \A v \in Workers : v # w => worker'[v] = worker[v]
          /\ worker' \in [Workers -> WorkerRecords]
          /\ worker'[w].at = "scanning" /\ worker'[w].job = worker[w].job
          /\ \A j \in Jobs :
               /\ Contains(worker[w].stuck, j) => Contains(worker'[w].stuck, j)
               /\ Occurrences(worker'[w].scan, j) + Occurrences(worker'[w].stuck, j) =
                    Occurrences(worker[w].scan, j) + Occurrences(worker[w].stuck, j)
                    - IF found = <<>> /\ j = h THEN 1 ELSE 0
      BY <1>1, <3>1, NextIdEffect
    <3>3. QED
      BY <2>1, <3>2 DEF InScan
  <2>4. QED
    BY <1>2, <2>2, <2>3
<1> HIDE DEF h
<1>4. QueueTyped'
  BY <1>2, <1>3 DEF QueueInv, QueueTyped
<1>5. \A j \in Jobs : Entries(j)' = Entries(j) /\ (Unfinished(j)' <=> Unfinished(j))
  BY <1>2 DEF Entries, Unfinished
<1>6. Knows(w)' /\ Entered(w)'
  BY <1>1, <1>3 DEF Knows, Entered, InScan
<1>7. DropFits(w)'
  <2>1. worker'[w].at = "dropping" => ~Unfinished(h) /\ h = Head(worker'[w].scan)
    BY <1>3 DEF Unfinished, h
  <2>2. QED
    BY <1>5, <2>1 DEF DropFits
<1>8. up = {w} => ScanFits(w)' /\ \A j \in Jobs : Unfinished(j)' => Entries(j)' > 0
  <2>1. SUFFICES ASSUME up = {w} PROVE ScanFits(w)' /\ \A j \in Jobs : Unfinished(j)' => Entries(j)' > 0
    OBVIOUS
  <2>2. /\ \A j \in Jobs : Unfinished(j) => Entries(j) > 0
        /\ \A j \in Jobs : Occurrences(worker[w].scan, j) + Occurrences(worker[w].stuck, j)
                             <= Occurrences(processing, j)
    BY <1>1, <2>1 DEF QueueInv, Sole, ScanFits
  <2>3. \A j \in Jobs :
          /\ Occurrences(worker[w].scan, j) \in Nat /\ Occurrences(worker[w].stuck, j) \in Nat
          /\ Occurrences(worker'[w].scan, j) \in Nat /\ Occurrences(worker'[w].stuck, j) \in Nat
          /\ Occurrences(processing, j) \in Nat
    BY <1>1, <1>3, OccurrencesCount, EntriesType DEF WorkerRecords, QueueInv
  <2>4. QED
    BY <1>2, <1>3, <1>5, <2>2, <2>3 DEF ScanFits
<1>9. ASSUME NEW j \in Jobs, Unfinished(j)' PROVE Entries(j)' > 0 \/ InHand(j)'
  <2>1. Entries(j) > 0 \/ InHand(j)
    BY <1>5, <1>9, FoundBefore
  <2>2. InHand(j) => InHand(j)'
    BY <1>3 DEF InHand
  <2>3. QED
    BY <1>5, <2>1, <2>2
<1>10. Handed'
  <2>1. \A j \in Jobs : Occurrences(processing, j) \in Nat
    BY EntriesType DEF QueueInv
  <2>2. QED
    BY <1>2, <1>3, <1>4, <2>1, HandedKept
<1>11. QED
  BY <1>2, <1>3, <1>4, <1>5, <1>6, <1>7, <1>8, <1>9, <1>10, MovePreserves

\* With one worker every unfinished job has one entry, and no other job has one.
Exact(w) == up = {w} => \A j \in Jobs : Entries(j) = IF Unfinished(j) THEN 1 ELSE 0

\* A cancelled job loses an entry, whatever became of it since its status was read.
LEMMA DropItemPreserves ==
  ASSUME QueueInv, NEW w \in Workers, w \in up, DropItem(w)
  PROVE  QueueInv' /\ (Exact(w) => Exact(w)')
<1> DEFINE h == Head(worker[w].scan)
           none == <<>>
<1>1. /\ worker \in [Workers -> WorkerRecords] /\ worker[w] \in WorkerRecords
      /\ worker[w].at = "dropping" /\ worker[w].at \in InScan /\ worker[w].scan # <<>>
      /\ worker[w].scan \in Seq(Jobs) /\ processing \in Seq(Jobs)
  BY DEF QueueInv, QueueTyped, WorkerRecords, DropItem, Knows, InScan
<1>2. /\ UNCHANGED <<queue, job, enqueues, crashes, up>>
      /\ processing' = Lrem(processing, h) /\ NextId(w, none)
  BY DEF DropItem
<1>3. /\ h \in Jobs
      /\ Occurrences(worker[w].scan, h) = 1 + Occurrences(Tail(worker[w].scan), h)
      /\ Occurrences(Tail(worker[w].scan), h) \in Nat
  BY <1>1, OccurrencesHead, OccurrencesCount
<1>4. /\ \A v \in Workers : v # w => worker'[v] = worker[v]
      /\ worker' \in [Workers -> WorkerRecords]
      /\ worker'[w].at = "scanning" /\ worker'[w].job = worker[w].job
      /\ \A j \in Jobs :
           /\ Contains(worker[w].stuck, j) => Contains(worker'[w].stuck, j)
           /\ Occurrences(worker'[w].scan, j) + Occurrences(worker'[w].stuck, j) =
                Occurrences(worker[w].scan, j) + Occurrences(worker[w].stuck, j)
                - IF j = h THEN 1 ELSE 0
  BY <1>1, <1>2, NextIdEffect
<1> HIDE DEF h, none
<1>5. /\ processing' \in Seq(Jobs)
      /\ \A j \in Jobs : Occurrences(processing', j) =
                           IF j = h /\ Contains(processing, h) THEN Occurrences(processing, j) - 1
                           ELSE Occurrences(processing, j)
  BY <1>1, <1>2, <1>3, OccurrencesLrem
<1>6. \A j \in Jobs :
        /\ Occurrences(queue, j) \in Nat /\ Occurrences(processing, j) \in Nat
        /\ Occurrences(processing, j) > 0 <=> Contains(processing, j)
        /\ Occurrences(worker[w].scan, j) \in Nat /\ Occurrences(worker[w].stuck, j) \in Nat
  BY <1>1, OccurrencesCount, EntriesType DEF WorkerRecords, QueueInv
<1>7. QueueTyped'
  BY <1>2, <1>4, <1>5 DEF QueueInv, QueueTyped
<1>8. Knows(w)' /\ Entered(w)' /\ DropFits(w)'
  BY <1>1, <1>4 DEF QueueInv, Knows, Entered, DropFits, InScan
<1>9. Handed'
  <2>1. \A j \in Jobs : Occurrences(processing', j) <= Occurrences(processing, j)
    BY <1>5, <1>6
  <2>2. QED
    BY <1>2, <1>4, <1>7, <2>1, HandedKept
<1>10. \A j \in Jobs : /\ Unfinished(j)' <=> Unfinished(j)
                       /\ j # h \/ ~Contains(processing, h) => Entries(j)' = Entries(j)
                       /\ Occurrences(queue, j) > 0 => Entries(j)' > 0
  <2>1. \A j \in Jobs : Occurrences(processing', j) \in Nat
    BY <1>5, OccurrencesCount
  <2>2. QED
    BY <1>2, <1>5, <1>6, <2>1 DEF Unfinished, Entries
<1>11. ASSUME up = {w}
       PROVE  /\ Occurrences(processing, h) > 0 /\ ScanFits(w)'
              /\ Unfinished(h) => Occurrences(queue, h) > 0
              /\ \A j \in Jobs : Unfinished(j)' => Entries(j)' > 0
  <2>1. /\ \A j \in Jobs : Unfinished(j) => Entries(j) > 0
        /\ \A j \in Jobs : Occurrences(worker[w].scan, j) + Occurrences(worker[w].stuck, j)
                             <= Occurrences(processing, j)
        /\ Unfinished(h) => Occurrences(queue, h) > 0
    BY <1>1, <1>3, <1>11 DEF QueueInv, Sole, ScanFits, DropFits, h
  <2>2. Occurrences(processing, h) > 0
    BY <1>3, <1>6, <2>1
  <2>3. \A j \in Jobs : Occurrences(processing', j) =
                          Occurrences(processing, j) - IF j = h THEN 1 ELSE 0
    BY <1>5, <1>6, <2>2
  <2>4. ScanFits(w)'
    <3>1. SUFFICES ASSUME NEW j \in Jobs
                   PROVE  Occurrences(worker'[w].scan, j) + Occurrences(worker'[w].stuck, j)
                            <= Occurrences(processing', j)
      BY DEF ScanFits
    <3>2. QED
      BY <1>4, <1>6, <2>1, <2>3
  <2>5. QED
    BY <1>10, <2>1, <2>2, <2>4
<1>12. ASSUME NEW j \in Jobs, Unfinished(j)' PROVE Entries(j)' > 0 \/ InHand(j)'
  <2>1. InHand(j) => InHand(j)'
    BY <1>4 DEF InHand
  <2>2. CASE j # h \/ ~Contains(processing, h)
    BY <1>10, <1>12, <2>1, <2>2, FoundBefore
  <2>3. CASE up = {w}
    BY <1>11, <1>12, <2>3
  <2>4. CASE up # {w} /\ j = h /\ Contains(processing, h)
    <3>1. \A v \in Workers : up # {v}
      BY <2>4
    <3>2. Occurrences(processing, h) > 0 /\ Occurrences(processing, h) <= Cardinality(Holders(h))
      BY <1>3, <1>6, <2>4, <3>1 DEF QueueInv, Handed
    <3>3. Cardinality(Holders(h)) # 0 /\ IsFiniteSet(Holders(h))
      BY <1>3, <1>6, <3>2, HolderCount
    <3>4. InHand(h)
      BY <3>3, FS_EmptySet DEF Holders, InHand
    <3>5. QED
      BY <2>1, <2>4, <3>4
  <2>5. QED
    BY <2>2, <2>3, <2>4
<1>13. Exact(w) => Exact(w)'
  <2>1. SUFFICES ASSUME up = {w}, \A j \in Jobs : Entries(j) = IF Unfinished(j) THEN 1 ELSE 0
                 PROVE  FALSE
    BY <1>2 DEF Exact
  <2>2. Occurrences(processing, h) > 0 /\ (Unfinished(h) => Occurrences(queue, h) > 0)
    BY <1>11, <2>1
  <2>3. Entries(h) = Occurrences(queue, h) + Occurrences(processing, h)
    BY DEF Entries
  <2>4. QED
    BY <1>3, <1>6, <2>1, <2>2, <2>3
<1>14. QED
  BY <1>2, <1>4, <1>7, <1>8, <1>9, <1>11, <1>12, <1>13, MovePreserves

\* The stuck jobs are moved to the queue, each of them as often as it was found.
LEMMA RequeuePreserves ==
  ASSUME QueueInv, NEW w \in Workers, w \in up, Requeue(w)
  PROVE  QueueInv' /\ (Exact(w) => Exact(w)')
<1> DEFINE s == worker[w].stuck
<1>1. /\ worker \in [Workers -> WorkerRecords] /\ worker[w] \in WorkerRecords /\ s \in Seq(Jobs)
      /\ worker[w].at = "scanning" /\ worker[w].at \in InScan /\ queue \in Seq(Jobs) /\ processing \in Seq(Jobs)
      /\ job \in [Jobs -> JobRecords] /\ Knows(w)
  BY DEF QueueInv, QueueTyped, WorkerRecords, Requeue, InScan
<1>2. /\ UNCHANGED <<enqueues, crashes, up>>
      /\ queue' = queue \o s /\ processing' = LremAll(processing, s)
      /\ job' = [j \in Jobs |-> IF Contains(s, j) THEN [job[j] EXCEPT !.status = "QUEUED"] ELSE job[j]]
      /\ worker' = [worker EXCEPT ![w].at = "claiming", ![w].stuck = <<>>]
  BY DEF Requeue
<1>3. /\ \A v \in Workers : v # w => worker'[v] = worker[v]
      /\ worker' \in [Workers -> WorkerRecords]
      /\ worker'[w].at = "claiming" /\ worker'[w].job = worker[w].job /\ worker'[w].stuck = <<>>
  <2>1. <<>> \in Seq(Jobs)
    BY EmptySeq
  <2>2. QED
    BY <1>1, <1>2, <2>1 DEF WorkerRecords
<1> HIDE DEF s
<1>4. /\ queue' \in Seq(Jobs) /\ processing' \in Seq(Jobs)
      /\ \A j \in Jobs : Occurrences(queue', j) = Occurrences(queue, j) + Occurrences(s, j)
      /\ \A j \in Jobs : Occurrences(processing', j) =
                           IF Occurrences(s, j) <= Occurrences(processing, j)
                           THEN Occurrences(processing, j) - Occurrences(s, j) ELSE 0
  <2>1. queue \o s \in Seq(Jobs)
    BY <1>1
  <2>2. \A j \in Jobs : Occurrences(queue \o s, j) = Occurrences(queue, j) + Occurrences(s, j)
    BY <1>1, OccurrencesConcat
  <2>3. QED
    BY <1>1, <1>2, <2>1, <2>2, OccurrencesLremAll
<1>5. \A j \in Jobs : /\ Occurrences(queue, j) \in Nat /\ Occurrences(processing, j) \in Nat
                      /\ Occurrences(s, j) \in Nat /\ (Occurrences(s, j) > 0 <=> Contains(s, j))
  BY <1>1, OccurrencesCount
<1>6. \A j \in Jobs : Entries(j)' >= Entries(j) /\ (Occurrences(s, j) > 0 => Entries(j)' > 0)
  BY <1>4, <1>5 DEF Entries
<1>7. \A j \in Jobs : /\ job'[j] \in JobRecords
                      /\ Unfinished(j)' <=> Unfinished(j) \/ Occurrences(s, j) > 0
  BY <1>1, <1>2, <1>5 DEF Unfinished, JobRecords, JobStatus
<1>8. QueueTyped'
  <2>1. job' \in [Jobs -> JobRecords]
    BY <1>2, <1>7
  <2>2. QED
    BY <1>2, <1>3, <1>4, <2>1 DEF QueueInv, QueueTyped
<1>9. Knows(w)' /\ ScanFits(w)' /\ Entered(w)' /\ DropFits(w)'
  BY <1>1, <1>3 DEF Knows, ScanFits, Entered, DropFits, InScan
<1>10. ASSUME NEW j \in Jobs, Unfinished(j)' PROVE Entries(j)' > 0 \/ InHand(j)'
  <2>1. Entries(j) \in Nat /\ Entries(j)' \in Nat
    <3>1. /\ Occurrences(queue', j) \in Nat /\ Occurrences(processing', j) \in Nat
          /\ Occurrences(queue, j) \in Nat /\ Occurrences(processing, j) \in Nat
      BY <1>4, <1>5, OccurrencesCount
    <3>2. QED
      BY <3>1 DEF Entries
  <2>2. CASE Entries(j) > 0 \/ Occurrences(s, j) > 0
    BY <1>6, <2>1, <2>2
  <2>3. CASE ~(Entries(j) > 0) /\ ~(Occurrences(s, j) > 0)
    <3>1. InHand(j)
      BY <1>7, <1>10, <2>3, FoundBefore
    <3>2. worker[w].job = j \/ Contains(worker[w].stuck, j) => InHand(j)'
      BY <1>3, <1>5, <2>3 DEF InHand, s
    <3>3. QED
      BY <1>3, <3>1, <3>2, OtherHands
  <2>4. QED
    BY <2>2, <2>3
<1>11. up = {w} => \A j \in Jobs : Entries(j)' = Entries(j) /\ (Occurrences(s, j) > 0 => Entries(j) > 0)
  <2>1. SUFFICES ASSUME up = {w}, NEW j \in Jobs
                 PROVE  Entries(j)' = Entries(j) /\ (Occurrences(s, j) > 0 => Entries(j) > 0)
    OBVIOUS
  <2>2. Occurrences(worker[w].scan, j) \in Nat
    BY <1>1, OccurrencesCount DEF WorkerRecords
  <2>3. Occurrences(worker[w].scan, j) + Occurrences(s, j) <= Occurrences(processing, j)
    BY <1>1, <2>1 DEF QueueInv, Sole, ScanFits, s
  <2>4. QED
    BY <1>4, <1>5, <2>2, <2>3 DEF Entries
<1>12. up = {w} => \A j \in Jobs : Unfinished(j)' => Entries(j)' > 0
  BY <1>7, <1>11 DEF QueueInv, Sole
<1>13. Exact(w) => Exact(w)'
  <2>1. SUFFICES ASSUME up = {w}, \A j \in Jobs : Entries(j) = IF Unfinished(j) THEN 1 ELSE 0,
                        NEW j \in Jobs
                 PROVE  Entries(j)' = IF Unfinished(j)' THEN 1 ELSE 0
    BY <1>2 DEF Exact
  <2>2. Entries(j)' = Entries(j) /\ (Unfinished(j)' <=> Unfinished(j))
    BY <1>7, <1>11, <2>1
  <2>3. QED
    BY <2>1, <2>2
<1>14. Handed'
  <2>1. ASSUME NEW j \in Jobs PROVE Occurrences(processing', j) <= Occurrences(processing, j)
    <3>1. /\ Occurrences(processing, j) \in Nat /\ Occurrences(s, j) \in Nat
          /\ Occurrences(processing', j) = IF Occurrences(s, j) <= Occurrences(processing, j)
                                          THEN Occurrences(processing, j) - Occurrences(s, j) ELSE 0
      BY <1>4, <1>5
    <3>2. QED
      BY <3>1
  <2>2. QED
    BY <1>2, <1>3, <1>8, <2>1, HandedKept
<1>15. QED
  BY <1>2, <1>3, <1>8, <1>9, <1>10, <1>12, <1>13, <1>14, MovePreserves

\* BRPOPLPUSH moves one entry.
LEMMA PopPreserves ==
  ASSUME QueueInv, NEW w \in Workers, w \in up, Pop(w)
  PROVE  QueueInv' /\ (Exact(w) => Exact(w)')
<1> DEFINE h == Head(queue)
           t == Tail(queue)
<1>1. /\ worker \in [Workers -> WorkerRecords] /\ worker[w] \in WorkerRecords
      /\ worker[w].at = "claiming" /\ queue \in Seq(Jobs) /\ processing \in Seq(Jobs)
      /\ queue # <<>> /\ Knows(w)
  BY DEF QueueInv, QueueTyped, Pop
<1>2. /\ h \in Jobs /\ t \in Seq(Jobs)
      /\ \A j : Occurrences(queue, j) = (IF j = h THEN 1 ELSE 0) + Occurrences(t, j)
  BY <1>1, OccurrencesHead
<1> HIDE DEF h, t
<1>3. /\ queue' = t /\ processing' = <<h>> \o processing
      /\ worker' = [worker EXCEPT ![w].at = "popped", ![w].job = h]
      /\ UNCHANGED <<job, enqueues, crashes, up>>
  BY DEF Pop, h, t
<1>4. /\ \A v \in Workers : v # w => worker'[v] = worker[v]
      /\ worker' \in [Workers -> WorkerRecords]
      /\ worker'[w].at = "popped" /\ worker'[w].job = h /\ worker'[w].stuck = <<>>
      /\ worker[w].stuck = <<>> /\ worker[w].job \notin Jobs
  BY <1>1, <1>2, <1>3, JobQueueAssumption DEF WorkerRecords, Knows, InScan
<1>5. /\ processing' \in Seq(Jobs)
      /\ \A j : Occurrences(processing', j) = (IF j = h THEN 1 ELSE 0) + Occurrences(processing, j)
  <2>1. <<h>> \in Seq(Jobs) /\ \A j : Occurrences(<<h>>, j) = IF j = h THEN 1 ELSE 0
    BY <1>2, OccurrencesOne
  <2> DEFINE one == <<h>>
  <2> HIDE DEF one
  <2>2. \A j : /\ one \o processing \in Seq(Jobs)
               /\ Occurrences(one \o processing, j) = Occurrences(one, j) + Occurrences(processing, j)
    BY <1>1, <2>1, OccurrencesConcat DEF one
  <2>3. QED
    BY <1>3, <2>1, <2>2 DEF one
<1>6. \A j \in Jobs : /\ Occurrences(t, j) \in Nat /\ Occurrences(processing, j) \in Nat
  BY <1>1, <1>2, OccurrencesCount
<1>7. \A j \in Jobs : Entries(j)' = Entries(j) /\ (Unfinished(j)' <=> Unfinished(j))
  <2>1. SUFFICES ASSUME NEW j \in Jobs
                 PROVE  Entries(j)' = Entries(j) /\ (Unfinished(j)' <=> Unfinished(j))
    OBVIOUS
  <2>2. /\ Occurrences(queue, j) = (IF j = h THEN 1 ELSE 0) + Occurrences(t, j)
        /\ Occurrences(queue', j) = Occurrences(t, j)
        /\ Occurrences(processing', j) = (IF j = h THEN 1 ELSE 0) + Occurrences(processing, j)
        /\ Occurrences(t, j) \in Nat /\ Occurrences(processing, j) \in Nat
    BY <1>2, <1>3, <1>5, <1>6
  <2>3. Entries(j)' = Entries(j)
    BY <2>2 DEF Entries
  <2>4. QED
    BY <1>3, <2>3 DEF Unfinished
<1>8. QueueTyped'
  BY <1>2, <1>3, <1>4, <1>5 DEF QueueInv, QueueTyped
<1>9. Occurrences(processing', h) > 0
  BY <1>2, <1>5, <1>6
<1>10. Knows(w)' /\ ScanFits(w)' /\ Entered(w)' /\ DropFits(w)'
  BY <1>2, <1>4, <1>9 DEF Knows, ScanFits, Entered, DropFits, InScan
<1>11. ASSUME NEW j \in Jobs, Unfinished(j)' PROVE Entries(j)' > 0 \/ InHand(j)'
  <2>1. Entries(j) > 0 \/ InHand(j)
    BY <1>7, <1>11, FoundBefore
  <2>2. InHand(j) => InHand(j)'
    BY <1>4 DEF InHand
  <2>3. QED
    BY <1>7, <2>1, <2>2
<1>12. up = {w} => \A j \in Jobs : Unfinished(j)' => Entries(j)' > 0
  BY <1>7 DEF QueueInv, Sole
<1>13. Exact(w) => Exact(w)'
  BY <1>3, <1>7 DEF Exact
<1>14. Handed'
  <2>1. SUFFICES ASSUME \A v \in Workers : up # {v}, NEW j \in Jobs
                 PROVE  Occurrences(processing', j) <= Cardinality(Holders(j)')
    BY <1>3 DEF Handed
  <2>2. /\ Occurrences(processing, j) <= Cardinality(Holders(j))
        /\ IsFiniteSet(Holders(j)) /\ Cardinality(Holders(j)) \in Nat
    BY <2>1, HolderCount DEF QueueInv, Handed
  <2>3. CASE j = h
    <3>1. Holders(j)' = Holders(j) \cup {w} /\ w \notin Holders(j)
      BY <1>4, <2>3 DEF Holders
    <3>2. Cardinality(Holders(j) \cup {w}) = Cardinality(Holders(j)) + 1
      BY <2>2, <3>1, FS_AddElement
    <3>3. QED
      BY <1>5, <1>6, <2>2, <2>3, <3>1, <3>2
  <2>4. CASE j # h
    <3>1. Holders(j)' = Holders(j)
      BY <1>4, <2>4 DEF Holders
    <3>2. QED
      BY <1>5, <1>6, <2>2, <2>4, <3>1
  <2>5. QED
    BY <2>3, <2>4
<1>15. QED
  BY <1>3, <1>4, <1>8, <1>10, <1>11, <1>12, <1>13, <1>14, MovePreserves

\* The rest of claim_job().
LEMMA MarkClaimedPreserves ==
  ASSUME QueueInv, NEW w \in Workers, w \in up, MarkClaimed(w)
  PROVE  QueueInv' /\ (Exact(w) => Exact(w)')
<1> DEFINE k == worker[w].job
<1>1. /\ worker \in [Workers -> WorkerRecords] /\ worker[w] \in WorkerRecords
      /\ worker[w].at = "popped" /\ k \in Jobs /\ job \in [Jobs -> JobRecords] /\ Knows(w)
  BY DEF QueueInv, QueueTyped, MarkClaimed, Knows
<1>2. /\ job' = [job EXCEPT ![k] = [status |-> "RUNNING", claimed |-> "fresh"]]
      /\ worker' = [worker EXCEPT ![w].at = "holding"]
      /\ UNCHANGED <<queue, processing, enqueues, crashes, up>>
  BY DEF MarkClaimed
<1>3. /\ \A v \in Workers : v # w => worker'[v] = worker[v]
      /\ worker' \in [Workers -> WorkerRecords]
      /\ worker'[w].at = "holding" /\ worker'[w].job = k /\ worker'[w].stuck = worker[w].stuck
  BY <1>1, <1>2 DEF WorkerRecords, InScan
<1> HIDE DEF k
<1>4. [status |-> "RUNNING", claimed |-> "fresh"] \in JobRecords
  BY DEF JobRecords, JobStatus, Claims
<1>5. QueueTyped'
  BY <1>1, <1>2, <1>3, <1>4 DEF QueueInv, QueueTyped
<1>6. Knows(w)' /\ ScanFits(w)' /\ DropFits(w)'
  BY <1>1, <1>3 DEF Knows, ScanFits, DropFits, InScan
<1>7. \A j \in Jobs : /\ Entries(j)' = Entries(j)
                      /\ Unfinished(j)' <=> Unfinished(j) \/ j = k
  BY <1>1, <1>2 DEF Entries, Unfinished
<1>8. up = {w} => Occurrences(processing, k) > 0 /\ Entries(k) > 0
  <2>1. Occurrences(queue, k) \in Nat /\ Occurrences(processing, k) \in Nat
    BY EntriesType DEF QueueInv
  <2>2. QED
    BY <1>1, <2>1 DEF QueueInv, Sole, Entered, Entries, k
<1>9. up = {w} => Entered(w)'
  BY <1>2, <1>3, <1>8 DEF Entered
<1>10. ASSUME NEW j \in Jobs, Unfinished(j)' PROVE Entries(j)' > 0 \/ InHand(j)'
  <2>1. j = k \/ Entries(j) > 0 \/ InHand(j)
    BY <1>7, <1>10, FoundBefore
  <2>2. InHand(j) \/ j = k => InHand(j)'
    BY <1>3 DEF InHand, k
  <2>3. QED
    BY <1>7, <2>1, <2>2
<1>11. up = {w} => \A j \in Jobs : Unfinished(j)' => Entries(j)' > 0
  BY <1>7, <1>8 DEF QueueInv, Sole
<1>12. Exact(w) => Exact(w)'
  BY <1>1, <1>2, <1>7, <1>8 DEF Exact
<1>13. Handed'
  <2>1. \A j \in Jobs : Occurrences(processing, j) \in Nat
    BY EntriesType DEF QueueInv
  <2>2. \A v \in Workers : worker'[v].job = worker[v].job
    BY <1>3 DEF k
  <2>3. QED
    BY <1>2, <1>5, <2>1, <2>2, HandedKept
<1>14. QED
  BY <1>2, <1>3, <1>5, <1>6, <1>9, <1>10, <1>11, <1>12, <1>13, MovePreserves

\* complete_job().
LEMMA CompleteJobPreserves ==
  ASSUME QueueInv, NEW w \in Workers, NEW status \in Finished, CompleteJob(w, status)
  PROVE  QueueInv' /\ (Exact(w) => Exact(w)') /\ \A v \in Workers : up = {v} => v = w
<1> DEFINE k == worker[w].job
<1>1. /\ worker \in [Workers -> WorkerRecords] /\ processing \in Seq(Jobs)
      /\ worker[w].at = "holding" /\ k \in Jobs /\ job \in [Jobs -> JobRecords] /\ Knows(w)
  BY DEF QueueInv, QueueTyped, CompleteJob, Knows
<1> HIDE DEF k
<1>2. /\ job' = [job EXCEPT ![k].status = status] /\ processing' = Lrem(processing, k)
      /\ worker' = [worker EXCEPT ![w] = WorkerStart]
      /\ UNCHANGED <<queue, enqueues, crashes, up>>
  BY DEF CompleteJob, k
<1>3. /\ WorkerStart \in WorkerRecords
      /\ WorkerStart.at = "top" /\ WorkerStart.job = NoJob /\ WorkerStart.stuck = <<>>
  BY EmptySeq DEF WorkerStart, WorkerRecords, Claims
<1>4. /\ \A v \in Workers : v # w => worker'[v] = worker[v]
      /\ worker' \in [Workers -> WorkerRecords] /\ worker'[w] = WorkerStart
  BY <1>1, <1>2, <1>3
<1>5. \A v \in Workers : up = {v} => v = w
  BY <1>1, <1>3 DEF QueueInv, Sole
<1>6. job' \in [Jobs -> JobRecords]
  BY <1>1, <1>2 DEF JobRecords, JobStatus
<1>7. /\ processing' \in Seq(Jobs)
      /\ \A j : Occurrences(processing', j) =
                  IF j = k /\ Contains(processing, k) THEN Occurrences(processing, j) - 1
                  ELSE Occurrences(processing, j)
  BY <1>1, <1>2, OccurrencesLrem
<1>8. \A j \in Jobs : Unfinished(j)' <=> Unfinished(j) /\ j # k
  BY <1>1, <1>2 DEF Unfinished, JobRecords, Finished
<1>9. \A j \in Jobs : j # k => Entries(j)' = Entries(j)
  BY <1>2, <1>7 DEF Entries
<1>10. QueueTyped'
  BY <1>2, <1>4, <1>6, <1>7 DEF QueueInv, QueueTyped
<1>11. Knows(w)' /\ ScanFits(w)' /\ Entered(w)' /\ DropFits(w)'
  BY <1>3, <1>4 DEF Knows, ScanFits, Entered, DropFits, InScan
<1>12. ASSUME NEW j \in Jobs, Unfinished(j)' PROVE Entries(j)' > 0 \/ InHand(j)'
  <2>1. j # k /\ (Entries(j) > 0 \/ InHand(j))
    BY <1>8, <1>12, FoundBefore
  <2>2. ~Contains(worker[w].stuck, j)
    <3>1. worker[w].stuck = <<>>
      BY <1>1 DEF Knows, InScan
    <3>2. QED
      BY <3>1, EmptySeq DEF Contains
  <2>3. InHand(j) => InHand(j)'
    BY <1>4, <2>1, <2>2 DEF InHand, k
  <2>4. QED
    BY <1>9, <2>1, <2>3
<1>13. up = {w} => \A j \in Jobs : Unfinished(j)' => Entries(j)' > 0
  BY <1>8, <1>9 DEF QueueInv, Sole
<1>14. Exact(w) => Exact(w)'
  <2>1. SUFFICES ASSUME up = {w}, \A j \in Jobs : Entries(j) = IF Unfinished(j) THEN 1 ELSE 0,
                        NEW j \in Jobs
                 PROVE  Entries(j)' = IF Unfinished(j)' THEN 1 ELSE 0
    BY <1>2 DEF Exact
  <2>2. CASE j # k
    BY <1>8, <1>9, <2>1, <2>2
  <2>3. CASE j = k
    <3>1. Occurrences(processing, j) > 0
      BY <1>1, <2>1, <2>3 DEF QueueInv, Sole, Entered, k
    <3>2. Contains(processing, j) /\ Occurrences(queue, j) \in Nat /\ Occurrences(processing, j) \in Nat
      BY <3>1, EntriesType DEF QueueInv
    <3>3. Occurrences(queue, j) = 0 /\ Occurrences(processing, j) = 1
      BY <2>1, <3>1, <3>2 DEF Entries
    <3>4. Occurrences(processing', j) = 0
      BY <1>7, <2>3, <3>2, <3>3
    <3>5. Entries(j)' = 0
      BY <1>2, <3>3, <3>4 DEF Entries
    <3>6. QED
      BY <1>8, <2>3, <3>5
  <2>4. QED
    BY <2>2, <2>3
<1>15. Handed'
  <2>1. SUFFICES ASSUME \A v \in Workers : up # {v}, NEW j \in Jobs
                 PROVE  Occurrences(processing', j) <= Cardinality(Holders(j)')
    BY <1>2 DEF Handed
  <2>2. /\ Occurrences(processing, j) <= Cardinality(Holders(j))
        /\ IsFiniteSet(Holders(j)) /\ Cardinality(Holders(j)) \in Nat
        /\ Occurrences(processing, j) \in Nat
        /\ Occurrences(processing, j) > 0 <=> Contains(processing, j)
    BY <2>1, HolderCount, EntriesType DEF QueueInv, Handed
  <2>3. CASE j = k
    <3>1. Holders(j)' = Holders(j) \ {w} /\ w \in Holders(j)
      BY <1>1, <1>3, <1>4, <2>3, JobQueueAssumption DEF Holders, k
    <3>2. Cardinality(Holders(j) \ {w}) = Cardinality(Holders(j)) - 1
      BY <2>2, <3>1, FS_RemoveElement
    <3>3. Cardinality(Holders(j)) # 0
      BY <2>2, <3>1, FS_EmptySet
    <3>4. QED
      BY <1>7, <2>2, <2>3, <3>1, <3>2, <3>3
  <2>4. CASE j # k
    <3>1. Holders(j)' = Holders(j)
      BY <1>3, <1>4, <2>4, JobQueueAssumption DEF Holders, k
    <3>2. QED
      BY <1>7, <2>2, <2>4, <3>1
  <2>5. QED
    BY <2>3, <2>4
<1>16. QED
  BY <1>2, <1>4, <1>5, <1>10, <1>11, <1>12, <1>13, <1>14, <1>15, MovePreserves

\* The only worker dies: what it had in its hands is still on a list.
LEMMA CrashPreserves ==
  ASSUME QueueInv, NEW w \in Workers, Crash(w)
  PROVE  QueueInv' /\ (Exact(w) => Exact(w)')
<1>1. /\ up = {w} /\ crashes' \in 0..MaxCrashes
      /\ worker' = [worker EXCEPT ![w] = WorkerStart]
      /\ UNCHANGED <<queue, processing, job, enqueues, up>>
  BY JobQueueAssumption DEF Crash, QueueInv, QueueTyped
<1>2. worker \in [Workers -> WorkerRecords]
  BY DEF QueueInv, QueueTyped
<1>3. /\ WorkerStart \in WorkerRecords
      /\ WorkerStart.at = "top" /\ WorkerStart.job = NoJob /\ WorkerStart.stuck = <<>>
  BY EmptySeq DEF WorkerStart, WorkerRecords, Claims
<1>4. /\ \A v \in Workers : v # w => worker'[v] = worker[v]
      /\ worker' \in [Workers -> WorkerRecords] /\ worker'[w] = WorkerStart
  BY <1>1, <1>2, <1>3
<1>5. QueueTyped'
  BY <1>1, <1>4 DEF QueueInv, QueueTyped
<1>6. Knows(w)' /\ ScanFits(w)' /\ Entered(w)' /\ DropFits(w)' /\ Handed'
  BY <1>1, <1>3, <1>4 DEF Knows, ScanFits, Entered, DropFits, Handed, InScan
<1>7. \A j \in Jobs : Entries(j)' = Entries(j) /\ (Unfinished(j)' <=> Unfinished(j))
  BY <1>1 DEF Entries, Unfinished
<1>8. \A j \in Jobs : Unfinished(j)' => Entries(j)' > 0
  BY <1>1, <1>7 DEF QueueInv, Sole
<1>9. Exact(w) => Exact(w)'
  BY <1>1, <1>7 DEF Exact
<1>10. QED
  BY <1>1, <1>4, <1>5, <1>6, <1>8, <1>9, MovePreserves

\* Time passes, or nothing happens to the queue.
LEMMA AgePreserves ==
  ASSUME QueueInv, (\E k \in Jobs : Age(k)) \/ UNCHANGED jobQueueVars
  PROVE  QueueInv' /\ \A w \in Workers : Exact(w) => Exact(w)'
<1>1. /\ UNCHANGED <<queue, processing, worker, enqueues, crashes, up>>
      /\ job' \in [Jobs -> JobRecords]
      /\ \A j \in Jobs : job'[j].status = job[j].status
  <2>1. job \in [Jobs -> JobRecords]
    BY DEF QueueInv, QueueTyped
  <2>2. QED
    BY <2>1 DEF Age, jobQueueVars, JobRecords, Claims
<1>2. QueueTyped'
  BY <1>1 DEF QueueInv, QueueTyped
<1>3. \A j \in Jobs : Entries(j)' = Entries(j) /\ (Unfinished(j)' <=> Unfinished(j))
  BY <1>1 DEF Entries, Unfinished
<1>4. \A w \in Workers : Knows(w)' /\ (up' = {w} => Sole(w)')
  BY <1>1, <1>3 DEF QueueInv, Knows, Sole, ScanFits, Entered, DropFits
<1>5. NeverLost' /\ Handed'
  BY <1>1 DEF QueueInv, NeverLost, Handed, Holders
<1>6. \A w \in Workers : Exact(w) => Exact(w)'
  BY <1>1, <1>3 DEF Exact
<1>7. QED
  BY <1>2, <1>4, <1>5, <1>6 DEF QueueInv

\* The steps of a worker's loop together.
LEMMA QueueStepPreserves ==
  ASSUME QueueInv, NEW w \in Workers, QueueStep(w)
  PROVE  QueueInv' /\ (Exact(w) => Exact(w)')
<1>1. w \in up /\ up' = up
  BY DEF QueueStep, BeginScan, ReadPayload, JudgeItem, DropItem, Requeue, Pop, PopTimeout, MarkClaimed
<1>2. CASE BeginScan(w) \/ PopTimeout(w) \/ ReadPayload(w) \/ JudgeItem(w)
  <2>1. QueueInv' /\ \A j \in Jobs : Entries(j)' = Entries(j) /\ (Unfinished(j)' <=> Unfinished(j))
    BY <1>1, <1>2, LoopMovePreserves, JudgeItemPreserves
  <2>2. QED
    BY <1>1, <2>1 DEF Exact
<1>3. CASE DropItem(w)
  BY <1>1, <1>3, DropItemPreserves
<1>4. QED
  BY <1>1, <1>2, <1>3, RequeuePreserves, PopPreserves, MarkClaimedPreserves DEF QueueStep

\* Every step of the queue on its own, where only an idle job is queued.
LEMMA JobQueueStepPreserves ==
  ASSUME QueueInv, \A w \in Workers : Exact(w), [JobQueueNext]_jobQueueVars
  PROVE  QueueInv' /\ \A w \in Workers : Exact(w)'
<1>1. ASSUME NEW j \in Jobs, EnqueueIdle(j) PROVE QueueInv' /\ \A w \in Workers : Exact(w)'
  <2>1. <<j>> \in Seq(Jobs) /\ Enqueue(<<j>>) /\ ~Unfinished(j)
    BY <1>1 DEF EnqueueIdle, Unfinished, Finished
  <2>2. QueueInv'
    BY <2>1, EnqueuePreserves
  <2>3. /\ UNCHANGED up
        /\ \A k \in Jobs : /\ Entries(k)' = Entries(k) + Occurrences(<<j>>, k)
                           /\ Occurrences(<<j>>, k) \in Nat
                           /\ Unfinished(k)' <=> Unfinished(k) \/ Occurrences(<<j>>, k) > 0
    BY <2>1, EnqueueEffect DEF QueueInv
  <2>4. \A k \in Jobs : Occurrences(<<j>>, k) = IF k = j THEN 1 ELSE 0
    BY OccurrencesOne
  <2>5. ASSUME NEW w \in Workers, up = {w}, NEW k \in Jobs
        PROVE  Entries(k)' = IF Unfinished(k)' THEN 1 ELSE 0
    <3>1. Entries(k) = IF Unfinished(k) THEN 1 ELSE 0
      BY <2>5 DEF Exact
    <3>2. CASE k = j
      <4>1. Entries(k) = 0 /\ Occurrences(<<j>>, k) = 1
        BY <2>1, <2>4, <3>1, <3>2
      <4>2. Entries(k)' = 1 /\ Unfinished(k)'
        BY <2>3, <4>1
      <4>3. QED
        BY <4>2
    <3>3. CASE k # j
      <4>1. Occurrences(<<j>>, k) = 0 /\ Entries(k) \in Nat
        BY <2>4, <3>1, <3>3
      <4>2. Entries(k)' = Entries(k) /\ (Unfinished(k)' <=> Unfinished(k))
        BY <2>3, <4>1
      <4>3. QED
        BY <3>1, <4>2
    <3>4. QED
      BY <3>2, <3>3
  <2>6. QED
    BY <2>2, <2>3, <2>5 DEF Exact
<1>2. ASSUME NEW w \in Workers, QueueInv', Exact(w)', up' = up, \A v \in Workers : up = {v} => v = w
      PROVE  QueueInv' /\ \A v \in Workers : Exact(v)'
  BY <1>2 DEF Exact
<1>3. ASSUME NEW w \in Workers, QueueStep(w) PROVE QueueInv' /\ \A v \in Workers : Exact(v)'
  <2>1. QueueInv' /\ Exact(w)'
    BY <1>3, QueueStepPreserves
  <2>2. w \in up /\ up' = up
    BY <1>3 DEF QueueStep, BeginScan, ReadPayload, JudgeItem, DropItem, Requeue, Pop, PopTimeout,
                MarkClaimed
  <2>3. QED
    BY <1>2, <2>1, <2>2
<1>4. ASSUME NEW w \in Workers, Crash(w) PROVE QueueInv' /\ \A v \in Workers : Exact(v)'
  <2>1. QueueInv' /\ Exact(w)'
    BY <1>4, CrashPreserves
  <2>2. up = {w} /\ up' = up
    BY <1>4 DEF Crash
  <2>3. QED
    BY <1>2, <2>1, <2>2
<1>5. ASSUME NEW w \in Workers, NEW status \in Finished, CompleteJob(w, status)
      PROVE  QueueInv' /\ \A v \in Workers : Exact(v)'
  <2>1. QueueInv' /\ Exact(w)' /\ \A v \in Workers : up = {v} => v = w
    BY <1>5, CompleteJobPreserves
  <2>2. up' = up
    BY <1>5 DEF CompleteJob
  <2>3. QED
    BY <1>2, <2>1, <2>2
<1>6. CASE (\E k \in Jobs : Age(k)) \/ UNCHANGED jobQueueVars
  BY <1>6, AgePreserves
<1>7. QED
  BY <1>1, <1>3, <1>4, <1>5, <1>6 DEF JobQueueNext

\* The inductive invariant of the queue, with the count of the entries.
THEOREM QueueInvariant == JobQueueSpec => [](QueueInv /\ \A w \in Workers : Exact(w))
<1>1. JobQueueInit => QueueInv /\ \A w \in Workers : Exact(w)
  BY QueueInitHolds DEF Exact
<1>2. (QueueInv /\ \A w \in Workers : Exact(w)) /\ [JobQueueNext]_jobQueueVars
        => (QueueInv /\ \A w \in Workers : Exact(w))'
  BY JobQueueStepPreserves
<1>3. QED
  BY <1>1, <1>2, PTL DEF JobQueueSpec

\* Type correctness of the queue.
THEOREM QueueTypes == JobQueueSpec => []JobQueueTypeOK
<1>1. QueueInv => JobQueueTypeOK
  BY DEF QueueInv, QueueTyped, JobQueueTypeOK, WorkerRecords, JobRecords
<1>2. QED
  BY <1>1, QueueInvariant, PTL

\* With one worker the lists hold one entry of every unfinished job, and no other.
THEOREM EachJobOnce == JobQueueSpec => []OneEntryPerJob
<1>1. QueueInv /\ (\A w \in Workers : Exact(w)) => OneEntryPerJob
  <2>1. SUFFICES ASSUME QueueInv, \A w \in Workers : Exact(w), Cardinality(up) = 1
                 PROVE  \A j \in Jobs : Entries(j) = IF Unfinished(j) THEN 1 ELSE 0
    BY DEF OneEntryPerJob, Entries, Unfinished
  <2>2. up \subseteq Workers /\ IsFiniteSet(up)
    BY <2>1, FS_Subset, JobQueueAssumption DEF QueueInv, QueueTyped
  <2>3. \E w \in Workers : up = {w}
    BY <2>1, <2>2, FS_Singleton
  <2>4. QED
    BY <2>1, <2>3 DEF Exact
<1>2. QED
  BY <1>1, QueueInvariant, PTL

\* No job is lost: not when a sole worker dies between two commands, and not when any
\* number of workers that stay up requeue and complete each other's jobs.
THEOREM NoJobIsLost == JobQueueSpec => []NeverLost
<1>1. QueueInv => NeverLost
  BY DEF QueueInv
<1>2. QED
  BY <1>1, QueueInvariant, PTL

-------------------------------------------------------------------------------
(* 3. The queue under the control plane                                    *)

\* A worker that commits or reports has decided how its job ended.
ReportsReady ==
  /\ DOMAIN phase = Workers /\ DOMAIN plan = Workers
  /\ \A w \in Workers : phase[w] \in {"commit", "report"} => plan[w].report \in Finished

\* What each step of the control plane is to the queue.
LEMMA QueueOfControlPlane ==
  ASSUME QueueInv, ReportsReady, [ControlPlaneNext]_controlVars
  PROVE  QueueInv'
<1>1. ASSUME UNCHANGED jobQueueVars PROVE QueueInv'
  BY <1>1, AgePreserves
<1>2. ASSUME NEW a \in Apis, CreateInsert(a) \/ RerunRead(a) \/ CancelRead(a) \/ Handler(a)
      PROVE  QueueInv'
  <2>1. CASE EnqueueRuns(a)
    <3>1. SetToSeq(Jobs) \in Seq(Jobs) /\ Enqueue(SetToSeq(Jobs))
      BY <2>1, AllJobsListed, JobQueueAssumption DEF EnqueueRuns
    <3>2. QED
      BY <3>1, EnqueuePreserves
  <2>2. CASE ~EnqueueRuns(a)
    BY <1>1, <1>2, <2>2 DEF CreateInsert, RerunRead, CancelRead, Handle, Handler, CommitQueued, CancelCommit
  <2>3. QED
    BY <2>1, <2>2
<1>3. ASSUME NEW w \in Workers, WorkerStep(w) \/ Poll(w) \/ CrashWorker(w) PROVE QueueInv'
  <2>1. CASE WorkerLoop(w)
    BY <2>1, QueueStepPreserves DEF WorkerLoop
  <2>2. CASE Report(w)
    <3>1. plan[w].report \in Finished /\ CompleteJob(w, plan[w].report)
      BY <2>2 DEF Report, ReportsReady
    <3>2. QED
      BY <3>1, CompleteJobPreserves
  <2>3. CASE CrashWorker(w)
    BY <2>3, CrashPreserves DEF CrashWorker
  <2>4. CASE CheckBeforeStart(w) \/ Skip(w) \/ Start(w) \/ RunEnds(w) \/ Commit(w) \/ Poll(w)
    BY <1>1, <2>4 DEF CheckBeforeStart, Skip, Start, RunEnds, RunCompleted, RunCancelled, RunFailed,
                      Commit, Poll, Decide
  <2>5. QED
    BY <1>3, <2>1, <2>2, <2>3, <2>4 DEF WorkerStep
<1>4. ASSUME NEW j \in Jobs, AgeJob(j) PROVE QueueInv'
  BY <1>4, AgePreserves DEF AgeJob
<1>5. CASE UNCHANGED controlVars
  BY <1>1, <1>5 DEF controlVars
<1>6. QED
  BY <1>2, <1>3, <1>4, <1>5 DEF ControlPlaneNext

LEMMA ReportsReadyStep ==
  ASSUME ReportsReady, [ControlPlaneNext]_controlVars
  PROVE  ReportsReady'
<1>1. ASSUME UNCHANGED <<phase, plan>> PROVE ReportsReady'
  BY <1>1 DEF ReportsReady
<1>2. ASSUME NEW a \in Apis, CreateInsert(a) \/ RerunRead(a) \/ CancelRead(a) \/ Handler(a)
      PROVE  ReportsReady'
  <2>1. UNCHANGED <<phase, plan>>
    BY <1>2 DEF CreateInsert, RerunRead, CancelRead, Handle, Handler, EnqueueRuns, CommitQueued, CancelCommit
  <2>2. QED
    BY <1>1, <2>1
<1>3. ASSUME NEW w \in Workers, NEW r, NEW e, NEW q \in Finished, Decide(w, r, e, q)
      PROVE  ReportsReady'
  BY <1>3 DEF Decide, Enter, ReportsReady
<1>4. ASSUME NEW w \in Workers, NEW p, p \notin {"commit", "report"}, Enter(w, p),
             DOMAIN plan' = Workers, \A v \in Workers : v # w => plan'[v] = plan[v]
      PROVE  ReportsReady'
  BY <1>4 DEF Enter, ReportsReady
<1>5. ASSUME NEW w \in Workers, WorkerStep(w) \/ Poll(w) \/ CrashWorker(w) PROVE ReportsReady'
  <2>1. CASE WorkerLoop(w)
    BY <2>1 DEF WorkerLoop, ReportsReady
  <2>2. CASE CheckBeforeStart(w)
    BY <1>4, <2>2 DEF CheckBeforeStart, ReportsReady
  <2>3. CASE Skip(w) \/ RunEnds(w)
    BY <1>3, <2>3 DEF Skip, RunEnds, RunCompleted, RunCancelled, RunFailed, Finished
  <2>4. CASE Start(w)
    <3>1. CASE exp = "absent"
      BY <2>4, <3>1 DEF Start, Enter, ReportsReady, NoPlan, Finished
    <3>2. CASE exp # "absent"
      BY <1>4, <2>4, <3>2 DEF Start, ReportsReady
    <3>3. QED
      BY <3>1, <3>2
  <2>5. CASE Commit(w)
    BY <2>5 DEF Commit, Enter, ReportsReady
  <2>6. CASE Report(w) \/ CrashWorker(w)
    BY <1>4, <2>6 DEF Report, CrashWorker, ReportsReady
  <2>7. CASE Poll(w)
    BY <1>1, <2>7 DEF Poll
  <2>8. QED
    BY <1>5, <2>1, <2>2, <2>3, <2>4, <2>5, <2>6, <2>7 DEF WorkerStep
<1>6. ASSUME NEW j \in Jobs, AgeJob(j) PROVE ReportsReady'
  BY <1>1, <1>6 DEF AgeJob, localVars
<1>7. CASE UNCHANGED controlVars
  BY <1>1, <1>7 DEF controlVars, localVars
<1>8. QED
  BY <1>2, <1>5, <1>6, <1>7 DEF ControlPlaneNext

\* Nor does the API lose a job, which queues a job again while a worker still has it, nor
\* a worker that skips, fails or cancels one: for any number of workers, of which only a
\* sole one may die.
THEOREM ControlPlaneLosesNoJob == ControlPlaneSpec => []NeverLost
<1>1. ControlPlaneInit => QueueInv /\ ReportsReady
  BY QueueInitHolds DEF ControlPlaneInit, ReportsReady
<1>2. (QueueInv /\ ReportsReady) /\ [ControlPlaneNext]_controlVars => (QueueInv /\ ReportsReady)'
  BY QueueOfControlPlane, ReportsReadyStep
<1>3. QueueInv => NeverLost
  BY DEF QueueInv
<1>4. QED
  BY <1>1, <1>2, <1>3, PTL DEF ControlPlaneSpec

-------------------------------------------------------------------------------
(* 4. Database and queue with one worker                                   *)

Phases == {"idle", "check", "skip", "start", "run", "commit", "report"}

Plans == [run : RunStatus \union {Keep}, exp : {Keep, "COMPLETED", "CANCELLED"},
          report : Finished \union {"none"}]

WorkersShaped ==
  /\ DOMAIN worker = Workers
  /\ \A w \in Workers : DOMAIN worker[w] = {"at", "job", "scan", "seen", "stuck"}

ControlTyped ==
  /\ run \in [Jobs -> RunStatus]
  /\ job \in [Jobs -> JobRecords]
  /\ phase \in [Workers -> Phases]
  /\ plan \in [Workers -> Plans]
  /\ WorkersShaped

OneWorker == \A v, w \in up : v = w

\* The job a worker holds, if the queue gave it one of the experiment.
Held(w) == Jobs \intersect {worker[w].job}

\* A job that is being processed is not finished in the queue.
HeldUnfinished(w) ==
  phase[w] # "idle" => w \in up /\ \A j \in Held(w) : job[j].status \notin Finished

\* A run is under way only in an experiment that exists and is not completed.
RunningExperiment(w) == phase[w] = "run" => exp \notin {"absent", "COMPLETED"}

\* What a plan that is about to be committed assumes of the rows.
PlanSound(w) ==
  phase[w] = "commit" =>
    /\ plan[w].report \in Finished
    /\ plan[w].report = "COMPLETED" => plan[w].run = "COMPLETED"
    /\ plan[w].report = "FAILED" =>
         plan[w].run \in Finished \/ (plan[w].run = Keep /\ \A j \in Held(w) : run[j] # "RUNNING")
    /\ plan[w].run \in {Keep} \union Finished
    /\ plan[w].run \in {"FAILED", "CANCELLED"} /\ Held(w) # {} => exp # "COMPLETED"
    /\ exp = "absent" /\ Held(w) # {} => plan[w].run = Keep
    /\ plan[w].exp = "COMPLETED" =>
         /\ plan[w].run = "COMPLETED"
         /\ \A j \in Jobs \ Held(w) : run[j] \in {"absent", "COMPLETED"}

\* What is reported to the queue is what the database says.
ReportSound(w) ==
  phase[w] = "report" =>
    /\ plan[w].report \in Finished
    /\ \A j \in Held(w) :
         /\ plan[w].report = "COMPLETED" => run[j] = "COMPLETED"
         /\ plan[w].report = "FAILED" => run[j] # "RUNNING"

WorkerInv(w) == HeldUnfinished(w) /\ RunningExperiment(w) /\ PlanSound(w) /\ ReportSound(w)

NoOrphanRows == exp = "absent" => \A j \in Jobs : run[j] = "absent"

ControlInv ==
  /\ ControlTyped
  /\ OneWorker
  /\ NoOrphanRows
  /\ CompletedMeansRunsDone
  /\ QueueNeverAheadOfDatabase
  /\ \A w \in Workers : WorkerInv(w)

-------------------------------------------------------------------------------
LEMMA ControlInitHolds == ControlPlaneInit /\ OneWorker => ControlInv
<1> SUFFICES ASSUME ControlPlaneInit, OneWorker PROVE ControlInv
  OBVIOUS
<1>1. /\ exp = "absent" /\ run = [j \in Jobs |-> "absent"] /\ phase = [w \in Workers |-> "idle"]
      /\ plan = [w \in Workers |-> NoPlan] /\ worker = [w \in Workers |-> WorkerStart]
      /\ job = [j \in Jobs |-> [status |-> "absent", claimed |-> "never"]]
  BY DEF ControlPlaneInit, JobQueueInit
<1>2. NoPlan \in Plans
  BY DEF NoPlan, Plans, Keep
<1>3. [status |-> "absent", claimed |-> "never"] \in JobRecords
  BY DEF JobRecords, JobStatus, Claims
<1>4. ControlTyped
  BY <1>1, <1>2, <1>3 DEF ControlTyped, WorkersShaped, WorkerStart, Phases, RunStatus
<1>5. NoOrphanRows /\ CompletedMeansRunsDone /\ QueueNeverAheadOfDatabase
  BY <1>1 DEF NoOrphanRows, CompletedMeansRunsDone, QueueNeverAheadOfDatabase
<1>6. \A w \in Workers : WorkerInv(w)
  BY <1>1 DEF WorkerInv, HeldUnfinished, RunningExperiment, PlanSound, ReportSound
<1>7. QED
  BY <1>4, <1>5, <1>6 DEF ControlInv

\* What a step of the queue does to the jobs and to its worker.
LEMMA QueueStepFacts ==
  ASSUME ControlTyped, NEW w \in Workers, QueueStep(w), worker[w].at # "holding"
  PROVE  /\ WorkersShaped' /\ job' \in [Jobs -> JobRecords] /\ up' = up
         /\ \A j \in Jobs : job'[j].status \in {job[j].status, "QUEUED", "RUNNING"}
         /\ \A v \in Workers : v # w => worker'[v] = worker[v]
         /\ worker'[w].at = "holding" =>
              \A j \in Jobs \intersect {worker'[w].job} : job'[j].status = "RUNNING"
<1>1. /\ DOMAIN worker = Workers /\ DOMAIN worker[w] = {"at", "job", "scan", "seen", "stuck"}
      /\ job \in [Jobs -> JobRecords]
  BY DEF ControlTyped, WorkersShaped
<1>2. CASE BeginScan(w)
  BY <1>1, <1>2 DEF BeginScan, WorkersShaped, ControlTyped
<1>3. CASE ReadPayload(w) \/ JudgeItem(w) \/ DropItem(w)
  BY <1>1, <1>3 DEF ReadPayload, JudgeItem, DropItem, NextId, WorkersShaped, ControlTyped
<1>4. CASE Requeue(w)
  <2>1. job' = [j \in Jobs |-> IF Contains(worker[w].stuck, j)
                               THEN [job[j] EXCEPT !.status = "QUEUED"] ELSE job[j]]
    BY <1>4 DEF Requeue
  <2>2. \A j \in Jobs : job'[j] \in JobRecords /\ job'[j].status \in {job[j].status, "QUEUED"}
    BY <1>1, <2>1 DEF JobRecords, JobStatus
  <2>3. job' \in [Jobs -> JobRecords]
    BY <2>1, <2>2
  <2>4. /\ worker' = [worker EXCEPT ![w].at = "claiming", ![w].stuck = <<>>] /\ up' = up
    BY <1>4 DEF Requeue
  <2>5. QED
    BY <1>1, <2>2, <2>3, <2>4 DEF WorkersShaped, ControlTyped
<1>5. CASE Pop(w) \/ PopTimeout(w)
  BY <1>1, <1>5 DEF Pop, PopTimeout, WorkersShaped, ControlTyped
<1>6. CASE MarkClaimed(w)
  <2>1. /\ job' = [job EXCEPT ![worker[w].job] = [status |-> "RUNNING", claimed |-> "fresh"]]
        /\ worker' = [worker EXCEPT ![w].at = "holding"] /\ up' = up
    BY <1>6 DEF MarkClaimed
  <2>2. [status |-> "RUNNING", claimed |-> "fresh"] \in JobRecords
    BY DEF JobRecords, JobStatus, Claims
  <2>3. job' \in [Jobs -> JobRecords]
    BY <1>1, <2>1, <2>2
  <2>4. worker'[w].job = worker[w].job
    BY <1>1, <2>1
  <2>5. QED
    BY <1>1, <2>1, <2>3, <2>4 DEF WorkersShaped, ControlTyped
<1>7. QED
  BY <1>2, <1>3, <1>4, <1>5, <1>6 DEF QueueStep

\* A step that leaves the rows of the runs, the workers and their plans alone keeps the
\* invariant if it completes no experiment and finishes no job.
LEMMA RestPreserves ==
  ASSUME ControlInv, UNCHANGED <<run, worker, up, phase, plan>>,
         exp' = exp \/ exp' \notin {"absent", "COMPLETED"},
         job' \in [Jobs -> JobRecords],
         \A j \in Jobs : job'[j].status \in {job[j].status, "QUEUED"}
  PROVE  ControlInv'
<1>1. ControlTyped' /\ OneWorker'
  BY DEF ControlInv, ControlTyped, WorkersShaped, OneWorker
<1>2. NoOrphanRows' /\ CompletedMeansRunsDone'
  BY DEF ControlInv, NoOrphanRows, CompletedMeansRunsDone
<1>3. QueueNeverAheadOfDatabase'
  BY DEF ControlInv, QueueNeverAheadOfDatabase
<1>4. ASSUME NEW w \in Workers PROVE WorkerInv(w)'
  <2>1. Held(w)' = Held(w) /\ Held(w) \subseteq Jobs /\ WorkerInv(w)
    BY DEF Held, ControlInv
  <2>2. HeldUnfinished(w)'
    BY <2>1 DEF WorkerInv, HeldUnfinished, Finished
  <2>3. RunningExperiment(w)' /\ ReportSound(w)'
    BY <2>1 DEF WorkerInv, RunningExperiment, ReportSound
  <2>4. PlanSound(w)'
    BY <2>1 DEF WorkerInv, PlanSound
  <2>5. QED
    BY <2>2, <2>3, <2>4 DEF WorkerInv
<1>5. QED
  BY <1>1, <1>2, <1>3, <1>4 DEF ControlInv

\* Handlers of the API never write the row of a run, and complete no experiment.
LEMMA ApiPreserves ==
  ASSUME ControlInv, NEW a \in Apis,
         CreateInsert(a) \/ RerunRead(a) \/ CancelRead(a) \/ Handler(a)
  PROVE  ControlInv'
<1>1. job \in [Jobs -> JobRecords]
  BY DEF ControlInv, ControlTyped
<1>2. CASE CreateInsert(a) \/ RerunRead(a) \/ CancelRead(a)
  <2>1. UNCHANGED <<run, worker, up, phase, plan, exp, job>>
    BY <1>2 DEF CreateInsert, RerunRead, CancelRead, Handle, jobQueueVars, dbVars
  <2>2. QED
    BY <1>1, <2>1, RestPreserves
<1>3. CASE EnqueueRuns(a)
  <2>1. /\ UNCHANGED <<run, worker, up, phase, plan, exp>>
        /\ job' = [j \in Jobs |-> IF Contains(SetToSeq(Jobs), j)
                                  THEN [status |-> "QUEUED", claimed |-> "never"] ELSE job[j]]
    BY <1>3 DEF EnqueueRuns, Enqueue, dbVars
  <2>2. [status |-> "QUEUED", claimed |-> "never"] \in JobRecords
    BY DEF JobRecords, JobStatus, Claims
  <2>3. job' \in [Jobs -> JobRecords]
    BY <1>1, <2>1, <2>2
  <2>4. \A j \in Jobs : job'[j].status \in {job[j].status, "QUEUED"}
    BY <2>1
  <2>5. QED
    BY <2>1, <2>3, <2>4, RestPreserves
<1>4. CASE CommitQueued(a) \/ CancelCommit(a)
  <2>1. UNCHANGED <<run, worker, up, phase, plan, job>>
    BY <1>4 DEF CommitQueued, CancelCommit, jobQueueVars
  <2>2. exp' \notin {"absent", "COMPLETED"}
    BY <1>4 DEF CommitQueued, CancelCommit
  <2>3. QED
    BY <1>1, <2>1, <2>2, RestPreserves
<1>5. QED
  BY <1>2, <1>3, <1>4 DEF Handler

\* The other workers are not deployed, and stay where they are.
LEMMA OthersIdle ==
  ASSUME ControlInv, NEW w \in up, NEW v \in Workers, v # w
  PROVE  phase[v] = "idle"
BY DEF ControlInv, OneWorker, WorkerInv, HeldUnfinished

\* It is enough to look at the worker that moves.
LEMMA MoverPreserves ==
  ASSUME ControlInv, NEW w \in Workers, w \in up, up' = up,
         \A v \in Workers : v # w => phase'[v] = phase[v],
         ControlTyped', NoOrphanRows', CompletedMeansRunsDone', QueueNeverAheadOfDatabase',
         WorkerInv(w)'
  PROVE  ControlInv'
<1>1. OneWorker'
  BY DEF ControlInv, OneWorker
<1>2. ASSUME NEW v \in Workers, v # w PROVE WorkerInv(v)'
  <2>1. phase'[v] = "idle"
    BY <1>2, OthersIdle
  <2>2. QED
    BY <2>1 DEF WorkerInv, HeldUnfinished, RunningExperiment, PlanSound, ReportSound
<1>3. QED
  BY <1>1, <1>2 DEF ControlInv

\* The queue's part of the loop.
LEMMA LoopPreserves ==
  ASSUME ControlInv, NEW w \in Workers, WorkerLoop(w)
  PROVE  ControlInv'
<1>1. /\ phase[w] = "idle" /\ worker[w].at # "holding" /\ QueueStep(w) /\ w \in up
      /\ UNCHANGED <<run, exp, plan>>
      /\ phase' = IF worker'[w].at = "holding" THEN [phase EXCEPT ![w] = "check"] ELSE phase
  BY DEF WorkerLoop, QueueStep, dbVars
<1>2. /\ WorkersShaped' /\ job' \in [Jobs -> JobRecords] /\ up' = up
      /\ \A j \in Jobs : job'[j].status \in {job[j].status, "QUEUED", "RUNNING"}
      /\ worker'[w].at = "holding" => \A j \in Held(w)' : job'[j].status = "RUNNING"
  BY <1>1, QueueStepFacts DEF ControlInv, Held
<1>3. ControlTyped'
  BY <1>1, <1>2 DEF ControlInv, ControlTyped, Phases
<1>4. /\ \A v \in Workers : v # w => phase'[v] = phase[v]
      /\ phase'[w] \in {"idle", "check"} /\ (phase'[w] # "idle" => worker'[w].at = "holding")
  BY <1>1 DEF ControlInv, ControlTyped
<1>5. NoOrphanRows' /\ CompletedMeansRunsDone' /\ QueueNeverAheadOfDatabase'
  BY <1>1, <1>2 DEF ControlInv, NoOrphanRows, CompletedMeansRunsDone, QueueNeverAheadOfDatabase
<1>6. WorkerInv(w)'
  BY <1>1, <1>2, <1>4 DEF WorkerInv, HeldUnfinished, RunningExperiment, PlanSound, ReportSound, Finished
<1>7. QED
  BY <1>1, <1>2, <1>3, <1>4, <1>5, <1>6, MoverPreserves

\* A worker decides what to commit; nothing else changes.
LEMMA DecisionPreserves ==
  ASSUME ControlInv, NEW w \in Workers, phase[w] # "idle",
         phase' = [phase EXCEPT ![w] = "commit"],
         UNCHANGED <<run, job, worker, up, exp>>,
         NEW p \in Plans, plan' = [plan EXCEPT ![w] = p], PlanSound(w)'
  PROVE  ControlInv'
<1>1. /\ phase'[w] = "commit" /\ \A v \in Workers : v # w => phase'[v] = phase[v]
      /\ w \in up /\ HeldUnfinished(w)
  BY DEF ControlInv, ControlTyped, WorkerInv, HeldUnfinished
<1>2. ControlTyped'
  BY DEF ControlInv, ControlTyped, WorkersShaped, Phases
<1>3. NoOrphanRows' /\ CompletedMeansRunsDone' /\ QueueNeverAheadOfDatabase'
  BY DEF ControlInv, NoOrphanRows, CompletedMeansRunsDone, QueueNeverAheadOfDatabase
<1>4. WorkerInv(w)'
  BY <1>1 DEF WorkerInv, HeldUnfinished, RunningExperiment, ReportSound, Held
<1>5. QED
  BY <1>1, <1>2, <1>3, <1>4, MoverPreserves

LEMMA DecidePreserves ==
  ASSUME ControlInv, NEW w \in Workers, Skip(w) \/ RunEnds(w)
  PROVE  ControlInv'
<1>1. /\ Held(w) \subseteq Jobs /\ phase[w] \in {"skip", "run"} /\ RunningExperiment(w)
      /\ worker[w].job \in Jobs => Held(w) = {worker[w].job}
      /\ worker[w].job \notin Jobs => Held(w) = {}
      /\ run \in [Jobs -> RunStatus] /\ plan \in [Workers -> Plans]
  BY DEF Skip, RunEnds, RunCompleted, RunCancelled, RunFailed, Held, ControlInv, ControlTyped, WorkerInv
<1>2. ASSUME NEW r, NEW e, NEW q, Decide(w, r, e, q), phase[w] # "idle",
             r \in {Keep} \union Finished, e \in {Keep, "COMPLETED", "CANCELLED"}, q \in Finished,
             q = "COMPLETED" => r = "COMPLETED",
             q = "FAILED" => r \in Finished \/ (r = Keep /\ \A j \in Held(w) : run[j] # "RUNNING"),
             r \in {"FAILED", "CANCELLED"} /\ Held(w) # {} => exp # "COMPLETED",
             exp = "absent" /\ Held(w) # {} => r = Keep,
             e = "COMPLETED" =>
               r = "COMPLETED" /\ \A j \in Jobs \ Held(w) : run[j] \in {"absent", "COMPLETED"}
      PROVE  ControlInv'
  <2>1. [run |-> r, exp |-> e, report |-> q] \in Plans
    BY <1>2 DEF Plans, RunStatus
  <2>2. /\ plan' = [plan EXCEPT ![w] = [run |-> r, exp |-> e, report |-> q]]
        /\ phase' = [phase EXCEPT ![w] = "commit"]
        /\ UNCHANGED <<run, job, worker, up, exp>>
    BY <1>2 DEF Decide, Enter, jobQueueVars, dbVars
  <2>3. plan'[w].run = r /\ plan'[w].exp = e /\ plan'[w].report = q
    BY <1>1, <2>2
  <2>4. PlanSound(w)'
    BY <1>2, <2>2, <2>3 DEF PlanSound, Held
  <2>5. QED
    BY <1>2, <2>1, <2>2, <2>4, DecisionPreserves
<1>3. CASE Skip(w)
  <2>1. PICK r : /\ Decide(w, r, Keep, "CANCELLED")
                 /\ r = IF run[worker[w].job] = "RUNNING" THEN "CANCELLED" ELSE Keep
    BY <1>3 DEF Skip
  <2>2. Held(w) # {} /\ r # Keep => run[worker[w].job] = "RUNNING" /\ worker[w].job \in Jobs
    BY <1>1, <2>1
  <2>3. Held(w) # {} /\ r # Keep => exp \notin {"COMPLETED", "absent"}
    BY <2>2 DEF ControlInv, CompletedMeansRunsDone, NoOrphanRows
  <2>4. r \in {Keep, "CANCELLED"}
    BY <2>1
  <2>5. QED
    BY <1>1, <1>2, <2>1, <2>3, <2>4 DEF Finished, Keep
<1>4. CASE RunCompleted(w)
  <2>1. PICK e : /\ Decide(w, "COMPLETED", e, "COMPLETED")
                 /\ e = IF {run[j] : j \in Jobs \ {worker[w].job}} \subseteq {"absent", "COMPLETED"}
                        THEN "COMPLETED" ELSE Keep
                 /\ phase[w] = "run"
    BY <1>4 DEF RunCompleted
  <2>2. e = "COMPLETED" => \A j \in Jobs \ Held(w) : run[j] \in {"absent", "COMPLETED"}
    BY <1>1, <2>1 DEF Keep
  <2>3. exp \notin {"absent", "COMPLETED"} /\ e \in {Keep, "COMPLETED"}
    BY <1>1, <2>1 DEF RunningExperiment
  <2>4. QED
    BY <1>1, <1>2, <2>1, <2>2, <2>3 DEF Finished, Keep
<1>5. CASE RunCancelled(w)
  <2>1. PICK e : Decide(w, "CANCELLED", e, "CANCELLED") /\ e \in {Keep, "CANCELLED"} /\ phase[w] = "run"
    BY <1>5 DEF RunCancelled
  <2>2. exp \notin {"absent", "COMPLETED"}
    BY <1>1, <2>1 DEF RunningExperiment
  <2>3. QED
    BY <1>1, <1>2, <2>1, <2>2 DEF Finished, Keep
<1>6. CASE RunFailed(w)
  <2>1. PICK r : /\ Decide(w, r, Keep, "FAILED") /\ phase[w] = "run"
                 /\ r = IF run[worker[w].job] \in Finished THEN Keep ELSE "FAILED"
    BY <1>6 DEF RunFailed
  <2>2. exp \notin {"absent", "COMPLETED"} /\ r \in {Keep, "FAILED"}
    BY <1>1, <2>1 DEF RunningExperiment
  <2>3. r = Keep => \A j \in Held(w) : run[j] # "RUNNING"
    BY <2>1 DEF Held, Keep, Finished
  <2>4. QED
    BY <1>1, <1>2, <2>1, <2>2, <2>3 DEF Finished, Keep
<1>7. QED
  BY <1>3, <1>4, <1>5, <1>6 DEF RunEnds

\* The check before the start, and the start itself.
LEMMA StartPreserves ==
  ASSUME ControlInv, NEW w \in Workers, CheckBeforeStart(w) \/ Start(w)
  PROVE  ControlInv'
<1>1. /\ w \in up /\ HeldUnfinished(w) /\ phase[w] # "idle"
      /\ run \in [Jobs -> RunStatus] /\ phase \in [Workers -> Phases] /\ plan \in [Workers -> Plans]
  BY DEF ControlInv, ControlTyped, CheckBeforeStart, Start, WorkerInv, HeldUnfinished
<1>2. CASE CheckBeforeStart(w)
  <2>1. /\ UNCHANGED <<run, job, worker, up, exp, plan>>
        /\ phase' = [phase EXCEPT ![w] = "skip"] \/ phase' = [phase EXCEPT ![w] = "start"]
    BY <1>2 DEF CheckBeforeStart, Enter, jobQueueVars, dbVars
  <2>2. /\ phase'[w] \in {"skip", "start"} /\ \A v \in Workers : v # w => phase'[v] = phase[v]
        /\ phase' \in [Workers -> Phases]
    BY <1>1, <2>1 DEF Phases
  <2>3. ControlTyped'
    BY <2>1, <2>2 DEF ControlInv, ControlTyped, WorkersShaped
  <2>4. NoOrphanRows' /\ CompletedMeansRunsDone' /\ QueueNeverAheadOfDatabase'
    BY <2>1 DEF ControlInv, NoOrphanRows, CompletedMeansRunsDone, QueueNeverAheadOfDatabase
  <2>5. WorkerInv(w)'
    BY <1>1, <2>1, <2>2
    DEF WorkerInv, HeldUnfinished, RunningExperiment, PlanSound, ReportSound, Held
  <2>6. QED
    BY <1>1, <2>1, <2>2, <2>3, <2>4, <2>5, MoverPreserves
<1>3. CASE Start(w) /\ exp = "absent"
  <2>1. /\ UNCHANGED <<run, job, worker, up, exp>> /\ phase' = [phase EXCEPT ![w] = "commit"]
        /\ plan' = [plan EXCEPT ![w] = [NoPlan EXCEPT !.report = "FAILED"]]
    BY <1>3 DEF Start, Enter, jobQueueVars, dbVars
  <2>2. /\ [NoPlan EXCEPT !.report = "FAILED"] = [run |-> Keep, exp |-> Keep, report |-> "FAILED"]
        /\ [run |-> Keep, exp |-> Keep, report |-> "FAILED"] \in Plans
    BY DEF NoPlan, Plans, Finished
  <2>3. plan'[w].run = Keep /\ plan'[w].exp = Keep /\ plan'[w].report = "FAILED"
    BY <1>1, <2>1, <2>2
  <2>4. \A j \in Held(w)' : run'[j] = "absent"
    BY <1>3, <2>1 DEF Held, ControlInv, NoOrphanRows
  <2>5. PlanSound(w)'
    BY <2>1, <2>3, <2>4 DEF PlanSound, Finished, Keep
  <2>6. QED
    BY <1>1, <2>1, <2>2, <2>5, DecisionPreserves
<1>4. CASE Start(w) /\ exp # "absent"
  <2>1. /\ UNCHANGED <<job, worker, up, plan>> /\ phase' = [phase EXCEPT ![w] = "run"]
        /\ exp' = "RUNNING" /\ run' = [run EXCEPT ![worker[w].job] = "RUNNING"]
    BY <1>4 DEF Start, Enter, jobQueueVars
  <2>2. /\ phase'[w] = "run" /\ \A v \in Workers : v # w => phase'[v] = phase[v]
        /\ phase' \in [Workers -> Phases]
    BY <1>1, <2>1 DEF Phases
  <2>3. /\ run' \in [Jobs -> RunStatus]
        /\ \A j \in Jobs : run'[j] = IF j \in Held(w) THEN "RUNNING" ELSE run[j]
    BY <1>1, <2>1 DEF Held, RunStatus
  <2>4. ControlTyped'
    BY <2>1, <2>2, <2>3 DEF ControlInv, ControlTyped, WorkersShaped
  <2>5. NoOrphanRows' /\ CompletedMeansRunsDone'
    BY <2>1 DEF NoOrphanRows, CompletedMeansRunsDone
  <2>6. QueueNeverAheadOfDatabase'
    BY <1>1, <2>1, <2>3 DEF ControlInv, QueueNeverAheadOfDatabase, HeldUnfinished, Finished
  <2>7. WorkerInv(w)'
    BY <1>1, <2>1, <2>2
    DEF WorkerInv, HeldUnfinished, RunningExperiment, PlanSound, ReportSound, Held
  <2>8. QED
    BY <1>1, <2>1, <2>2, <2>4, <2>5, <2>6, <2>7, MoverPreserves
<1>5. QED
  BY <1>2, <1>3, <1>4

\* The second transaction.
LEMMA CommitPreserves ==
  ASSUME ControlInv, NEW w \in Workers, Commit(w)
  PROVE  ControlInv'
<1> DEFINE p == plan[w]
<1>1. /\ w \in up /\ HeldUnfinished(w) /\ PlanSound(w) /\ phase[w] = "commit"
      /\ run \in [Jobs -> RunStatus] /\ phase \in [Workers -> Phases] /\ p \in Plans
  BY DEF ControlInv, ControlTyped, Commit, WorkerInv, HeldUnfinished
<1>2. /\ UNCHANGED <<job, worker, up, plan>> /\ phase' = [phase EXCEPT ![w] = "report"]
      /\ exp' = IF p.exp = Keep THEN exp ELSE p.exp
      /\ run' = [run EXCEPT ![worker[w].job] = IF p.run = Keep THEN @ ELSE p.run]
  BY DEF Commit, Enter, Written, jobQueueVars
<1>3. /\ phase'[w] = "report" /\ \A v \in Workers : v # w => phase'[v] = phase[v]
      /\ phase' \in [Workers -> Phases]
  BY <1>1, <1>2 DEF Phases
<1>4. /\ p.run \in RunStatus \union {Keep} /\ p.exp \in {Keep, "COMPLETED", "CANCELLED"}
  BY <1>1 DEF Plans
<1>5. \A j \in Jobs : run'[j] = IF j \in Held(w) /\ p.run # Keep THEN p.run ELSE run[j]
  BY <1>1, <1>2 DEF Held
<1>6. run' \in [Jobs -> RunStatus]
  BY <1>1, <1>2, <1>4, <1>5
<1>7. ControlTyped'
  BY <1>2, <1>3, <1>6 DEF ControlInv, ControlTyped, WorkersShaped
<1>8. NoOrphanRows'
  BY <1>1, <1>2, <1>4, <1>5 DEF ControlInv, NoOrphanRows, PlanSound, Keep
<1>9. CompletedMeansRunsDone'
  <2>1. CASE p.exp = "COMPLETED"
    <3>1. p.run = "COMPLETED" /\ \A j \in Jobs \ Held(w) : run[j] \in {"absent", "COMPLETED"}
      BY <1>1, <2>1 DEF PlanSound
    <3>2. QED
      BY <1>5, <3>1 DEF CompletedMeansRunsDone, Keep
  <2>2. CASE p.exp = Keep
    <3>1. exp' = exp
      BY <1>2, <2>2
    <3>2. exp = "COMPLETED" => \A j \in Held(w) : p.run \in {Keep, "COMPLETED"}
      BY <1>1 DEF PlanSound, Finished
    <3>3. QED
      BY <1>5, <3>1, <3>2 DEF ControlInv, CompletedMeansRunsDone
  <2>3. CASE p.exp = "CANCELLED"
    BY <1>2, <2>3 DEF CompletedMeansRunsDone, Keep
  <2>4. QED
    BY <1>4, <2>1, <2>2, <2>3
<1>10. QueueNeverAheadOfDatabase'
  BY <1>1, <1>2, <1>5 DEF ControlInv, QueueNeverAheadOfDatabase, HeldUnfinished, Finished
<1>11. ReportSound(w)'
  BY <1>1, <1>2, <1>3, <1>5 DEF ReportSound, PlanSound, Held, Finished, Keep
<1>12. WorkerInv(w)'
  BY <1>1, <1>2, <1>3, <1>11 DEF WorkerInv, HeldUnfinished, RunningExperiment, PlanSound, Held
<1>13. QED
  BY <1>1, <1>2, <1>3, <1>7, <1>8, <1>9, <1>10, <1>12, MoverPreserves

\* The job is reported to the queue, or the worker dies.
LEMMA LeavePreserves ==
  ASSUME ControlInv, NEW w \in Workers, Report(w) \/ CrashWorker(w)
  PROVE  ControlInv'
<1>1. /\ w \in up /\ UNCHANGED <<run, exp, up>>
      /\ phase' = [phase EXCEPT ![w] = "idle"] /\ plan' = [plan EXCEPT ![w] = NoPlan]
      /\ worker' = [worker EXCEPT ![w] = WorkerStart]
  BY DEF Report, CompleteJob, CrashWorker, Crash, Enter, dbVars, ControlInv, WorkerInv, HeldUnfinished
<1>2. /\ phase \in [Workers -> Phases] /\ plan \in [Workers -> Plans] /\ job \in [Jobs -> JobRecords]
      /\ WorkersShaped
  BY DEF ControlInv, ControlTyped
<1>3. phase'[w] = "idle" /\ \A v \in Workers : v # w => phase'[v] = phase[v]
  BY <1>1, <1>2
<1>4. /\ job' \in [Jobs -> JobRecords]
      /\ \A j \in Jobs : \/ job'[j].status = job[j].status
                         \/ /\ phase[w] = "report" /\ j \in Held(w)
                            /\ job'[j].status = plan[w].report
  <2>1. CASE CrashWorker(w)
    BY <1>2, <2>1 DEF CrashWorker, Crash
  <2>2. CASE Report(w)
    <3>1. /\ phase[w] = "report" /\ job' = [job EXCEPT ![worker[w].job].status = plan[w].report]
      BY <2>2 DEF Report, CompleteJob
    <3>2. plan[w].report \in JobStatus
      BY <3>1 DEF ControlInv, WorkerInv, ReportSound, JobStatus
    <3>3. QED
      BY <1>2, <3>1, <3>2 DEF JobRecords, Held
  <2>3. QED
    BY <2>1, <2>2
<1>5. NoPlan \in Plans
  BY DEF NoPlan, Plans
<1>6. ControlTyped'
  <2>1. WorkersShaped'
    BY <1>1, <1>2 DEF WorkersShaped, WorkerStart
  <2>2. QED
    BY <1>1, <1>2, <1>4, <1>5, <2>1 DEF ControlInv, ControlTyped, Phases
<1>7. NoOrphanRows' /\ CompletedMeansRunsDone'
  BY <1>1 DEF ControlInv, NoOrphanRows, CompletedMeansRunsDone
<1>8. QueueNeverAheadOfDatabase'
  BY <1>1, <1>4 DEF ControlInv, QueueNeverAheadOfDatabase, WorkerInv, ReportSound
<1>9. WorkerInv(w)'
  BY <1>3 DEF WorkerInv, HeldUnfinished, RunningExperiment, PlanSound, ReportSound
<1>10. QED
  BY <1>1, <1>3, <1>6, <1>7, <1>8, <1>9, MoverPreserves

LEMMA ControlStep ==
  ASSUME ControlInv, [ControlPlaneNext]_controlVars
  PROVE  ControlInv'
<1>1. job \in [Jobs -> JobRecords]
  BY DEF ControlInv, ControlTyped
<1>2. ASSUME NEW w \in Workers, Poll(w) PROVE ControlInv'
  <2>1. UNCHANGED <<run, worker, up, phase, plan, exp, job>>
    BY <1>2 DEF Poll, jobQueueVars, dbVars
  <2>2. QED
    BY <1>1, <2>1, RestPreserves
<1>3. ASSUME NEW j \in Jobs, AgeJob(j) PROVE ControlInv'
  <2>1. /\ UNCHANGED <<run, worker, up, phase, plan, exp>>
        /\ job' = [job EXCEPT ![j].claimed = "aged"]
    BY <1>3 DEF AgeJob, Age, dbVars, localVars
  <2>2. job' \in [Jobs -> JobRecords] /\ \A k \in Jobs : job'[k].status = job[k].status
    BY <1>1, <2>1 DEF JobRecords, Claims
  <2>3. QED
    BY <2>1, <2>2, RestPreserves
<1>4. CASE UNCHANGED controlVars
  <2>1. UNCHANGED <<run, worker, up, phase, plan, exp, job>>
    BY <1>4 DEF controlVars, jobQueueVars, dbVars, localVars
  <2>2. QED
    BY <1>1, <2>1, RestPreserves
<1>5. QED
  BY <1>2, <1>3, <1>4, ApiPreserves, LoopPreserves, StartPreserves, DecidePreserves, CommitPreserves,
     LeavePreserves DEF ControlPlaneNext, WorkerStep

\* The inductive invariant of a control plane with one deployed worker.
THEOREM ControlInvariant == ControlPlaneSpec /\ OneWorker => []ControlInv
<1>1. ControlInv /\ [ControlPlaneNext]_controlVars => ControlInv'
  BY ControlStep
<1>2. QED
  BY <1>1, ControlInitHolds, PTL DEF ControlPlaneSpec

\* With one worker a completed experiment has no row that is unfinished, failed or
\* cancelled, for any number of runs, handlers, re-runs, cancellations and crashes.
THEOREM CompletedExperiments == ControlPlaneSpec /\ OneWorker => []CompletedMeansRunsDone
<1>1. ControlInv => CompletedMeansRunsDone
  BY DEF ControlInv
<1>2. QED
  BY <1>1, ControlInvariant, PTL

\* The queue is never ahead of the database, whatever the step at which the worker dies.
THEOREM QueueFollowsDatabase == ControlPlaneSpec /\ OneWorker => []QueueNeverAheadOfDatabase
<1>1. ControlInv => QueueNeverAheadOfDatabase
  BY DEF ControlInv
<1>2. QED
  BY <1>1, ControlInvariant, PTL
===============================================================================

-------------------------- MODULE Configuration_proofs --------------------------
(***************************************************************************)
(* Proofs about Configuration: for every specification that can be written *)
(* with any finite set of names, however many services and dependencies.   *)
(*                                                                         *)
(* 1. Numbers and runs.  A loop over a list of names is a run: a function  *)
(*    from the number of names passed to what is then computed.  The two   *)
(*    recursive functions exist.                                           *)
(* 2. The graph.  What reaching a service through others comes to.         *)
(* 3. The walk.  visit() raises only inside of a cycle, and leaves behind  *)
(*    a closed set of services none of which reaches itself.               *)
(* 4. The order.  In a graph without cycles place() appends what is        *)
(*    missing below a service, each after everything it depends on.        *)
(* 5. Policies and routes.                                                 *)
(***************************************************************************)
EXTENDS Configuration, FiniteSetTheorems, SequenceTheorems, WellFoundedInduction, TLAPS

-------------------------------------------------------------------------------
(* 1. Numbers and runs                                                     *)

\* A nonempty set of natural numbers has a least element.
LEMMA LeastNatural ==
  ASSUME NEW S \in SUBSET Nat, S # {}
  PROVE  \E n \in S : \A m \in S : n <= m
<1> DEFINE Belows == {1..n : n \in S}
<1>1. Belows \subseteq FiniteSubsetsOf(Nat) /\ Belows # {}
  <2>1. \A n \in S : 1..n \in SUBSET Nat /\ IsFiniteSet(1..n)
    BY FS_Interval
  <2>2. QED
    BY <2>1 DEF FiniteSubsetsOf
<1>2. PICK I \in Belows : \A J \in Belows : ~(<<J, I>> \in StrictSubsetOrdering(Nat))
  BY <1>1, FS_StrictSubsetOrderingWellFounded, WFMin
<1>3. PICK n \in S : I = 1..n
  OBVIOUS
<1>4. \A m \in S : ~(m < n)
  <2>1. SUFFICES ASSUME NEW m \in S, m < n PROVE FALSE
    OBVIOUS
  <2>2. 1..m \in Belows /\ 1..m \subseteq 1..n /\ 1..m # 1..n
    <3>1. n \in 1..n /\ n \notin 1..m
      BY <2>1
    <3>2. QED
      BY <2>1, <3>1
  <2>3. <<1..m, I>> \in StrictSubsetOrdering(Nat)
    BY <2>2, <1>3 DEF StrictSubsetOrdering
  <2>4. QED
    BY <2>2, <2>3, <1>2
<1>5. QED
  BY <1>4

\* A set of numbers that holds 0 and the successors of its members holds them all.
LEMMA InductiveSet ==
  ASSUME NEW S, 0 \in S, \A n \in Nat : n \in S => n + 1 \in S
  PROVE  Nat \subseteq S
<1> DEFINE Out == Nat \ S
<1>1. SUFFICES ASSUME Out # {} PROVE FALSE
  OBVIOUS
<1>2. PICK n \in Out : \A m \in Out : n <= m
  BY <1>1, LeastNatural
<1>3. n # 0 /\ n - 1 \in Nat /\ n - 1 \notin Out
  BY <1>2
<1>4. QED
  BY <1>3

LEMMA MaxTop ==
  ASSUME NEW k \in Nat, NEW T \in SUBSET (1..k), k \in T
  PROVE  Max(T) = k
<1>1. k \in T /\ \A y \in T : k >= y
  OBVIOUS
<1>2. \A x \in T : (\A y \in T : x >= y) => x = k
  BY <1>1
<1>3. QED
  BY <1>1, <1>2 DEF Max

\* it is the function by which ForEach(names, step, start) is computed: from sets of
\* positions in names to results.
Iterates(it, n, names, step, start) ==
  it = [T \in SUBSET (1..n) |->
          IF T = {} THEN start ELSE step[<<names[Max(T)], it[T \ {Max(T)}]>>]]

LEMMA IteratesExist ==
  ASSUME NEW names, NEW step, NEW start, NEW n \in Nat
  PROVE  \E it : Iterates(it, n, names, step, start)
<1> DEFINE S == {k \in Nat : \E it : Iterates(it, k, names, step, start)}
<1>1. 0 \in S
  <2> DEFINE it == [T \in SUBSET (1..0) |-> start]
  <2>1. \A T \in SUBSET (1..0) : T = {}
    OBVIOUS
  <2>2. Iterates(it, 0, names, step, start)
    BY <2>1 DEF Iterates
  <2>3. QED
    BY <2>2
<1>2. ASSUME NEW k \in Nat, k \in S PROVE k + 1 \in S
  <2>1. PICK it : Iterates(it, k, names, step, start)
    BY <1>2
  <2> DEFINE top == k + 1
             jt == [T \in SUBSET (1..top) |->
                      IF top \in T THEN step[<<names[top], it[T \ {top}]>>] ELSE it[T]]
  <2>2. \A T \in SUBSET (1..top) : top \notin T => T \in SUBSET (1..k)
    OBVIOUS
  <2>3. ASSUME NEW T \in SUBSET (1..top)
        PROVE  jt[T] = IF T = {} THEN start ELSE step[<<names[Max(T)], jt[T \ {Max(T)}]>>]
    <3>1. CASE top \in T
      <4>1. Max(T) = top
        BY <3>1, MaxTop
      <4>2. jt[T \ {top}] = it[T \ {top}]
        OBVIOUS
      <4>3. QED
        BY <3>1, <4>1, <4>2
    <3>2. CASE top \notin T
      <4>1. jt[T] = it[T]
        BY <3>2
      <4>2. it[T] = IF T = {} THEN start ELSE step[<<names[Max(T)], it[T \ {Max(T)}]>>]
        BY <2>1, <2>2, <3>2 DEF Iterates
      <4>3. jt[T \ {Max(T)}] = it[T \ {Max(T)}]
        BY <3>2, <2>2
      <4>4. QED
        BY <4>1, <4>2, <4>3
    <3>3. QED
      BY <3>1, <3>2
  <2>4. Iterates(jt, top, names, step, start)
    BY <2>3 DEF Iterates
  <2>5. QED
    <3> HIDE DEF jt
    <3>1. \E it2 : Iterates(it2, k + 1, names, step, start)
      BY <2>4
    <3>2. QED
      BY <3>1
<1>3. Nat \subseteq S
  BY <1>1, <1>2, InductiveSet
<1>4. QED
  BY <1>3

\* run[k] is what a loop has computed after k names.
IsRun(run, names, step, start) ==
  /\ run[0] = start
  /\ \A k \in Nat : k < Len(names) => run[k + 1] = step[<<names[k + 1], run[k]>>]

\* A loop returns what its run ends with.
LEMMA LoopIsRun ==
  ASSUME NEW T, NEW names \in Seq(T), NEW step, NEW start
  PROVE  \E run : IsRun(run, names, step, start)
                  /\ ForEach(names, step, start) = run[Len(names)]
<1> DEFINE n == Len(names)
           Chosen == CHOOSE it : Iterates(it, n, names, step, start)
           run == [k \in 0..n |-> Chosen[1..k]]
<1>1. DOMAIN names = 1..n /\ n \in Nat
  BY LenProperties
<1>2. Iterates(Chosen, n, names, step, start)
  BY <1>1, IteratesExist
<1>3. ForEach(names, step, start) = Chosen[1..n]
  BY <1>1 DEF ForEach, FoldLeft, MapThenFoldSet, Iterates
<1>4. Chosen[1..0] = start
  <2>1. 1..0 = {} /\ 1..0 \in SUBSET (1..n)
    OBVIOUS
  <2> HIDE DEF Chosen
  <2>2. QED
    BY <1>2, <2>1 DEF Iterates
<1>5. ASSUME NEW k \in Nat, k < n
      PROVE  Chosen[1..(k + 1)] = step[<<names[k + 1], Chosen[1..k]>>]
  <2> DEFINE U == 1..(k + 1)
  <2>1. U \in SUBSET (1..n) /\ U # {}
    <3>1. 1 \in U /\ \A i \in U : i \in 1..n
      BY <1>5, <1>1
    <3>2. QED
      BY <3>1
  <2>2. Max(U) = k + 1
    BY MaxTop
  <2>3. U \ {k + 1} = 1..k
    OBVIOUS
  <2> HIDE DEF U, Chosen
  <2>4. Chosen[U] = step[<<names[Max(U)], Chosen[U \ {Max(U)}]>>]
    BY <1>2, <2>1 DEF Iterates
  <2>5. QED
    BY <2>2, <2>3, <2>4 DEF U
<1> HIDE DEF Chosen
<1>6. IsRun(run, names, step, start)
  BY <1>1, <1>4, <1>5 DEF IsRun
<1>7. ForEach(names, step, start) = run[n]
  BY <1>1, <1>3
<1>8. QED
  BY <1>6, <1>7

\* Something that holds at the start of a run and that every step keeps holds at its
\* end, when it is said with the set of the positions at which it holds.
LEMMA AllPositions ==
  ASSUME NEW n \in Nat, NEW S, 0 \in S, \A k \in Nat : k < n /\ k \in S => k + 1 \in S
  PROVE  \A k \in 0..n : k \in S
<1> DEFINE U == {k \in Nat : k <= n => k \in S}
<1>1. 0 \in U /\ \A k \in Nat : k \in U => k + 1 \in U
  OBVIOUS
<1>2. Nat \subseteq U
  BY <1>1, InductiveSet
<1>3. QED
  BY <1>2

VisitOf(deeper) == [p \in Names \X Walks |-> Visited(p[1], p[2], deeper)]
PlaceOf(deeper) == [p \in Names \X Orders |-> Placed(p[1], p[2], deeper)]
StayWalk == [p \in Names \X Walks |-> p[2]]
StayOrder == [p \in Names \X Orders |-> p[2]]

\* f and g are visit and place for the depths up to n.
IsVisit(f, n) == f = [depth \in 0..n |-> VisitOf(IF depth = 0 THEN StayWalk ELSE f[depth - 1])]
IsPlace(f, n) == f = [depth \in 0..n |-> PlaceOf(IF depth = 0 THEN StayOrder ELSE f[depth - 1])]

LEMMA VisitExists ==
  ASSUME NEW n \in Nat
  PROVE  \E f : IsVisit(f, n)
<1> DEFINE S == {k \in Nat : \E f : IsVisit(f, k)}
<1>1. 0 \in S
  <2> DEFINE f == [depth \in 0..0 |-> VisitOf(StayWalk)]
  <2>1. IsVisit(f, 0)
    BY DEF IsVisit
  <2>2. QED
    BY <2>1
<1>2. ASSUME NEW k \in Nat, k \in S PROVE k + 1 \in S
  <2>1. PICK f : IsVisit(f, k)
    BY <1>2
  <2> DEFINE g == [depth \in 0..(k + 1) |-> IF depth <= k THEN f[depth] ELSE VisitOf(f[k])]
  <2>2. ASSUME NEW depth \in 0..(k + 1)
        PROVE  g[depth] = VisitOf(IF depth = 0 THEN StayWalk ELSE g[depth - 1])
    <3>1. CASE depth <= k
      <4>1. f[depth] = VisitOf(IF depth = 0 THEN StayWalk ELSE f[depth - 1])
        BY <2>1, <3>1 DEF IsVisit
      <4>2. depth # 0 => g[depth - 1] = f[depth - 1]
        BY <3>1
      <4>3. QED
        BY <3>1, <4>1, <4>2
    <3>2. CASE depth = k + 1
      <4>1. g[depth - 1] = f[k] /\ depth # 0
        BY <3>2
      <4>2. QED
        BY <3>2, <4>1
    <3>3. QED
      BY <3>1, <3>2
  <2>3. IsVisit(g, k + 1)
    BY <2>2 DEF IsVisit
  <2>4. QED
    <3> HIDE DEF g
    <3>1. QED
      BY <2>3
<1>3. Nat \subseteq S
  BY <1>1, <1>2, InductiveSet
<1>4. QED
  BY <1>3

LEMMA PlaceExists ==
  ASSUME NEW n \in Nat
  PROVE  \E f : IsPlace(f, n)
<1> DEFINE S == {k \in Nat : \E f : IsPlace(f, k)}
<1>1. 0 \in S
  <2> DEFINE f == [depth \in 0..0 |-> PlaceOf(StayOrder)]
  <2>1. IsPlace(f, 0)
    BY DEF IsPlace
  <2>2. QED
    BY <2>1
<1>2. ASSUME NEW k \in Nat, k \in S PROVE k + 1 \in S
  <2>1. PICK f : IsPlace(f, k)
    BY <1>2
  <2> DEFINE g == [depth \in 0..(k + 1) |-> IF depth <= k THEN f[depth] ELSE PlaceOf(f[k])]
  <2>2. ASSUME NEW depth \in 0..(k + 1)
        PROVE  g[depth] = PlaceOf(IF depth = 0 THEN StayOrder ELSE g[depth - 1])
    <3>1. CASE depth <= k
      <4>1. f[depth] = PlaceOf(IF depth = 0 THEN StayOrder ELSE f[depth - 1])
        BY <2>1, <3>1 DEF IsPlace
      <4>2. depth # 0 => g[depth - 1] = f[depth - 1]
        BY <3>1
      <4>3. QED
        BY <3>1, <4>1, <4>2
    <3>2. CASE depth = k + 1
      <4>1. g[depth - 1] = f[k] /\ depth # 0
        BY <3>2
      <4>2. QED
        BY <3>2, <4>1
    <3>3. QED
      BY <3>1, <3>2
  <2>3. IsPlace(g, k + 1)
    BY <2>2 DEF IsPlace
  <2>4. QED
    <3> HIDE DEF g
    <3>1. QED
      BY <2>3
<1>3. Nat \subseteq S
  BY <1>1, <1>2, InductiveSet
<1>4. QED
  BY <1>3

LEMMA DepthsAre ==
  /\ Cardinality(Names) \in Nat
  /\ Depths = 0..Cardinality(Names)
BY ConfigurationAssumption, FS_CardinalityType DEF Depths

LEMMA VisitAt ==
  ASSUME NEW depth \in Depths
  PROVE  visit[depth] = VisitOf(IF depth = 0 THEN StayWalk ELSE visit[depth - 1])
<1> DEFINE n == Cardinality(Names)
           Chosen == CHOOSE f : IsVisit(f, n)
<1>1. IsVisit(Chosen, n)
  BY DepthsAre, VisitExists
<1>2. visit = Chosen
  BY DEF visit, Depths, IsVisit, VisitOf, StayWalk
<1> HIDE DEF Chosen
<1>3. QED
  BY <1>1, <1>2, DepthsAre DEF IsVisit

LEMMA PlaceAt ==
  ASSUME NEW depth \in Depths
  PROVE  place[depth] = PlaceOf(IF depth = 0 THEN StayOrder ELSE place[depth - 1])
<1> DEFINE n == Cardinality(Names)
           Chosen == CHOOSE f : IsPlace(f, n)
<1>1. IsPlace(Chosen, n)
  BY DepthsAre, PlaceExists
<1>2. place = Chosen
  BY DEF place, Depths, IsPlace, PlaceOf, StayOrder
<1> HIDE DEF Chosen
<1>3. QED
  BY <1>1, <1>2, DepthsAre DEF IsPlace

-------------------------------------------------------------------------------
(* 2. The graph                                                            *)

Service == [name : Names, depends : Seq(Names)]
Link == [source : {"order_api", "other"}, target : Names]

\* What is written, whatever the order of the edits.
ConfigurationTypeOK ==
  /\ services \in Seq(Service)
  /\ failures \in Seq(Names)
  /\ edges \in Seq(Link)
  /\ DOMAIN policy \subseteq Sections /\ \A s \in DOMAIN policy : policy[s] \in Partial(s)
  /\ \A n \in DOMAIN overrides :
       /\ DOMAIN overrides[n] \subseteq Sections
       /\ \A s \in DOMAIN overrides[n] : overrides[n][s] \in Partial(s)

LEMMA ConfigurationTyped == ConfigurationSpec => []ConfigurationTypeOK
<1>1. ConfigurationInit => ConfigurationTypeOK
  BY DEF ConfigurationInit, ConfigurationTypeOK
<1>2. ConfigurationTypeOK /\ [ConfigurationNext]_configurationVars => ConfigurationTypeOK'
  <2> SUFFICES ASSUME ConfigurationTypeOK, [ConfigurationNext]_configurationVars
               PROVE  ConfigurationTypeOK'
    OBVIOUS
  <2> USE DEF ConfigurationTypeOK
  <2>1. ASSUME NEW name \in Names, NEW depends \in Depends, AddService(name, depends)
        PROVE  ConfigurationTypeOK'
    <3>1. depends \in Seq(Names)
      BY ConfigurationAssumption DEF Depends
    <3>2. [name |-> name, depends |-> depends] \in Service
      BY <3>1 DEF Service
    <3>3. QED
      BY <2>1, <3>2 DEF AddService
  <2>2. ASSUME NEW target \in Names, AddFailure(target) PROVE ConfigurationTypeOK'
    BY <2>2 DEF AddFailure
  <2>3. ASSUME NEW name \in Names, NEW source \in {"order_api", "other"}, AddEdge(source, name)
        PROVE  ConfigurationTypeOK'
    <3>1. [source |-> source, target |-> name] \in Link
      BY DEF Link
    <3>2. QED
      BY <2>3, <3>1 DEF AddEdge
  <2>4. ASSUME NEW section \in Sections, NEW value \in Partial(section),
               WriteSection(section, value)
        PROVE  ConfigurationTypeOK'
    BY <2>4 DEF WriteSection, Put
  <2>5. ASSUME NEW section \in Sections, NEW value \in Partial(section), NEW name \in Names,
               WriteOverride(name, section, value)
        PROVE  ConfigurationTypeOK'
    <3> DEFINE written == Put(<<>>, section, value)
    <3>1. DOMAIN written = {section} /\ written[section] = value
      BY DEF Put
    <3>2. \A n \in DOMAIN overrides' : overrides'[n] = IF n = name THEN written ELSE overrides[n]
      <4> HIDE DEF written
      <4>1. overrides' = Put(overrides, name, written)
        BY <2>5 DEF WriteOverride, written
      <4>2. QED
        BY <4>1 DEF Put
    <3>3. \A n \in DOMAIN overrides' : n # name => n \in DOMAIN overrides
      BY <2>5 DEF WriteOverride, Put
    <3> HIDE DEF written
    <3>4. \A n \in DOMAIN overrides' :
            /\ DOMAIN overrides'[n] \subseteq Sections
            /\ \A s \in DOMAIN overrides'[n] : overrides'[n][s] \in Partial(s)
      BY <3>1, <3>2, <3>3
    <3>5. QED
      BY <2>5, <3>4 DEF WriteOverride
  <2>6. ASSUME NEW field, NEW value, WriteWorkload(field, value) PROVE ConfigurationTypeOK'
    BY <2>6 DEF WriteWorkload
  <2>7. CASE UNCHANGED configurationVars
    BY <2>7 DEF configurationVars
  <2>8. QED
    BY <2>1, <2>2, <2>3, <2>4, <2>5, <2>6, <2>7 DEF ConfigurationNext
<1>3. QED
  BY <1>1, <1>2, PTL DEF ConfigurationSpec


\* The services of an accepted specification: each name is that of one service, which
\* depends on other declared ones.
LEMMA DeclaredIs ==
  ASSUME ConfigurationTypeOK
  PROVE  /\ Declared \subseteq Names /\ IsFiniteSet(Declared)
         /\ Cardinality(Declared) \in Nat /\ Cardinality(Declared) <= Cardinality(Names)
         /\ Len(services) \in Nat /\ DOMAIN services = 1..Len(services)
         /\ DeclaredNames \in Seq(Declared) /\ Len(DeclaredNames) = Len(services)
         /\ \A k \in 1..Len(services) : DeclaredNames[k] = services[k].name
         /\ ToSet(DeclaredNames) = Declared
<1>1. /\ Len(services) \in Nat /\ DOMAIN services = 1..Len(services)
      /\ \A k \in 1..Len(services) : services[k] \in Service
  BY LenProperties, ElementOfSeq DEF ConfigurationTypeOK
<1>2. Declared \subseteq Names
  BY <1>1 DEF Declared, Service
<1>3. /\ IsFiniteSet(Declared)
      /\ Cardinality(Declared) \in Nat /\ Cardinality(Declared) <= Cardinality(Names)
  BY <1>2, ConfigurationAssumption, FS_Subset, FS_CardinalityType
<1>4. DeclaredNames \in [1..Len(services) -> Declared]
  BY <1>1 DEF DeclaredNames, Declared
<1>5. DeclaredNames \in Seq(Declared) /\ Len(DeclaredNames) = Len(services)
  BY <1>1, <1>4
<1>6. \A k \in 1..Len(services) : DeclaredNames[k] = services[k].name
  BY <1>1 DEF DeclaredNames
<1>7. ToSet(DeclaredNames) = Declared
  BY <1>1 DEF DeclaredNames, Declared, ToSet
<1>8. QED
  BY <1>1, <1>2, <1>3, <1>5, <1>6, <1>7

LEMMA DependsIs ==
  ASSUME ConfigurationTypeOK, NamesValid, NEW n \in Declared
  PROVE  DependsOf(n) \in Seq(Declared) /\ ToSet(DependsOf(n)) \subseteq Declared \ {n}
<1>1. \A s \in ToSet(services) : s \in Service
  BY DeclaredIs, ElementOfSeq DEF ToSet, ConfigurationTypeOK
<1>2. \E s \in ToSet(services) : s.name = n
  BY DEF Declared, ToSet
<1> DEFINE t == CHOOSE s \in ToSet(services) : s.name = n
<1>3. t \in ToSet(services) /\ t.name = n
  BY <1>2
<1> HIDE DEF t
<1>4. t.depends \in Seq(Names) /\ ToSet(t.depends) \subseteq Declared \ {n}
  BY <1>1, <1>3 DEF NamesValid, Service
<1>5. t.depends \in Seq(Declared)
  <2>1. DOMAIN t.depends = 1..Len(t.depends) /\ Len(t.depends) \in Nat
    BY <1>4, LenProperties
  <2>2. \A k \in 1..Len(t.depends) : t.depends[k] \in Declared
    BY <1>4, <2>1 DEF ToSet
  <2>3. QED
    BY <1>4, <2>1, <2>2, SeqDef
<1>6. QED
  BY <1>4, <1>5 DEF DependsOf, t

LEMMA ReachesAtOnce ==
  ASSUME ConfigurationTypeOK, NamesValid, NEW n \in Declared, NEW d \in ToSet(DependsOf(n))
  PROVE  d \in Reaches(n)
BY DependsIs DEF Reaches

LEMMA ReachesOn ==
  ASSUME ConfigurationTypeOK, NamesValid, NEW n \in Declared, NEW m \in Reaches(n),
         NEW d \in ToSet(DependsOf(m))
  PROVE  d \in Reaches(n)
<1>1. m \in Declared /\ d \in Declared
  BY DependsIs DEF Reaches
<1>2. ASSUME NEW S \in SUBSET Declared, ToSet(DependsOf(n)) \subseteq S, Closed(S)
      PROVE  d \in S
  <2>1. m \in S
    BY <1>2 DEF Reaches
  <2>2. QED
    BY <1>2, <2>1 DEF Closed
<1>3. QED
  BY <1>1, <1>2 DEF Reaches

\* What is reached lies in every closed set that holds what is depended on.
LEMMA ReachesWithin ==
  ASSUME NEW n, NEW S \in SUBSET Declared, ToSet(DependsOf(n)) \subseteq S, Closed(S)
  PROVE  Reaches(n) \subseteq S
BY DEF Reaches

LEMMA ReachesThrough ==
  ASSUME ConfigurationTypeOK, NamesValid, NEW n \in Declared, NEW m \in Reaches(n)
  PROVE  Reaches(m) \subseteq Reaches(n)
<1>1. Reaches(n) \in SUBSET Declared /\ Closed(Reaches(n))
  BY ReachesOn DEF Reaches, Closed
<1>2. ToSet(DependsOf(m)) \subseteq Reaches(n)
  BY ReachesOn
<1>3. QED
  BY <1>1, <1>2, ReachesWithin

-------------------------------------------------------------------------------
(* 3. The walk                                                             *)

InState(w, state) == {n \in Declared : w.seen[n] = state}
SomeCycle == \E n \in Declared : n \in Reaches(n)

\* The services that have been left depend on no other ones, and none reaches itself.
SafelyLeft(w) ==
  /\ Closed(InState(w, Left))
  /\ \A n \in InState(w, Left) : n \notin Reaches(n)

\* What has become of a walk w after visits to the services S.
After(w, r, S) ==
  /\ r \in Walks
  /\ r.cyclic => SomeCycle
  /\ ~r.cyclic => /\ SafelyLeft(r)
                  /\ InState(r, Entered) = InState(w, Entered)
                  /\ InState(w, Left) \subseteq InState(r, Left)
                  /\ S \subseteq InState(r, Left)

\* The walk is inside of services that all reach this one.
Inside(w, name) == \A e \in InState(w, Entered) : name \in Reaches(e)

\* What a visit may rely on: the walk may still go as deep as there are unseen services.
Visitable(w, depth) ==
  /\ w \in Walks /\ ~w.cyclic /\ SafelyLeft(w)
  /\ Cardinality(InState(w, Unseen)) <= depth

VisitsWell(step, depth) ==
  /\ \A name \in Declared, w \in Walks : w.cyclic => step[<<name, w>>] = w
  /\ \A name \in Declared, w \in Walks :
       Visitable(w, depth) /\ Inside(w, name) => After(w, step[<<name, w>>], {name})

LEMMA StatesOfWalk ==
  ASSUME ConfigurationTypeOK, NEW w \in Walks
  PROVE  /\ Declared = InState(w, Unseen) \union InState(w, Entered) \union InState(w, Left)
         /\ InState(w, Unseen) \cap InState(w, Entered) = {}
         /\ InState(w, Unseen) \cap InState(w, Left) = {}
         /\ InState(w, Entered) \cap InState(w, Left) = {}
         /\ IsFiniteSet(InState(w, Unseen))
         /\ Cardinality(InState(w, Unseen)) \in Nat
<1>1. \A n \in Declared : w.seen[n] \in {Unseen, Entered, Left}
  BY DeclaredIs DEF Walks
<1>2. InState(w, Unseen) \subseteq Declared
  BY DEF InState
<1>3. IsFiniteSet(InState(w, Unseen)) /\ Cardinality(InState(w, Unseen)) \in Nat
  BY <1>2, DeclaredIs, FS_Subset, FS_CardinalityType
<1>4. QED
  BY <1>1, <1>3 DEF InState, Unseen, Entered, Left

\* No visit adds to what is unseen.
LEMMA UnseenShrinks ==
  ASSUME ConfigurationTypeOK, NEW w \in Walks, NEW r \in Walks,
         InState(r, Entered) = InState(w, Entered), InState(w, Left) \subseteq InState(r, Left)
  PROVE  Cardinality(InState(r, Unseen)) <= Cardinality(InState(w, Unseen))
<1>1. InState(r, Unseen) \subseteq InState(w, Unseen)
  BY StatesOfWalk
<1>2. QED
  BY <1>1, StatesOfWalk, FS_Subset

\* A loop of visits that each do what a visit should does so as a whole.
LEMMA LoopOfVisits ==
  ASSUME ConfigurationTypeOK, NEW step, NEW depth \in Nat, VisitsWell(step, depth),
         NEW w \in Walks, Visitable(w, depth), NEW list \in Seq(Declared),
         \A d \in ToSet(list) : Inside(w, d)
  PROVE  After(w, ForEach(list, step, w), ToSet(list))
<1>1. PICK run : IsRun(run, list, step, w) /\ ForEach(list, step, w) = run[Len(list)]
  BY LoopIsRun
<1> DEFINE n == Len(list)
           Passed(k) == {list[j] : j \in 1..k}
           S == {k \in Nat : After(w, run[k], Passed(k))}
<1>2. n \in Nat /\ DOMAIN list = 1..n /\ \A k \in 1..n : list[k] \in Declared
  BY LenProperties, ElementOfSeq
<1>3. 0 \in S
  <2>1. run[0] = w /\ Passed(0) = {}
    BY <1>1 DEF IsRun
  <2> HIDE DEF Passed
  <2>2. QED
    BY <2>1 DEF After, Visitable
<1>4. ASSUME NEW k \in Nat, k < n, k \in S PROVE k + 1 \in S
  <2> DEFINE r == run[k]
             d == list[k + 1]
             q == run[k + 1]
  <2>1. After(w, r, Passed(k)) /\ q = step[<<d, r>>] /\ d \in Declared /\ Inside(w, d)
    BY <1>1, <1>2, <1>4 DEF IsRun, ToSet
  <2>2. Passed(k + 1) = Passed(k) \union {d}
    <3>1. 1..(k + 1) = 1..k \union {k + 1}
      OBVIOUS
    <3>2. QED
      BY <3>1
  <2> HIDE DEF r, d, q, Passed
  <2>3. CASE r.cyclic
    <3>1. q = r
      BY <2>1, <2>3 DEF VisitsWell, After
    <3>2. After(w, q, Passed(k + 1))
      BY <2>1, <2>3, <3>1 DEF After
    <3>3. QED
      BY <3>2 DEF q
  <2>4. CASE ~r.cyclic
    <3>1. /\ r \in Walks /\ SafelyLeft(r) /\ InState(r, Entered) = InState(w, Entered)
          /\ InState(w, Left) \subseteq InState(r, Left) /\ Passed(k) \subseteq InState(r, Left)
      BY <2>1, <2>4 DEF After
    <3>2. Visitable(r, depth)
      <4>1. Cardinality(InState(r, Unseen)) <= Cardinality(InState(w, Unseen))
        BY <3>1, UnseenShrinks
      <4>2. QED
        BY <2>4, <3>1, <4>1, StatesOfWalk DEF Visitable
    <3>3. Inside(r, d)
      BY <2>1, <3>1 DEF Inside
    <3>4. After(r, q, {d})
      BY <2>1, <3>1, <3>2, <3>3 DEF VisitsWell
    <3>5. After(w, q, Passed(k + 1))
      BY <2>2, <3>1, <3>4 DEF After
    <3>6. QED
      BY <3>5 DEF q
  <2>5. QED
    BY <2>3, <2>4
<1>5. n \in S
  <2> HIDE DEF S
  <2>1. \A k \in 0..n : k \in S
    BY <1>2, <1>3, <1>4, AllPositions
  <2>2. QED
    BY <1>2, <2>1
<1>6. Passed(n) = ToSet(list)
  BY <1>2 DEF ToSet
<1> HIDE DEF Passed
<1>7. QED
  BY <1>1, <1>5, <1>6


\* One service: what it depends on is visited between its entering and its leaving.
LEMMA OneVisit ==
  ASSUME ConfigurationTypeOK, NamesValid, NEW depth \in Nat, NEW deeper,
         depth # 0 => VisitsWell(deeper, depth - 1),
         NEW name \in Declared, NEW w \in Walks, Visitable(w, depth), Inside(w, name)
  PROVE  After(w, Visited(name, w, deeper), {name})
<1> DEFINE e == [w EXCEPT !.seen[name] = Entered]
           deps == DependsOf(name)
           inside == ForEach(deps, deeper, e)
           r == [inside EXCEPT !.seen[name] = Left]
<1>0. name \in Names
  BY DeclaredIs
<1>1. CASE w.seen[name] = Left
  <2>1. Visited(name, w, deeper) = w
    BY <1>1 DEF Visited
  <2>2. name \in InState(w, Left)
    BY <1>1 DEF InState
  <2>3. QED
    BY <2>1, <2>2 DEF After, Visitable
<1>2. CASE w.seen[name] = Entered
  <2>1. Visited(name, w, deeper) = [w EXCEPT !.cyclic = TRUE]
    BY <1>2 DEF Visited, Visitable, Entered, Left
  <2>2. name \in Reaches(name)
    BY <1>2 DEF Inside, InState
  <2>3. [w EXCEPT !.cyclic = TRUE] \in Walks /\ [w EXCEPT !.cyclic = TRUE].cyclic = TRUE
    BY DEF Walks
  <2>4. QED
    BY <2>1, <2>2, <2>3 DEF After, SomeCycle
<1>3. CASE w.seen[name] = Unseen
  <2>1. Visited(name, w, deeper) = r
    BY <1>3 DEF Visited, Visitable, Unseen, Entered, Left
  <2>2. e \in Walks /\ e.cyclic = w.cyclic
        /\ \A m \in Declared : e.seen[m] = IF m = name THEN Entered ELSE w.seen[m]
    BY <1>0, DeclaredIs DEF Walks
  <2> HIDE DEF e
  <2>3. /\ InState(e, Entered) = InState(w, Entered) \union {name}
        /\ InState(e, Left) = InState(w, Left)
        /\ InState(e, Unseen) = InState(w, Unseen) \ {name}
        /\ name \in InState(w, Unseen) /\ name \notin InState(w, Entered)
    BY <1>3, <2>2 DEF InState, Unseen, Entered, Left
  <2>4. SafelyLeft(e)
    BY <2>3 DEF SafelyLeft, Visitable
  <2>5. depth # 0 /\ Cardinality(InState(e, Unseen)) <= depth - 1
    <3>1. Cardinality(InState(e, Unseen)) = Cardinality(InState(w, Unseen)) - 1
      BY <2>3, StatesOfWalk, FS_RemoveElement
    <3>2. Cardinality(InState(e, Unseen)) \in Nat /\ Cardinality(InState(w, Unseen)) \in Nat
      BY <2>2, StatesOfWalk
    <3>3. QED
      BY <3>1, <3>2 DEF Visitable
  <2>6. Visitable(e, depth - 1)
    BY <2>2, <2>4, <2>5 DEF Visitable
  <2>7. deps \in Seq(Declared)
    BY DependsIs
  <2>8. \A d \in ToSet(deps) : Inside(e, d)
    BY <2>3, ReachesAtOnce, ReachesOn DEF Inside, InState
  <2> HIDE DEF deps
  <2>9. After(e, inside, ToSet(deps))
    BY <2>2, <2>5, <2>6, <2>7, <2>8, LoopOfVisits
  <2> HIDE DEF inside
  <2>10. inside \in Walks
    BY <2>9 DEF After
  <2>11. /\ r \in Walks /\ r.cyclic = inside.cyclic
         /\ \A m \in Declared : r.seen[m] = IF m = name THEN Left ELSE inside.seen[m]
    BY <1>0, <2>10, DeclaredIs DEF Walks
  <2> HIDE DEF r
  <2>12. CASE inside.cyclic
    BY <2>1, <2>9, <2>11, <2>12 DEF After
  <2>13. CASE ~inside.cyclic
    <3>1. /\ SafelyLeft(inside) /\ InState(inside, Entered) = InState(w, Entered) \union {name}
          /\ InState(w, Left) \subseteq InState(inside, Left)
          /\ ToSet(deps) \subseteq InState(inside, Left)
      BY <2>3, <2>9, <2>13 DEF After
    <3>2. /\ InState(r, Left) = InState(inside, Left) \union {name}
          /\ InState(r, Entered) = InState(inside, Entered) \ {name}
      BY <2>11 DEF InState, Entered, Left
    <3>3. name \notin InState(inside, Left)
      BY <2>10, <3>1, StatesOfWalk
    <3>4. Reaches(name) \subseteq InState(inside, Left)
      <4>1. InState(inside, Left) \in SUBSET Declared /\ Closed(InState(inside, Left))
        BY <3>1 DEF SafelyLeft, InState
      <4>2. QED
        BY <3>1, <4>1, ReachesWithin DEF deps
    <3>5. SafelyLeft(r)
      BY <3>1, <3>2, <3>3, <3>4 DEF SafelyLeft, Closed, deps
    <3>6. InState(r, Entered) = InState(w, Entered)
      BY <2>3, <3>1, <3>2
    <3>7. QED
      BY <2>1, <2>11, <2>13, <3>1, <3>2, <3>5, <3>6 DEF After
  <2>14. QED
    BY <2>12, <2>13
<1>4. QED
  BY <1>1, <1>2, <1>3, <1>0 DEF Walks

LEMMA VisitDoesWell ==
  ASSUME ConfigurationTypeOK, NamesValid
  PROVE  \A depth \in Depths : VisitsWell(visit[depth], depth)
<1> DEFINE n == Cardinality(Names)
           S == {k \in Nat : k <= n => VisitsWell(visit[k], k)}
           Below(k) == IF k = 0 THEN StayWalk ELSE visit[k - 1]
<1>1. ASSUME NEW k \in Depths, k # 0 => VisitsWell(visit[k - 1], k - 1)
      PROVE  VisitsWell(visit[k], k)
  <2>1. \A name \in Declared, w \in Walks : visit[k][<<name, w>>] = Visited(name, w, Below(k))
    <3>1. visit[k] = VisitOf(Below(k))
      BY VisitAt
    <3> HIDE DEF Below
    <3>2. QED
      BY <3>1, DeclaredIs DEF VisitOf
  <2>2. k \in Nat /\ (k # 0 => Below(k) = visit[k - 1])
    BY DepthsAre
  <2> HIDE DEF Below
  <2>3. \A name \in Declared, w \in Walks : w.cyclic => visit[k][<<name, w>>] = w
    BY <2>1 DEF Visited
  <2>4. ASSUME NEW name \in Declared, NEW w \in Walks, Visitable(w, k), Inside(w, name)
        PROVE  After(w, visit[k][<<name, w>>], {name})
    BY <1>1, <2>1, <2>2, <2>4, OneVisit
  <2>5. QED
    BY <2>3, <2>4 DEF VisitsWell
<1> HIDE DEF Below
<1>2. 0 \in S
  BY <1>1, DepthsAre
<1>3. ASSUME NEW k \in Nat, k \in S PROVE k + 1 \in S
  <2>1. SUFFICES ASSUME k + 1 <= n PROVE VisitsWell(visit[k + 1], k + 1)
    OBVIOUS
  <2>2. VisitsWell(visit[k], k) /\ k + 1 \in Depths /\ (k + 1) - 1 = k
    BY <1>3, <2>1, DepthsAre
  <2>3. QED
    BY <1>1, <2>2
<1>4. Nat \subseteq S
  <2> HIDE DEF S
  <2>1. QED
    BY <1>2, <1>3, InductiveSet
<1>5. QED
  BY <1>4, DepthsAre

\* The walk of _check_graph() raises exactly if some service reaches itself.
LEMMA WalkFindsCycles ==
  ASSUME ConfigurationTypeOK, NamesValid
  PROVE  Walk.cyclic <=> SomeCycle
<1> DEFINE start == [seen |-> [n \in Names |-> Unseen], cyclic |-> FALSE]
           depth == Cardinality(Names)
<1>1. depth \in Depths /\ depth \in Nat
  BY DepthsAre
<1>2. start \in Walks /\ start.cyclic = FALSE /\ \A n \in Names : start.seen[n] = Unseen
  BY DEF Walks
<1> HIDE DEF start
<1>3. InState(start, Entered) = {} /\ InState(start, Left) = {}
      /\ InState(start, Unseen) = Declared
  BY <1>2, DeclaredIs DEF InState, Unseen, Entered, Left
<1>4. Visitable(start, depth) /\ \A d \in Declared : Inside(start, d)
  BY <1>2, <1>3, DeclaredIs DEF Visitable, SafelyLeft, Closed, Inside
<1>5. VisitsWell(visit[depth], depth)
  BY <1>1, VisitDoesWell
<1>6. Walk = ForEach(DeclaredNames, visit[depth], start)
  BY DEF Walk, start
<1>7. After(start, Walk, Declared)
  BY <1>1, <1>2, <1>4, <1>5, <1>6, LoopOfVisits, DeclaredIs
<1>8. ~Walk.cyclic => ~SomeCycle
  BY <1>7 DEF After, SafelyLeft, SomeCycle
<1>9. QED
  BY <1>7, <1>8 DEF After


-------------------------------------------------------------------------------
(* 4. The order                                                            *)

\* An order so far: declared services, each once and after what it depends on.
SoundOrder(o) ==
  /\ o \in Seq(Names) /\ ToSet(o) \subseteq Declared
  /\ IsInjective(o) /\ RespectsDependencies(o)

\* The services S and what they reach.
Below(S) == S \union UNION {Reaches(n) : n \in S}

\* What has become of an order o after the services S have been placed.
Ordered(o, r, S) ==
  /\ SoundOrder(r)
  /\ ToSet(o) \subseteq ToSet(r) /\ S \subseteq ToSet(r)
  /\ ToSet(r) \subseteq ToSet(o) \union Below(S)

\* A service can be placed if no more services are below it than it may go deep.
PlacesWell(step, depth) ==
  /\ \A name \in Declared, o \in Orders : name \in ToSet(o) => step[<<name, o>>] = o
  /\ \A name \in Declared, o \in Orders :
       Cardinality(Reaches(name)) <= depth /\ SoundOrder(o) =>
         /\ Ordered(o, step[<<name, o>>], {name})
         /\ name \notin ToSet(o) /\ ToSet(DependsOf(name)) \subseteq ToSet(o) =>
              step[<<name, o>>] = Append(o, name)

LEMMA ToSetOf ==
  ASSUME NEW T, NEW s \in Seq(T)
  PROVE  /\ Len(s) \in Nat /\ DOMAIN s = 1..Len(s)
         /\ \A x : x \in ToSet(s) <=> \E k \in 1..Len(s) : s[k] = x
         /\ \A x : Contains(s, x) <=> x \in ToSet(s)
<1>1. Len(s) \in Nat /\ DOMAIN s = 1..Len(s)
  BY LenProperties
<1>2. \A x : x \in ToSet(s) <=> \E k \in 1..Len(s) : s[k] = x
  BY <1>1 DEF ToSet
<1>3. QED
  BY <1>1, <1>2 DEF Contains

LEMMA ToSetAppend ==
  ASSUME NEW T, NEW s \in Seq(T), NEW x \in T
  PROVE  ToSet(Append(s, x)) = ToSet(s) \union {x}
<1> DEFINE t == Append(s, x)
           m == Len(s)
<1>1. t \in Seq(T) /\ Len(t) = m + 1 /\ m \in Nat
      /\ (\A i \in 1..m : t[i] = s[i]) /\ t[m + 1] = x
  BY AppendProperties, LenProperties
<1> HIDE DEF t
<1>2. DOMAIN t = 1..(m + 1) /\ DOMAIN s = 1..m
  BY <1>1, LenProperties
<1>3. 1..(m + 1) = 1..m \union {m + 1}
  BY <1>1
<1> HIDE DEF m
<1>4. ToSet(t) = ToSet(s) \union {x}
  BY <1>1, <1>2, <1>3 DEF ToSet
<1>5. QED
  BY <1>4 DEF t

\* A service whose dependencies are placed may come next.
LEMMA SoundAppend ==
  ASSUME ConfigurationTypeOK, NEW o, SoundOrder(o), NEW name \in Declared,
         name \notin ToSet(o), ToSet(DependsOf(name)) \subseteq ToSet(o)
  PROVE  SoundOrder(Append(o, name))
<1> DEFINE t == Append(o, name)
           m == Len(o)
<1>0. name \in Names /\ o \in Seq(Names)
  BY DeclaredIs DEF SoundOrder
<1>1. t \in Seq(Names) /\ Len(t) = m + 1 /\ m \in Nat
      /\ (\A i \in 1..m : t[i] = o[i]) /\ t[m + 1] = name
  BY <1>0, AppendProperties, LenProperties
<1>2. ToSet(t) = ToSet(o) \union {name}
  BY <1>0, ToSetAppend
<1> HIDE DEF t
<1>3. DOMAIN t = 1..(m + 1) /\ DOMAIN o = 1..m
  BY <1>0, <1>1, LenProperties
<1>4. ToSet(t) \subseteq Declared
  BY <1>2 DEF SoundOrder
<1>5. \A i \in 1..m : o[i] # name
  BY <1>3 DEF ToSet
<1>6. IsInjective(t)
  <2>1. \A i, j \in 1..m : o[i] = o[j] => i = j
    BY <1>3 DEF SoundOrder, IsInjective
  <2>2. SUFFICES ASSUME NEW i \in 1..(m + 1), NEW j \in 1..(m + 1), t[i] = t[j] PROVE i = j
    BY <1>3 DEF IsInjective
  <2>3. QED
    BY <1>1, <1>5, <2>1, <2>2
<1>7. RespectsDependencies(t)
  <2>1. SUFFICES ASSUME NEW j \in 1..(m + 1), NEW d \in ToSet(DependsOf(t[j]))
                 PROVE  \E k \in 1..(j - 1) : t[k] = d
    BY <1>3 DEF RespectsDependencies
  <2>2. CASE j \in 1..m
    <3>1. PICK k \in 1..(j - 1) : o[k] = d
      BY <1>1, <1>3, <2>1, <2>2 DEF SoundOrder, RespectsDependencies
    <3>2. QED
      BY <1>1, <2>2, <3>1
  <2>3. CASE j = m + 1
    <3>1. PICK k \in 1..m : o[k] = d
      BY <1>1, <1>3, <2>1, <2>3 DEF ToSet
    <3>2. QED
      BY <1>1, <2>3, <3>1
  <2>4. QED
    BY <1>1, <2>1, <2>2, <2>3
<1>8. QED
  BY <1>1, <1>4, <1>6, <1>7 DEF SoundOrder, t

\* A loop of placings that each do what a placing should does so as a whole, and
\* changes nothing if there is nothing to place.
LEMMA LoopOfPlacings ==
  ASSUME ConfigurationTypeOK, NEW step, NEW depth \in Nat, PlacesWell(step, depth),
         NEW o, SoundOrder(o), NEW list \in Seq(Declared),
         \A d \in ToSet(list) : Cardinality(Reaches(d)) <= depth
  PROVE  /\ Ordered(o, ForEach(list, step, o), ToSet(list))
         /\ ToSet(list) \subseteq ToSet(o) => ForEach(list, step, o) = o
<1>1. PICK run : IsRun(run, list, step, o) /\ ForEach(list, step, o) = run[Len(list)]
  BY LoopIsRun
<1> DEFINE n == Len(list)
           Passed(k) == {list[j] : j \in 1..k}
           S == {k \in Nat : Ordered(o, run[k], Passed(k))
                             /\ (ToSet(list) \subseteq ToSet(o) => run[k] = o)}
<1>2. n \in Nat /\ DOMAIN list = 1..n /\ \A k \in 1..n : list[k] \in Declared
  BY LenProperties, ElementOfSeq
<1>3. 0 \in S
  <2>1. run[0] = o /\ Passed(0) = {}
    BY <1>1 DEF IsRun
  <2> HIDE DEF Passed
  <2>2. QED
    BY <2>1 DEF Ordered
<1>4. ASSUME NEW k \in Nat, k < n, k \in S PROVE k + 1 \in S
  <2> DEFINE r == run[k]
             d == list[k + 1]
             q == run[k + 1]
  <2>1. /\ Ordered(o, r, Passed(k)) /\ (ToSet(list) \subseteq ToSet(o) => r = o)
        /\ q = step[<<d, r>>] /\ d \in Declared /\ d \in ToSet(list)
    <3>1. Ordered(o, r, Passed(k)) /\ (ToSet(list) \subseteq ToSet(o) => r = o)
      BY <1>4
    <3> HIDE DEF Passed
    <3>2. q = step[<<d, r>>]
      BY <1>1, <1>4 DEF IsRun
    <3>3. k + 1 \in 1..n
      BY <1>2, <1>4
    <3>4. d \in Declared /\ d \in ToSet(list)
      BY <1>2, <3>3 DEF ToSet
    <3>5. QED
      BY <3>1, <3>2, <3>4
  <2>2. Passed(k + 1) = Passed(k) \union {d}
    <3>1. 1..(k + 1) = 1..k \union {k + 1}
      OBVIOUS
    <3>2. QED
      BY <3>1
  <2> HIDE DEF r, d, q, Passed
  <2>3. SoundOrder(r) /\ r \in Orders
    BY <2>1 DEF Ordered, SoundOrder, Orders
  <2>4. Ordered(r, q, {d})
    BY <2>1, <2>3 DEF PlacesWell
  <2>5. Ordered(o, q, Passed(k + 1))
    BY <2>1, <2>2, <2>4 DEF Ordered, Below
  <2>6. ToSet(list) \subseteq ToSet(o) => q = o
    BY <2>1, <2>3 DEF PlacesWell
  <2>7. QED
    BY <2>5, <2>6 DEF q
<1>5. n \in S
  <2> HIDE DEF S
  <2>1. \A k \in 0..n : k \in S
    BY <1>2, <1>3, <1>4, AllPositions
  <2>2. QED
    BY <1>2, <2>1
<1>6. Passed(n) = ToSet(list)
  BY <1>2 DEF ToSet
<1> HIDE DEF Passed
<1>7. QED
  BY <1>1, <1>5, <1>6


\* What a service depends on reaches less than the service, where it does not reach itself.
LEMMA LessBelow ==
  ASSUME ConfigurationTypeOK, NamesValid, ~SomeCycle, NEW n \in Declared,
         NEW d \in ToSet(DependsOf(n))
  PROVE  /\ d \in Declared
         /\ Cardinality(Reaches(d)) \in Nat /\ Cardinality(Reaches(n)) \in Nat
         /\ Cardinality(Reaches(d)) < Cardinality(Reaches(n))
<1>1. d \in Declared /\ d \in Reaches(n) /\ d \notin Reaches(d)
  BY DependsIs, ReachesAtOnce DEF SomeCycle
<1>2. Reaches(d) \subseteq Reaches(n) /\ Reaches(n) \subseteq Declared
  BY <1>1, ReachesThrough DEF Reaches
<1>3. IsFiniteSet(Reaches(n)) /\ IsFiniteSet(Reaches(d))
  BY <1>2, DeclaredIs, FS_Subset
<1>4. /\ Cardinality(Reaches(d)) <= Cardinality(Reaches(n))
      /\ Cardinality(Reaches(d)) # Cardinality(Reaches(n))
  BY <1>1, <1>2, <1>3, FS_Subset
<1>5. QED
  BY <1>1, <1>3, <1>4, FS_CardinalityType

\* One service: what it depends on is placed before it.
LEMMA OnePlacing ==
  ASSUME ConfigurationTypeOK, NamesValid, ~SomeCycle, NEW depth \in Nat, NEW deeper,
         depth # 0 => PlacesWell(deeper, depth - 1),
         NEW name \in Declared, Cardinality(Reaches(name)) <= depth,
         NEW o, SoundOrder(o)
  PROVE  /\ Ordered(o, Placed(name, o, deeper), {name})
         /\ name \notin ToSet(o) /\ ToSet(DependsOf(name)) \subseteq ToSet(o) =>
              Placed(name, o, deeper) = Append(o, name)
<1> DEFINE deps == DependsOf(name)
           inside == ForEach(deps, deeper, o)
<1>0. o \in Seq(Names) /\ name \in Names /\ deps \in Seq(Declared)
  BY DeclaredIs, DependsIs DEF SoundOrder
<1>1. CASE name \in ToSet(o)
  <2>1. Placed(name, o, deeper) = o
    BY <1>0, <1>1, ToSetOf DEF Placed
  <2>2. QED
    BY <1>1, <2>1 DEF Ordered
<1>2. CASE name \notin ToSet(o)
  <2>1. Placed(name, o, deeper) = Append(inside, name)
    BY <1>0, <1>2, ToSetOf DEF Placed
  <2>2. /\ Ordered(o, inside, ToSet(deps))
        /\ ToSet(deps) \subseteq ToSet(o) => inside = o
    <3>1. CASE depth = 0
      <4>1. ToSet(deps) = {}
        BY <3>1, LessBelow
      <4>2. PICK run : IsRun(run, deps, deeper, o) /\ inside = run[Len(deps)]
        BY <1>0, LoopIsRun
      <4>3. Len(deps) = 0
        <5>1. Len(deps) \in Nat /\ DOMAIN deps = 1..Len(deps)
          BY <1>0, LenProperties
        <5> HIDE DEF deps
        <5>2. ~(1 \in 1..Len(deps))
          BY <4>1, <5>1 DEF ToSet
        <5>3. QED
          BY <5>1, <5>2
      <4>4. inside = o
        BY <4>2, <4>3 DEF IsRun
      <4> HIDE DEF inside, deps
      <4>5. QED
        BY <4>1, <4>4 DEF Ordered
    <3>2. CASE depth # 0
      <4>1. \A d \in ToSet(deps) : Cardinality(Reaches(d)) <= depth - 1
        <5>1. ASSUME NEW d \in ToSet(deps) PROVE Cardinality(Reaches(d)) <= depth - 1
          <6>1. /\ Cardinality(Reaches(d)) \in Nat /\ Cardinality(Reaches(name)) \in Nat
                /\ Cardinality(Reaches(d)) < Cardinality(Reaches(name))
            BY LessBelow
          <6>2. QED
            BY <6>1
        <5>2. QED
          BY <5>1
      <4>2. depth - 1 \in Nat
        BY <3>2
      <4> HIDE DEF deps
      <4>3. QED
        BY <1>0, <3>2, <4>1, <4>2, LoopOfPlacings
    <3>3. QED
      BY <3>1, <3>2
  <2> HIDE DEF inside
  <2>3. name \notin Reaches(name) /\ Below(ToSet(deps)) \subseteq Reaches(name)
    <3>1. \A d \in ToSet(deps) : d \in Reaches(name) /\ Reaches(d) \subseteq Reaches(name)
      BY ReachesAtOnce, ReachesThrough
    <3>2. QED
      BY <3>1 DEF SomeCycle, Below
  <2>4. /\ SoundOrder(inside) /\ name \notin ToSet(inside)
        /\ ToSet(deps) \subseteq ToSet(inside) /\ ToSet(o) \subseteq ToSet(inside)
        /\ ToSet(inside) \subseteq ToSet(o) \union Reaches(name)
    BY <1>2, <2>2, <2>3 DEF Ordered
  <2>5. SoundOrder(Append(inside, name))
    BY <2>4, SoundAppend
  <2>6. ToSet(Append(inside, name)) = ToSet(inside) \union {name}
    BY <1>0, <2>4, ToSetAppend DEF SoundOrder
  <2>7. Ordered(o, Append(inside, name), {name})
    BY <2>4, <2>5, <2>6 DEF Ordered, Below
  <2>8. QED
    BY <2>1, <2>2, <2>7
<1>3. QED
  BY <1>1, <1>2

LEMMA PlaceDoesWell ==
  ASSUME ConfigurationTypeOK, NamesValid, ~SomeCycle
  PROVE  \A depth \in Depths : PlacesWell(place[depth], depth)
<1> DEFINE n == Cardinality(Names)
           S == {k \in Nat : k <= n => PlacesWell(place[k], k)}
           Deeper(k) == IF k = 0 THEN StayOrder ELSE place[k - 1]
<1>1. ASSUME NEW k \in Depths, k # 0 => PlacesWell(place[k - 1], k - 1)
      PROVE  PlacesWell(place[k], k)
  <2>1. \A name \in Declared, o \in Orders : place[k][<<name, o>>] = Placed(name, o, Deeper(k))
    <3>1. place[k] = PlaceOf(Deeper(k))
      BY PlaceAt
    <3> HIDE DEF Deeper
    <3>2. QED
      BY <3>1, DeclaredIs DEF PlaceOf
  <2>2. k \in Nat /\ (k # 0 => Deeper(k) = place[k - 1])
    BY DepthsAre
  <2> HIDE DEF Deeper
  <2>3. \A name \in Declared, o \in Orders : name \in ToSet(o) => place[k][<<name, o>>] = o
    BY <2>1, ToSetOf DEF Placed, Orders
  <2>4. ASSUME NEW name \in Declared, NEW o \in Orders, Cardinality(Reaches(name)) <= k,
               SoundOrder(o)
        PROVE  /\ Ordered(o, place[k][<<name, o>>], {name})
               /\ name \notin ToSet(o) /\ ToSet(DependsOf(name)) \subseteq ToSet(o) =>
                    place[k][<<name, o>>] = Append(o, name)
    BY <1>1, <2>1, <2>2, <2>4, OnePlacing
  <2>5. QED
    BY <2>3, <2>4 DEF PlacesWell
<1> HIDE DEF Deeper
<1>2. 0 \in S
  BY <1>1, DepthsAre
<1>3. ASSUME NEW k \in Nat, k \in S PROVE k + 1 \in S
  <2>1. SUFFICES ASSUME k + 1 <= n PROVE PlacesWell(place[k + 1], k + 1)
    OBVIOUS
  <2>2. PlacesWell(place[k], k) /\ k + 1 \in Depths /\ (k + 1) - 1 = k
    BY <1>3, <2>1, DepthsAre
  <2>3. QED
    BY <1>1, <2>2
<1>4. Nat \subseteq S
  <2> HIDE DEF S
  <2>1. QED
    BY <1>2, <1>3, InductiveSet
<1>5. QED
  BY <1>4, DepthsAre


\* The order of calls in a graph without cycles.
LEMMA CallOrderIs ==
  ASSUME ConfigurationTypeOK, NamesValid, ~SomeCycle, services # <<>>
  PROVE  SoundOrder(CallOrder) /\ ToSet(CallOrder) = Declared
<1> DEFINE depth == Cardinality(Names)
<1>1. CallOrder = ForEach(DeclaredNames, place[depth], <<>>)
  BY DEF CallOrder
<1>2. PlacesWell(place[depth], depth) /\ depth \in Nat
  BY DepthsAre, PlaceDoesWell
<1>3. \A d \in Declared : Cardinality(Reaches(d)) <= depth
  <2>1. ASSUME NEW d \in Declared PROVE Cardinality(Reaches(d)) <= depth
    <3>1. Reaches(d) \subseteq Names
      BY DeclaredIs DEF Reaches
    <3>2. QED
      BY <3>1, ConfigurationAssumption, FS_Subset
  <2>2. QED
    BY <2>1
<1> DEFINE none == <<>>
<1>4. SoundOrder(none)
  <2>1. none \in Seq(Names) /\ DOMAIN none = {}
    BY EmptySeq
  <2> HIDE DEF none
  <2>2. QED
    BY <2>1 DEF SoundOrder, IsInjective, RespectsDependencies, ToSet
<1> HIDE DEF none
<1>5. Ordered(none, CallOrder, Declared)
  <2>1. CallOrder = ForEach(DeclaredNames, place[depth], none)
    BY <1>1 DEF none
  <2>2. QED
    BY <2>1, <1>2, <1>3, <1>4, DeclaredIs, LoopOfPlacings
<1>6. QED
  BY <1>5 DEF Ordered, SoundOrder

\* If the services are declared after what they depend on, place() appends each in turn.
LEMMA DeclaredOrderKept ==
  ASSUME ConfigurationTypeOK, NamesValid, ~SomeCycle, services # <<>>,
         RespectsDependencies(DeclaredNames)
  PROVE  CallOrder = DeclaredNames
<1> DEFINE depth == Cardinality(Names)
           list == DeclaredNames
           n == Len(list)
<1>1. n \in Nat /\ DOMAIN list = 1..n /\ list \in Seq(Declared)
      /\ (\A k \in 1..n : list[k] \in Declared /\ list[k] = services[k].name)
      /\ n = Len(services)
  BY DeclaredIs, LenProperties, ElementOfSeq
<1>2. PlacesWell(place[depth], depth) /\ depth \in Nat
  BY DepthsAre, PlaceDoesWell
<1>3. \A d \in Declared : Cardinality(Reaches(d)) <= depth
  <2>1. ASSUME NEW d \in Declared PROVE Cardinality(Reaches(d)) <= depth
    <3>1. Reaches(d) \subseteq Names
      BY DeclaredIs DEF Reaches
    <3>2. QED
      BY <3>1, ConfigurationAssumption, FS_Subset
  <2>2. QED
    BY <2>1
<1>4. \A i, j \in 1..n : list[i] = list[j] => i = j
  BY <1>1, DeclaredIs DEF NamesValid
<1> DEFINE none == <<>>
           IsPrefixAt(r, k) == SoundOrder(r) /\ Len(r) = k /\ \A j \in 1..k : r[j] = list[j]
<1>5. PICK run : IsRun(run, list, place[depth], none) /\ CallOrder = run[n]
  <2>1. CallOrder = ForEach(list, place[depth], none)
    BY DEF CallOrder
  <2>2. QED
    BY <1>1, <2>1, LoopIsRun
<1>6. IsPrefixAt(none, 0)
  <2>1. none \in Seq(Names) /\ DOMAIN none = {} /\ Len(none) = 0
    BY EmptySeq
  <2> HIDE DEF none, list
  <2>2. QED
    BY <2>1 DEF SoundOrder, IsInjective, RespectsDependencies, ToSet
<1> HIDE DEF none
<1> DEFINE S == {k \in Nat : IsPrefixAt(run[k], k)}
<1>7. 0 \in S
  BY <1>5, <1>6 DEF IsRun
<1>8. ASSUME NEW k \in Nat, k < n, k \in S PROVE k + 1 \in S
  <2> DEFINE r == run[k]
             d == list[k + 1]
  <2>1. SoundOrder(r) /\ Len(r) = k /\ \A j \in 1..k : r[j] = list[j]
    BY <1>8
  <2>2. run[k + 1] = place[depth][<<d, r>>]
    BY <1>5, <1>8 DEF IsRun
  <2>3. k + 1 \in 1..n /\ d \in Declared
    BY <1>1, <1>8
  <2> HIDE DEF r
  <2>4. r \in Seq(Names) /\ r \in Orders /\ DOMAIN r = 1..k
    BY <2>1, LenProperties DEF SoundOrder, Orders
  <2>5. ToSet(DependsOf(d)) \subseteq ToSet(r)
    <3>1. SUFFICES ASSUME NEW e \in ToSet(DependsOf(d)) PROVE e \in ToSet(r)
      OBVIOUS
    <3>2. PICK j \in 1..((k + 1) - 1) : list[j] = e
      BY <1>1, <2>3, <3>1 DEF RespectsDependencies
    <3>3. j \in 1..k /\ r[j] = e
      BY <2>1, <3>2
    <3>4. QED
      BY <2>4, <3>3 DEF ToSet
  <2>6. d \notin ToSet(r)
    <3>1. SUFFICES ASSUME NEW j \in 1..k, r[j] = d PROVE FALSE
      BY <2>4 DEF ToSet
    <3>2. j \in 1..n /\ list[j] = list[k + 1] /\ j # k + 1
      BY <1>1, <1>8, <2>1, <3>1
    <3>3. QED
      BY <1>4, <2>3, <3>2
  <2>7. run[k + 1] = Append(r, d)
    BY <1>2, <1>3, <2>1, <2>2, <2>3, <2>4, <2>5, <2>6 DEF PlacesWell
  <2>8. SoundOrder(Append(r, d))
    BY <2>1, <2>3, <2>5, <2>6, SoundAppend
  <2>9. Len(Append(r, d)) = k + 1 /\ (\A j \in 1..k : Append(r, d)[j] = r[j])
        /\ Append(r, d)[k + 1] = d
    <3>1. d \in Names
      BY <2>3, DeclaredIs
    <3>2. QED
      BY <2>1, <2>4, <3>1, AppendProperties
  <2>10. \A j \in 1..(k + 1) : Append(r, d)[j] = list[j]
    BY <2>1, <2>9
  <2>11. IsPrefixAt(run[k + 1], k + 1)
    BY <2>7, <2>8, <2>9, <2>10
  <2>12. QED
    BY <2>11
<1>9. IsPrefixAt(run[n], n)
  <2>1. n \in S
    <3> HIDE DEF S
    <3>1. \A k \in 0..n : k \in S
      BY <1>1, <1>7, <1>8, AllPositions
    <3>2. QED
      BY <1>1, <3>1
  <2>2. QED
    BY <2>1
<1>10. CallOrder \in Seq(Names) /\ list \in Seq(Names) /\ Len(CallOrder) = Len(list)
       /\ \A j \in 1..Len(list) : CallOrder[j] = list[j]
  <2>1. list \in Seq(Names)
    BY <1>1, DeclaredIs, SeqDef
  <2>2. QED
    BY <1>5, <1>9, <2>1 DEF SoundOrder
<1> HIDE DEF list
<1>11. CallOrder = list
  BY <1>10, SeqEqual
<1>12. QED
  BY <1>11 DEF list

LEMMA GraphDecidedOfType == ConfigurationTypeOK => GraphDecided
<1> SUFFICES ASSUME ConfigurationTypeOK PROVE GraphDecided
  OBVIOUS
<1>1. GraphAccepted <=> NamesValid /\ \A n \in Declared : n \notin Reaches(n)
  BY WalkFindsCycles DEF GraphAccepted, SomeCycle
<1>2. ASSUME GraphAccepted, services # <<>>
      PROVE  /\ IsInjective(CallOrder) /\ ToSet(CallOrder) = Declared
             /\ RespectsDependencies(CallOrder)
             /\ RespectsDependencies(DeclaredNames) => CallOrder = DeclaredNames
  <2>1. NamesValid /\ ~SomeCycle
    BY <1>1, <1>2 DEF SomeCycle
  <2>2. SoundOrder(CallOrder) /\ ToSet(CallOrder) = Declared
    BY <1>2, <2>1, CallOrderIs
  <2>3. RespectsDependencies(DeclaredNames) => CallOrder = DeclaredNames
    BY <1>2, <2>1, DeclaredOrderKept
  <2>4. QED
    BY <2>2, <2>3 DEF SoundOrder
<1>3. QED
  BY <1>1, <1>2 DEF GraphDecided

\* GraphDecided for every specification: the checks of a graph refuse exactly those
\* with a service that depends on itself through others, and the order of calls has
\* every service once and after what it depends on (SystemSpec, core/schema.py).
THEOREM GraphsAreDecided == ConfigurationSpec => []GraphDecided
BY ConfigurationTyped, GraphDecidedOfType, PTL


-------------------------------------------------------------------------------
(* 5. Policies and routes                                                  *)

\* A section with all its fields.
Full(s) == [FieldsOf(s) -> Int]

LEMMA NullIsNoSection ==
  ASSUME NEW s
  PROVE  /\ Null \notin Full(s)
         /\ \A v \in Partial(s) :
              v # Null => DOMAIN v \subseteq FieldsOf(s) /\ \A f \in DOMAIN v : v[f] \in Int
<1>1. DOMAIN Null = {"null"}
  BY DEF Null
<1>2. Null \notin Full(s)
  <2>1. \A v \in Full(s) : DOMAIN v = FieldsOf(s)
    BY DEF Full
  <2>2. "null" \notin FieldsOf(s)
    BY DEF FieldsOf
  <2>3. QED
    BY <1>1, <2>1, <2>2
<1>3. ASSUME NEW v \in Partial(s), v # Null
      PROVE  DOMAIN v \subseteq FieldsOf(s) /\ \A f \in DOMAIN v : v[f] \in Int
  <2> DEFINE values == IF s = "backoff" THEN {0, 2} ELSE {0, 1}
  <2>1. v \in UNION {[d -> values] : d \in SUBSET FieldsOf(s)}
    BY <1>3 DEF Partial
  <2>2. PICK d \in SUBSET FieldsOf(s) : v \in [d -> values]
    BY <2>1
  <2>3. QED
    BY <2>2
<1>4. QED
  BY <1>2, <1>3

LEMMA FilledIs ==
  ASSUME NEW s, NEW v, v # Null, \A f \in DOMAIN v : v[f] \in Int
  PROVE  /\ Filled(s, v) \in Full(s) /\ Filled(s, v) # Null
         /\ \A f \in FieldsOf(s) :
              Filled(s, v)[f] = IF f \in DOMAIN v THEN v[f] ELSE DefaultOf(f)
<1>1. Filled(s, v) = [f \in FieldsOf(s) |-> IF f \in DOMAIN v THEN v[f] ELSE DefaultOf(f)]
  BY DEF Filled
<1>2. \A f \in FieldsOf(s) : DefaultOf(f) \in Int
  BY DEF DefaultOf
<1>3. Filled(s, v) \in Full(s)
  BY <1>1, <1>2 DEF Full
<1>4. QED
  BY <1>1, <1>3, NullIsNoSection

LEMMA FullIsFilled ==
  ASSUME NEW s, NEW v \in Full(s)
  PROVE  Filled(s, v) = v /\ v # Null
<1>1. v # Null /\ DOMAIN v = FieldsOf(s)
  BY NullIsNoSection DEF Full
<1>2. v = [f \in FieldsOf(s) |-> v[f]]
  BY DEF Full
<1>3. Filled(s, v) = [f \in FieldsOf(s) |-> v[f]]
  BY <1>1 DEF Filled
<1>4. QED
  BY <1>1, <1>2, <1>3

\* The backoff by default.
Unwritten == [f \in FieldsOf("backoff") |-> DefaultOf(f)]

\* What validation makes of one section.
LEMMA ValidatedIs ==
  ASSUME NEW d, NEW s \in Sections
  PROVE  /\ DOMAIN Validated(d) = Sections
         /\ s \notin DOMAIN d => Validated(d)[s] = IF s = "backoff" THEN Unwritten ELSE Null
         /\ s \in DOMAIN d /\ d[s] = Null => Validated(d)[s] = Null
         /\ s \in DOMAIN d /\ d[s] # Null =>
              Validated(d)[s] =
                IF s = "retry" /\ Filled(s, d[s]) # Null /\ Filled(s, d[s])["enabled"] = 0
                THEN Null ELSE Filled(s, d[s])
BY DEF Validated, Filled, Unwritten

LEMMA DefaultsAre ==
  ASSUME ConfigurationTypeOK, NEW s \in Sections, Validated(policy)[s] # Null
  PROVE  /\ Validated(policy)[s] \in Full(s)
         /\ s = "retry" => Validated(policy)[s]["enabled"] # 0
<1>1. CASE s \in DOMAIN policy
  <2>1. policy[s] # Null
    BY <1>1, ValidatedIs
  <2>2. Validated(policy)[s] = Filled(s, policy[s])
        /\ (s = "retry" =>
              Filled(s, policy[s]) = Null \/ Filled(s, policy[s])["enabled"] # 0)
    BY <1>1, <2>1, ValidatedIs
  <2>3. policy[s] \in Partial(s)
    BY <1>1 DEF ConfigurationTypeOK
  <2>4. Filled(s, policy[s]) \in Full(s) /\ Filled(s, policy[s]) # Null
    BY <2>1, <2>3, NullIsNoSection, FilledIs
  <2>5. QED
    BY <2>2, <2>4
<1>2. CASE s \notin DOMAIN policy
  <2>1. s = "backoff" /\ Validated(policy)[s] = Unwritten
    BY <1>2, ValidatedIs
  <2>2. \A f \in FieldsOf("backoff") : DefaultOf(f) \in Int
    BY DEF DefaultOf
  <2>3. Unwritten \in Full("backoff")
    BY <2>2 DEF Unwritten, Full
  <2>4. QED
    BY <2>1, <2>3
<1>3. QED
  BY <1>1, <1>2

LEMMA SectionsAsWritten ==
  ASSUME ConfigurationTypeOK, NEW name, NEW s \in Sections
  PROVE  SectionAsWritten(name, s)
<1> DEFINE base == Validated(policy)
           default == base[s]
           over == overrides[name][s]
           merged == Merge(base, overrides[name])
           result == Resolved(name)[s]
<1>1. CASE name \notin DOMAIN overrides
  BY <1>1 DEF Resolved, SectionAsWritten
<1>2. CASE name \in DOMAIN overrides /\ s \notin DOMAIN overrides[name]
  <2>1. result = Validated(merged)[s]
    BY <1>2 DEF Resolved
  <2>2. s \in DOMAIN merged /\ merged[s] = default
    <3>1. DOMAIN base = Sections
      BY ValidatedIs
    <3> HIDE DEF base
    <3>2. QED
      BY <1>2, <3>1 DEF Merge
  <2>3. result = default
    <3>1. CASE default = Null
      <4> HIDE DEF merged, base, result
      <4>1. QED
        BY <2>1, <2>2, <3>1, ValidatedIs
    <3>2. CASE default # Null
      <4>1. default \in Full(s) /\ (s = "retry" => default["enabled"] # 0)
        BY <3>2, DefaultsAre
      <4> HIDE DEF merged, base, result, default
      <4>2. Filled(s, default) = default
        BY <4>1, FullIsFilled
      <4>3. QED
        BY <2>1, <2>2, <3>2, <4>1, <4>2, ValidatedIs
    <3>3. QED
      BY <3>1, <3>2
  <2>4. QED
    BY <1>2, <2>3 DEF SectionAsWritten
<1>3. CASE name \in DOMAIN overrides /\ s \in DOMAIN overrides[name]
  <2>1. result = Validated(merged)[s]
    BY <1>3 DEF Resolved
  <2>2. over \in Partial(s)
    BY <1>3 DEF ConfigurationTypeOK
  <2>3. DOMAIN base = Sections
    BY ValidatedIs
  <2>4. s \in DOMAIN merged
        /\ merged[s] = IF default # Null /\ over # Null THEN MergeFields(default, over) ELSE over
    <3> HIDE DEF base
    <3>1. QED
      BY <1>3, <2>3 DEF Merge
  <2>5. default # Null => default \in Full(s)
    BY DefaultsAre
  <2> HIDE DEF merged, base, result, default
  <2>6. CASE over = Null
    <3>1. result = Null
      BY <2>1, <2>4, <2>6, ValidatedIs
    <3> HIDE DEF over
    <3>2. QED
      BY <1>3, <2>6, <3>1 DEF SectionAsWritten, Built, result, over
  <2>7. CASE over # Null
    <3> DEFINE m == merged[s]
    <3>1. m # Null /\ (\A f \in DOMAIN m : m[f] \in Int)
          /\ \A f \in FieldsOf(s) :
               (IF f \in DOMAIN m THEN m[f] ELSE DefaultOf(f))
               = IF f \in DOMAIN over THEN over[f]
                 ELSE IF default # Null THEN default[f] ELSE DefaultOf(f)
      <4>1. DOMAIN over \subseteq FieldsOf(s) /\ \A f \in DOMAIN over : over[f] \in Int
        BY <2>2, <2>7, NullIsNoSection
      <4> HIDE DEF over
      <4>2. CASE default = Null
        BY <2>4, <2>7, <4>1, <4>2
      <4>3. CASE default # Null
        <5>1. m = MergeFields(default, over)
          BY <2>4, <2>7, <4>3
        <5>2. DOMAIN default = FieldsOf(s) /\ \A f \in FieldsOf(s) : default[f] \in Int
          BY <2>5, <4>3 DEF Full
        <5> HIDE DEF m
        <5>3. DOMAIN m = FieldsOf(s)
              /\ \A f \in FieldsOf(s) : m[f] = IF f \in DOMAIN over THEN over[f] ELSE default[f]
          BY <4>1, <5>1, <5>2 DEF MergeFields
        <5>4. m # Null
          <6>1. m \in Full(s)
            <7>1. m = [f \in FieldsOf(s) |-> m[f]]
              BY <5>1, <5>2, <4>1 DEF MergeFields
            <7>2. QED
              BY <7>1, <5>3, <5>2, <4>1 DEF Full
          <6>2. QED
            BY <6>1, NullIsNoSection
        <5>5. QED
          BY <4>1, <4>3, <5>2, <5>3, <5>4
      <4>4. QED
        BY <4>2, <4>3
    <3>2. /\ Filled(s, m) \in Full(s) /\ Filled(s, m) # Null
          /\ \A f \in FieldsOf(s) : Filled(s, m)[f] = IF f \in DOMAIN m THEN m[f] ELSE DefaultOf(f)
      BY <3>1, FilledIs
    <3>3. result = IF s = "retry" /\ Filled(s, m)["enabled"] = 0 THEN Null ELSE Filled(s, m)
      BY <2>1, <2>4, <3>1, <3>2, ValidatedIs
    <3> HIDE DEF m
    <3>4. result # Null =>
            \A f \in FieldsOf(s) :
              result[f] = IF f \in DOMAIN over THEN over[f]
                          ELSE IF default # Null THEN default[f] ELSE DefaultOf(f)
      BY <3>1, <3>2, <3>3
    <3>5. result = Null => s = "retry"
      BY <3>2, <3>3
    <3>6. QED
      BY <1>3, <2>7, <3>4, <3>5 DEF SectionAsWritten, result, default, base, over
  <2>8. QED
    BY <2>6, <2>7
<1>4. QED
  BY <1>1, <1>2, <1>3

\* A failure joins the injectors of a service that is called.
LEMMA FailuresReachCalled ==
  ASSUME ConfigurationTypeOK, Accepted, NEW k \in DOMAIN failures
  PROVE  RoutedTo(k) \in ToSet(CallOrder)
<1>1. CASE services = <<>>
  <2> DEFINE one == <<DefaultService>>
  <2>1. CallOrder = one /\ RoutedTo(k) = DefaultService
    BY <1>1 DEF CallOrder, RoutedTo
  <2>2. 1 \in DOMAIN one /\ one[1] = DefaultService
    OBVIOUS
  <2>3. QED
    BY <2>1, <2>2 DEF ToSet
<1>2. CASE services # <<>>
  <2>1. ToSet(CallOrder) = Declared
    BY <1>2, GraphDecidedOfType DEF GraphDecided, Accepted
  <2>2. RoutedTo(k) = failures[k] /\ failures[k] \in ToSet(failures)
    BY <1>2 DEF RoutedTo, ToSet
  <2>3. QED
    BY <1>2, <2>1, <2>2 DEF Accepted
<1>3. QED
  BY <1>1, <1>2

\* The link of a call is an edge to the service, and one from order_api if there is one.
LEMMA LinksReachCalled ==
  ASSUME ConfigurationTypeOK, NEW name, LinkOf(name) # 0
  PROVE  /\ edges[LinkOf(name)].target = name
         /\ \A e \in ToSet(edges) : e = [source |-> "order_api", target |-> name] =>
              edges[LinkOf(name)].source = "order_api"
<1> DEFINE Exact == {i \in 1..Len(edges) : edges[i].source = "order_api" /\ edges[i].target = name}
           To == {i \in 1..Len(edges) : edges[i].target = name}
<1>0. edges \in Seq(Link) /\ Len(edges) \in Nat /\ DOMAIN edges = 1..Len(edges)
  BY LenProperties DEF ConfigurationTypeOK
<1>1. LinkOf(name) = IF Exact # {} THEN (IF Min(Exact) # 0 THEN Min(Exact)
                                         ELSE IF To # {} THEN Min(To) ELSE 0)
                     ELSE IF To # {} THEN Min(To) ELSE 0
  BY DEF LinkOf, SelectInSeq
<1>2. Exact \in SUBSET Nat /\ To \in SUBSET Nat
  OBVIOUS
<1>3. (Exact # {} => Min(Exact) \in Exact) /\ (To # {} => Min(To) \in To)
  BY <1>2, LeastNatural DEF Min
<1>4. CASE Exact # {}
  <2>1. LinkOf(name) = Min(Exact) /\ Min(Exact) \in Exact
    BY <1>1, <1>3, <1>4
  <2>2. QED
    BY <2>1
<1>5. CASE Exact = {}
  <2>1. LinkOf(name) \in To
    BY <1>1, <1>3, <1>5
  <2>2. ASSUME NEW e \in ToSet(edges), e = [source |-> "order_api", target |-> name] PROVE FALSE
    <3>1. PICK i \in 1..Len(edges) : edges[i] = e
      BY <1>0 DEF ToSet
    <3>2. i \in Exact
      BY <2>2, <3>1
    <3>3. QED
      BY <1>5, <3>2
  <2>3. QED
    BY <2>1, <2>2
<1>6. QED
  BY <1>4, <1>5

LEMMA ServicesAsConfiguredOfType == ConfigurationTypeOK => ServicesAsConfigured
<1> SUFFICES ASSUME ConfigurationTypeOK, Accepted PROVE ServicesAsConfigured
  BY DEF ServicesAsConfigured
<1>1. \A name \in ToSet(CallOrder) : \A s \in Sections : SectionAsWritten(name, s)
  BY SectionsAsWritten
<1>2. \A k \in DOMAIN failures : RoutedTo(k) \in ToSet(CallOrder)
  BY FailuresReachCalled
<1>3. \A name \in ToSet(CallOrder) : LinkOf(name) # 0 =>
         /\ edges[LinkOf(name)].target = name
         /\ \A e \in ToSet(edges) : e = [source |-> "order_api", target |-> name] =>
              edges[LinkOf(name)].source = "order_api"
  BY LinksReachCalled
<1>4. ASSUME NEW name
      PROVE  LET backoff == Resolved(name)["backoff"] IN
             backoff # Null /\ backoff.base <= backoff.maximum
  BY DEF Accepted, Resolved, Valid
<1>5. QED
  BY <1>1, <1>2, <1>3, <1>4 DEF ServicesAsConfigured

\* ServicesAsConfigured for every specification: a service's policy is the default with
\* its override merged onto it, section by section and field by field, its backoff can be
\* built, and failures and links reach services that are called (PolicyResolver,
\* _injectors_by_service(), resolve_network_link()).
THEOREM ServicesAreAsConfigured == ConfigurationSpec => []ServicesAsConfigured
BY ConfigurationTyped, ServicesAsConfiguredOfType, PTL

===============================================================================

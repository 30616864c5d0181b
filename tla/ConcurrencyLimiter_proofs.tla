----------------------- MODULE ConcurrencyLimiter_proofs -----------------------
(***************************************************************************)
(* Proofs about ConcurrencyLimiter, for every set of callers, every limit  *)
(* and every queue limit.  The argument is one inductive invariant, IInv:  *)
(* the condition's list holds exactly the queued callers, once each, and   *)
(* the two counters are the sizes of the sets they stand for.              *)
(***************************************************************************)
EXTENDS ConcurrencyLimiter, FiniteSetTheorems, SequenceTheorems, TLAPS

WaitingPlaces == {"queued", "woken", "cancelled"}

\* The number of callers that the assignment f of places puts in one of P.
Num(f, P) == Cardinality({t \in Tasks : f[t] \in P})

\* The sequence q lists the callers that f calls queued, each of them once.
Lists(q, f) ==
  /\ \A i \in 1..Len(q) : f[q[i]] = "queued"
  /\ \A i, j \in 1..Len(q) : q[i] = q[j] => i = j
  /\ \A t \in Tasks : f[t] = "queued" => \E i \in 1..Len(q) : q[i] = t

ParkedOK == Lists(parked, gate)

Counted ==
  /\ active = Num(gate, {"holding"})
  /\ waiting = Num(gate, WaitingPlaces)
  /\ active <= Limit
  /\ QueueLimit # Unbounded => waiting <= QueueLimit

Handed == {"woken", "cancelled"}

Served ==
  Renotify /\ parked # <<>> => Limit - active <= Num(gate, Handed)

IInv == LimiterTypeOK /\ ParkedOK /\ Counted /\ Served

\* f and g place every caller but t alike.
OnlyMoves(f, g, t) == \A u \in Tasks : u # t => f[u] = g[u]

-------------------------------------------------------------------------------
\* The count of callers in P is a natural number.
LEMMA NumType ==
  ASSUME NEW f, NEW P
  PROVE  Num(f, P) \in Nat
<1>1. IsFiniteSet({t \in Tasks : f[t] \in P})
  BY FS_Subset, LimiterAssumption
<1>2. QED
  BY <1>1, FS_CardinalityType DEF Num

\* Moving one caller inside P, or outside it, leaves the count alone.
LEMMA NumSame ==
  ASSUME NEW f, NEW g, NEW t \in Tasks, NEW P,
         OnlyMoves(f, g, t),
         f[t] \in P <=> g[t] \in P
  PROVE  Num(g, P) = Num(f, P)
<1> DEFINE F == {u \in Tasks : f[u] \in P}
           G == {u \in Tasks : g[u] \in P}
<1>1. IsFiniteSet(F)
  BY FS_Subset, LimiterAssumption
<1>2. F = G
  BY DEF OnlyMoves
<1>3. QED
  BY <1>1, <1>2 DEF Num

\* Moving one caller into P adds one.
LEMMA NumIn ==
  ASSUME NEW f, NEW g, NEW t \in Tasks, NEW P,
         OnlyMoves(f, g, t),
         f[t] \notin P, g[t] \in P
  PROVE  Num(g, P) = Num(f, P) + 1
<1> DEFINE F == {u \in Tasks : f[u] \in P}
           G == {u \in Tasks : g[u] \in P}
<1>1. IsFiniteSet(F)
  BY FS_Subset, LimiterAssumption
<1>2. G = F \union {t} /\ t \notin F
  BY DEF OnlyMoves
<1>3. QED
  BY <1>1, <1>2, FS_AddElement DEF Num

\* Moving one caller out of P takes one away.
LEMMA NumOut ==
  ASSUME NEW f, NEW g, NEW t \in Tasks, NEW P,
         OnlyMoves(f, g, t),
         f[t] \in P, g[t] \notin P
  PROVE  Num(g, P) = Num(f, P) - 1
<1> DEFINE F == {u \in Tasks : f[u] \in P}
           G == {u \in Tasks : g[u] \in P}
<1>1. IsFiniteSet(F)
  BY FS_Subset, LimiterAssumption
<1>2. G = F \ {t} /\ t \in F
  BY DEF OnlyMoves
<1>3. QED
  BY <1>1, <1>2, FS_RemoveElement DEF Num

\* The three cases together: a move shifts the count by what the caller weighs.
Weight(p, P) == IF p \in P THEN 1 ELSE 0

LEMMA NumMoved ==
  ASSUME NEW f, NEW g, NEW t \in Tasks, NEW P, OnlyMoves(f, g, t)
  PROVE  Num(g, P) = Num(f, P) - Weight(f[t], P) + Weight(g[t], P)
<1>1. Num(f, P) \in Nat /\ Num(g, P) \in Nat
  BY NumType
<1>2. CASE f[t] \in P <=> g[t] \in P
  <2>1. Num(g, P) = Num(f, P)
    BY <1>2, NumSame
  <2>2. Weight(f[t], P) = Weight(g[t], P) /\ Weight(f[t], P) \in {0, 1}
    BY <1>2 DEF Weight
  <2>3. QED
    BY <1>1, <2>1, <2>2
<1>3. CASE f[t] \notin P /\ g[t] \in P
  <2>1. Num(g, P) = Num(f, P) + 1
    BY <1>3, NumIn
  <2>2. Weight(f[t], P) = 0 /\ Weight(g[t], P) = 1
    BY <1>3 DEF Weight
  <2>3. QED
    BY <1>1, <2>1, <2>2
<1>4. CASE f[t] \in P /\ g[t] \notin P
  <2>1. Num(g, P) = Num(f, P) - 1
    BY <1>4, NumOut
  <2>2. Weight(f[t], P) = 1 /\ Weight(g[t], P) = 0
    BY <1>4 DEF Weight
  <2>3. QED
    BY <1>1, <2>1, <2>2
<1>5. QED
  BY <1>2, <1>3, <1>4

\* What one caller weighs in each place.
LEMMA Weights ==
  /\ Weight("out", {"holding"}) = 0 /\ Weight("out", WaitingPlaces) = 0
  /\ Weight("out", Handed) = 0
  /\ Weight("queued", {"holding"}) = 0 /\ Weight("queued", WaitingPlaces) = 1
  /\ Weight("queued", Handed) = 0
  /\ Weight("woken", {"holding"}) = 0 /\ Weight("woken", WaitingPlaces) = 1
  /\ Weight("woken", Handed) = 1
  /\ Weight("cancelled", {"holding"}) = 0 /\ Weight("cancelled", WaitingPlaces) = 1
  /\ Weight("cancelled", Handed) = 1
  /\ Weight("holding", {"holding"}) = 1 /\ Weight("holding", WaitingPlaces) = 0
  /\ Weight("holding", Handed) = 0
  /\ Weight("rejected", {"holding"}) = 0 /\ Weight("rejected", WaitingPlaces) = 0
  /\ Weight("rejected", Handed) = 0
BY DEF Weight, WaitingPlaces, Handed

\* A caller moves from one place to another: the three counts move with it.
LEMMA GateMoved ==
  ASSUME NEW f, NEW g, NEW t \in Tasks, OnlyMoves(f, g, t)
  PROVE  /\ Num(g, {"holding"}) = Num(f, {"holding"}) - Weight(f[t], {"holding"}) + Weight(g[t], {"holding"})
         /\ Num(g, WaitingPlaces) = Num(f, WaitingPlaces) - Weight(f[t], WaitingPlaces) + Weight(g[t], WaitingPlaces)
         /\ Num(g, Handed) = Num(f, Handed) - Weight(f[t], Handed) + Weight(g[t], Handed)
         /\ Num(g, {"holding"}) \in Nat /\ Num(g, WaitingPlaces) \in Nat /\ Num(g, Handed) \in Nat
<1>1. Num(g, {"holding"}) = Num(f, {"holding"}) - Weight(f[t], {"holding"}) + Weight(g[t], {"holding"})
  BY NumMoved
<1>2. Num(g, WaitingPlaces) = Num(f, WaitingPlaces) - Weight(f[t], WaitingPlaces) + Weight(g[t], WaitingPlaces)
  BY NumMoved
<1>3. Num(g, Handed) = Num(f, Handed) - Weight(f[t], Handed) + Weight(g[t], Handed)
  BY NumMoved
<1>4. QED
  BY <1>1, <1>2, <1>3, NumType

\* RemoveAt drops one element and keeps the others, in order.
LEMMA RemoveAtFacts ==
  ASSUME NEW q \in Seq(Tasks), NEW i \in 1..Len(q)
  PROVE  /\ RemoveAt(q, i) \in Seq(Tasks)
         /\ Len(RemoveAt(q, i)) = Len(q) - 1
         /\ \A j \in 1..Len(q)-1 :
              RemoveAt(q, i)[j] = IF j < i THEN q[j] ELSE q[j+1]
<1> DEFINE a == SubSeq(q, 1, i-1)
           b == SubSeq(q, i+1, Len(q))
<1>1. a \in Seq(Tasks) /\ Len(a) = i - 1 /\ \A j \in 1..i-1 : a[j] = q[j]
  BY SubSeqProperties
<1>2. b \in Seq(Tasks) /\ Len(b) = Len(q) - i /\ \A j \in 1..Len(q)-i : b[j] = q[i+j]
  BY SubSeqProperties
<1>3. RemoveAt(q, i) = a \o b
  BY DEF RemoveAt
<1>4. /\ a \o b \in Seq(Tasks)
      /\ Len(a \o b) = Len(a) + Len(b)
      /\ \A j \in 1..Len(a)+Len(b) :
           (a \o b)[j] = IF j <= Len(a) THEN a[j] ELSE b[j - Len(a)]
  BY <1>1, <1>2, ConcatProperties
<1> HIDE DEF a, b
<1>5. Len(a \o b) = Len(q) - 1
  BY <1>1, <1>2, <1>4
<1>6. ASSUME NEW j \in 1..Len(q)-1
      PROVE  (a \o b)[j] = IF j < i THEN q[j] ELSE q[j+1]
  <2>1. CASE j < i
    <3>1. j <= Len(a) /\ j \in 1..Len(a)+Len(b) /\ j \in 1..i-1
      BY <2>1, <1>1, <1>2
    <3>2. QED
      BY <3>1, <2>1, <1>1, <1>4
  <2>2. CASE ~(j < i)
    <3>1. ~(j <= Len(a)) /\ j \in 1..Len(a)+Len(b) /\ j - Len(a) \in 1..Len(q)-i
      BY <2>2, <1>1, <1>2
    <3>2. i + (j - Len(a)) = j + 1
      BY <1>1
    <3>3. QED
      BY <3>1, <3>2, <2>2, <1>2, <1>4
  <2>3. QED
    BY <2>1, <2>2
<1>7. QED
  BY <1>3, <1>4, <1>5, <1>6

\* Moving a caller in or out of a place other than "queued" keeps the list right.
LEMMA ListsMove ==
  ASSUME NEW q \in Seq(Tasks), NEW f \in [Tasks -> GatePlaces], Lists(q, f),
         NEW t \in Tasks, NEW p \in GatePlaces, f[t] # "queued", p # "queued"
  PROVE  Lists(q, [f EXCEPT ![t] = p])
BY DEF Lists

\* notify(1) keeps the list right and hands one parked caller over, if any.
LEMMA NotifyFacts ==
  ASSUME NEW q \in Seq(Tasks), NEW f \in [Tasks -> GatePlaces], Lists(q, f),
         Notify(q, f)
  PROVE  /\ gate' \in [Tasks -> GatePlaces]
         /\ parked' \in Seq(Tasks)
         /\ Lists(parked', gate')
         /\ Num(gate', {"holding"}) = Num(f, {"holding"})
         /\ Num(gate', WaitingPlaces) = Num(f, WaitingPlaces)
         /\ q = <<>> => parked' = <<>> /\ gate' = f
         /\ q # <<>> => Num(gate', Handed) = Num(f, Handed) + 1
<1>1. CASE q = <<>>
  BY <1>1 DEF Notify
<1>2. CASE q # <<>>
  <2> DEFINE h == Head(q)
  <2>1. h \in Tasks /\ h = q[1] /\ 1 \in 1..Len(q) /\ f[h] = "queued"
    BY <1>2 DEF Lists
  <2>2. /\ Tail(q) \in Seq(Tasks)
        /\ Len(Tail(q)) = Len(q) - 1
        /\ \A i \in 1..Len(q)-1 : Tail(q)[i] = q[i+1]
    BY <1>2, HeadTailProperties
  <2>3. parked' = Tail(q) /\ gate' = [f EXCEPT ![h] = "woken"]
    BY <1>2 DEF Notify
  <2> HIDE DEF h
  <2>4. gate' \in [Tasks -> GatePlaces] /\ "woken" \in GatePlaces
    BY <2>3 DEF GatePlaces
  <2>5. \A i \in 1..Len(Tail(q)) : gate'[Tail(q)[i]] = "queued"
    <3> SUFFICES ASSUME NEW i \in 1..Len(Tail(q))
                 PROVE  gate'[Tail(q)[i]] = "queued"
      OBVIOUS
    <3>1. i+1 \in 1..Len(q) /\ Tail(q)[i] = q[i+1] /\ q[i+1] \in Tasks
      BY <2>2
    <3>2. q[i+1] # h
      BY <3>1, <2>1 DEF Lists
    <3>3. QED
      BY <3>1, <3>2, <2>3 DEF Lists
  <2>6. \A i, j \in 1..Len(Tail(q)) : Tail(q)[i] = Tail(q)[j] => i = j
    <3> SUFFICES ASSUME NEW i \in 1..Len(Tail(q)), NEW j \in 1..Len(Tail(q)),
                        Tail(q)[i] = Tail(q)[j]
                 PROVE  i = j
      OBVIOUS
    <3>1. i+1 \in 1..Len(q) /\ j+1 \in 1..Len(q) /\ q[i+1] = q[j+1]
      BY <2>2
    <3>2. i+1 = j+1
      BY <3>1 DEF Lists
    <3>3. QED
      BY <3>2
  <2>7. \A t \in Tasks : gate'[t] = "queued" =>
           \E i \in 1..Len(Tail(q)) : Tail(q)[i] = t
    <3> SUFFICES ASSUME NEW t \in Tasks, gate'[t] = "queued"
                 PROVE  \E i \in 1..Len(Tail(q)) : Tail(q)[i] = t
      OBVIOUS
    <3>1. t # h /\ f[t] = "queued"
      BY <2>3
    <3>2. PICK k \in 1..Len(q) : q[k] = t
      BY <3>1 DEF Lists
    <3>3. k # 1
      BY <3>1, <3>2, <2>1
    <3>4. k-1 \in 1..Len(Tail(q)) /\ Tail(q)[k-1] = q[k]
      BY <3>3, <2>2
    <3>5. QED
      BY <3>2, <3>4
  <2>8. Lists(parked', gate')
    BY <2>3, <2>5, <2>6, <2>7 DEF Lists
  <2>9. /\ Num(gate', {"holding"}) = Num(f, {"holding"})
        /\ Num(gate', WaitingPlaces) = Num(f, WaitingPlaces)
        /\ Num(gate', Handed) = Num(f, Handed) + 1
    <3>0. gate'[h] = "woken" /\ OnlyMoves(f, gate', h)
      BY <2>1, <2>3 DEF OnlyMoves
    <3>1. Num(gate', {"holding"}) = Num(f, {"holding"})
      <4>1. f[h] \in {"holding"} <=> gate'[h] \in {"holding"}
        BY <2>1, <3>0
      <4>2. QED
        BY <4>1, <2>1, <3>0, NumSame
    <3>2. Num(gate', WaitingPlaces) = Num(f, WaitingPlaces)
      <4>1. f[h] \in WaitingPlaces <=> gate'[h] \in WaitingPlaces
        BY <2>1, <3>0 DEF WaitingPlaces
      <4>2. QED
        BY <4>1, <2>1, <3>0, NumSame
    <3>3. Num(gate', Handed) = Num(f, Handed) + 1
      <4>1. f[h] \notin Handed /\ gate'[h] \in Handed
        BY <2>1, <3>0 DEF Handed
      <4>2. QED
        BY <4>1, <2>1, <3>0, NumIn
    <3>4. QED
      BY <3>1, <3>2, <3>3
  <2>10. QED
    BY <1>2, <2>2, <2>3, <2>4, <2>8, <2>9
<1>3. QED
  BY <1>1, <1>2

-------------------------------------------------------------------------------
LEMMA InitHolds == LimiterInit => IInv
<1> SUFFICES ASSUME LimiterInit PROVE IInv
  OBVIOUS
<1>1. LimiterTypeOK
  BY DEF LimiterInit, LimiterTypeOK, GatePlaces
<1>2. ParkedOK
  BY DEF LimiterInit, ParkedOK, Lists
<1>3. Num(gate, {"holding"}) = 0 /\ Num(gate, WaitingPlaces) = 0
  <2>1. {t \in Tasks : gate[t] \in {"holding"}} = {}
    BY DEF LimiterInit
  <2>2. {t \in Tasks : gate[t] \in WaitingPlaces} = {}
    BY DEF LimiterInit, WaitingPlaces
  <2>3. QED
    BY <2>1, <2>2, FS_EmptySet DEF Num
<1>4. Counted
  BY <1>3, LimiterAssumption DEF LimiterInit, Counted
<1>5. Served
  BY DEF LimiterInit, Served
<1>6. QED
  BY <1>1, <1>2, <1>4, <1>5 DEF IInv

\* One turn of acquire's loop.  A caller that comes from the waiting room finds
\* fewer than QueueLimit callers in it, so this turn cannot turn it away.
LEMMA TurnPreserves ==
  ASSUME IInv, NEW t \in Tasks, gate[t] \in {"out", "woken"},
         AcquireTurn(t, IF gate[t] = "woken" THEN waiting - 1 ELSE waiting)
  PROVE  IInv' /\ (gate[t] = "woken" => gate'[t] # "rejected")
<1> DEFINE depth == IF gate[t] = "woken" THEN waiting - 1 ELSE waiting
           woken == IF gate[t] = "woken" THEN 1 ELSE 0
<1> USE DEF IInv
<1>1. AcquireTurn(t, depth) /\ depth = waiting - woken
  BY DEF LimiterTypeOK
<1>2. /\ gate \in [Tasks -> GatePlaces] /\ parked \in Seq(Tasks)
      /\ active \in Nat /\ waiting \in Nat /\ Limit \in Nat
      /\ active = Num(gate, {"holding"}) /\ waiting = Num(gate, WaitingPlaces)
      /\ Num(gate, Handed) \in Nat /\ woken \in {0, 1}
  BY NumType, LimiterAssumption DEF LimiterTypeOK, Counted
<1>3. /\ gate[t] # "queued"
      /\ Weight(gate[t], {"holding"}) = 0
      /\ Weight(gate[t], WaitingPlaces) = woken
      /\ Weight(gate[t], Handed) = woken
  BY Weights
<1>4. gate[t] = "woken" <=> woken = 1
  OBVIOUS
<1> HIDE DEF depth, woken
<1>5. CASE TakeSlot(t, depth)
  <2>0. /\ gate' \in [Tasks -> GatePlaces] /\ gate'[t] = "holding"
        /\ OnlyMoves(gate, gate', t)
    BY <1>2, <1>5 DEF TakeSlot, TurnAway, Park, GatePlaces, OnlyMoves
  <2>1. gate' = [gate EXCEPT ![t] = "holding"] /\ "holding" \in GatePlaces
        /\ active' = active + 1 /\ waiting' = depth /\ parked' = parked /\ active < Limit
    BY <1>5 DEF TakeSlot, SlotFree, GatePlaces
  <2>2. /\ gate' \in [Tasks -> GatePlaces] /\ gate'[t] = "holding"
        /\ Num(gate', {"holding"}) = active + 1
        /\ Num(gate', WaitingPlaces) = depth /\ depth \in Nat /\ depth <= waiting
        /\ Num(gate', Handed) = Num(gate, Handed) - woken
        /\ Num(gate', Handed) \in Nat
    BY <2>0, <1>1, <1>2, <1>3, GateMoved, Weights
  <2>3. LimiterTypeOK'
    BY <2>1, <2>2, <1>2 DEF LimiterTypeOK
  <2>4. ParkedOK'
    BY <2>1, <1>2, <1>3, ListsMove DEF ParkedOK
  <2>5. Counted'
    <3>1. QueueLimit # Unbounded => QueueLimit \in Nat /\ waiting <= QueueLimit
      BY LimiterAssumption DEF Counted
    <3>2. QueueLimit # Unbounded => waiting' <= QueueLimit
      BY <3>1, <2>1, <2>2, <1>2
    <3>3. active' <= Limit
      BY <2>1, <1>2
    <3>4. active' = Num(gate', {"holding"}) /\ waiting' = Num(gate', WaitingPlaces)
      BY <2>1, <2>2
    <3>5. QED
      BY <3>2, <3>3, <3>4 DEF Counted
  <2>6. Served'
    BY <2>1, <2>2, <1>2 DEF Served
  <2>7. QED
    BY <2>2, <2>3, <2>4, <2>5, <2>6
<1>6. CASE TurnAway(t, depth)
  <2>0. /\ gate' \in [Tasks -> GatePlaces] /\ gate'[t] = "rejected"
        /\ OnlyMoves(gate, gate', t)
    BY <1>2, <1>6 DEF TakeSlot, TurnAway, Park, GatePlaces, OnlyMoves
  <2>1. gate' = [gate EXCEPT ![t] = "rejected"] /\ "rejected" \in GatePlaces
        /\ active' = active /\ waiting' = depth /\ parked' = parked /\ ~(active < Limit)
        /\ QueueLimit # Unbounded /\ depth >= QueueLimit
    BY <1>6 DEF TurnAway, SlotFree, QueueFull, GatePlaces
  <2>2. QueueLimit \in Nat /\ waiting <= QueueLimit
    BY <2>1, LimiterAssumption DEF Counted
  <2>3. gate[t] # "woken"
    BY <2>1, <2>2, <1>1, <1>2, <1>4
  <2>4. /\ gate' \in [Tasks -> GatePlaces]
        /\ Num(gate', {"holding"}) = active
        /\ Num(gate', WaitingPlaces) = depth /\ depth \in Nat /\ depth <= waiting
        /\ Num(gate', Handed) \in Nat
    BY <2>0, <1>1, <1>2, <1>3, GateMoved, Weights
  <2>5. LimiterTypeOK'
    BY <2>1, <2>4, <1>2 DEF LimiterTypeOK
  <2>6. ParkedOK'
    BY <2>1, <1>2, <1>3, ListsMove DEF ParkedOK
  <2>7. Counted'
    BY <2>1, <2>2, <2>4, <1>2 DEF Counted
  <2>8. Served'
    BY <2>1, <2>4, <1>2 DEF Served
  <2>9. QED
    BY <2>3, <2>5, <2>6, <2>7, <2>8
<1>7. CASE Park(t, depth)
  <2>0. /\ gate' \in [Tasks -> GatePlaces] /\ gate'[t] = "queued"
        /\ OnlyMoves(gate, gate', t)
    BY <1>2, <1>7 DEF TakeSlot, TurnAway, Park, GatePlaces, OnlyMoves
  <2>1. gate' = [gate EXCEPT ![t] = "queued"] /\ "queued" \in GatePlaces
        /\ active' = active /\ waiting' = depth + 1 /\ parked' = Append(parked, t)
        /\ ~(active < Limit) /\ (QueueLimit # Unbounded => ~(depth >= QueueLimit))
    BY <1>7 DEF Park, SlotFree, QueueFull, GatePlaces
  <2>2. /\ gate' \in [Tasks -> GatePlaces] /\ gate'[t] = "queued"
        /\ Num(gate', {"holding"}) = active
        /\ Num(gate', WaitingPlaces) = depth + 1 /\ depth \in Int /\ depth + 1 \in Nat
        /\ Num(gate', Handed) \in Nat
    BY <2>0, <1>1, <1>2, <1>3, GateMoved, Weights
  <2>3. parked' \in Seq(Tasks) /\ Len(parked') = Len(parked) + 1
        /\ parked'[Len(parked) + 1] = t
        /\ \A i \in 1..Len(parked) : parked'[i] = parked[i]
    BY <2>1, <1>2, AppendProperties
  <2>4. LimiterTypeOK'
    BY <2>1, <2>2, <2>3, <1>2 DEF LimiterTypeOK
  <2>5. Lists(parked', gate')
    <3>1. \A i \in 1..Len(parked) : parked[i] # t /\ gate'[parked[i]] = "queued"
      BY <2>0, <1>2, <1>3 DEF ParkedOK, Lists, OnlyMoves
    <3>2. \A i \in 1..Len(parked') : gate'[parked'[i]] = "queued"
      BY <3>1, <2>0, <2>3, <1>2
    <3>3. ASSUME NEW i \in 1..Len(parked'), NEW j \in 1..Len(parked'),
                 parked'[i] = parked'[j]
          PROVE  i = j
      <4>1. /\ Len(parked) \in Nat
            /\ i \in 1..Len(parked) \/ i = Len(parked) + 1
            /\ j \in 1..Len(parked) \/ j = Len(parked) + 1
        BY <2>3, <1>2
      <4>2. CASE i \in 1..Len(parked) /\ j \in 1..Len(parked)
        <5>1. parked[i] = parked[j]
          BY <3>3, <4>2, <2>3
        <5>2. QED
          BY <5>1, <4>2 DEF ParkedOK, Lists
      <4>3. CASE i \in 1..Len(parked) /\ j = Len(parked) + 1
        BY <4>3, <3>1, <3>3, <2>3
      <4>4. CASE i = Len(parked) + 1 /\ j \in 1..Len(parked)
        BY <4>4, <3>1, <3>3, <2>3
      <4>5. QED
        BY <4>1, <4>2, <4>3, <4>4
    <3>4. ASSUME NEW u \in Tasks, gate'[u] = "queued"
          PROVE  \E i \in 1..Len(parked') : parked'[i] = u
      <4>1. CASE u = t
        BY <4>1, <2>3, <1>2
      <4>2. CASE u # t
        <5>1. PICK i \in 1..Len(parked) : parked[i] = u
          BY <4>2, <3>4, <2>0 DEF ParkedOK, Lists, OnlyMoves
        <5>2. i \in 1..Len(parked') /\ parked'[i] = u
          BY <5>1, <2>3, <1>2
        <5>3. QED
          BY <5>2
      <4>3. QED
        BY <4>1, <4>2
    <3>5. QED
      BY <3>2, <3>3, <3>4 DEF Lists
  <2>6. QueueLimit # Unbounded => QueueLimit \in Nat
    BY LimiterAssumption
  <2>7. Counted'
    BY <2>1, <2>2, <2>6, <1>2 DEF Counted
  <2>8. Served'
    BY <2>1, <2>2, <1>2 DEF Served
  <2>9. QED
    BY <2>2, <2>4, <2>5, <2>7, <2>8 DEF ParkedOK
<1>8. QED
  BY <1>1, <1>5, <1>6, <1>7 DEF AcquireTurn

\* What IInv says of types and counts, in the form the steps below use.
LEMMA IInvFacts ==
  ASSUME IInv
  PROVE  /\ gate \in [Tasks -> GatePlaces] /\ parked \in Seq(Tasks)
         /\ active \in Nat /\ waiting \in Nat /\ Limit \in Nat
         /\ active = Num(gate, {"holding"}) /\ waiting = Num(gate, WaitingPlaces)
         /\ Num(gate, Handed) \in Nat
         /\ active <= Limit
         /\ QueueLimit # Unbounded => QueueLimit \in Nat /\ waiting <= QueueLimit
BY NumType, LimiterAssumption DEF IInv, LimiterTypeOK, Counted

LEMMA ReleasePreserves ==
  ASSUME IInv, NEW t \in Tasks, Release(t)
  PROVE  IInv'
<1> DEFINE f == [gate EXCEPT ![t] = "out"]
<1>1. /\ gate[t] = "holding" /\ Notify(parked, f) /\ waiting' = waiting
      /\ active' = IF active > 0 THEN active - 1 ELSE active
  BY DEF Release
<1>2. /\ f \in [Tasks -> GatePlaces] /\ f[t] = "out" /\ OnlyMoves(gate, f, t)
  BY IInvFacts DEF GatePlaces, OnlyMoves
<1>3. Lists(parked, f)
  BY <1>1, IInvFacts, ListsMove DEF IInv, ParkedOK, GatePlaces
<1> HIDE DEF f
<1>4. /\ Num(f, {"holding"}) = active - 1 /\ active - 1 \in Nat
      /\ Num(f, WaitingPlaces) = waiting
      /\ Num(f, Handed) = Num(gate, Handed)
  BY <1>1, <1>2, IInvFacts, GateMoved, Weights
<1>5. active' = active - 1
  BY <1>1, <1>4, IInvFacts
<1>6. /\ gate' \in [Tasks -> GatePlaces] /\ parked' \in Seq(Tasks)
      /\ Lists(parked', gate')
      /\ Num(gate', {"holding"}) = active - 1 /\ Num(gate', WaitingPlaces) = waiting
      /\ parked = <<>> => parked' = <<>>
      /\ parked # <<>> => Num(gate', Handed) = Num(gate, Handed) + 1
  BY <1>1, <1>2, <1>3, <1>4, IInvFacts, NotifyFacts
<1>7. LimiterTypeOK' /\ ParkedOK' /\ Counted'
  BY <1>1, <1>4, <1>5, <1>6, IInvFacts DEF LimiterTypeOK, ParkedOK, Counted
<1>8. Served'
  BY <1>5, <1>6, IInvFacts DEF IInv, Served
<1>9. QED
  BY <1>7, <1>8 DEF IInv

LEMMA AbandonPreserves ==
  ASSUME IInv, NEW t \in Tasks, Abandon(t)
  PROVE  IInv'
<1> DEFINE f == [gate EXCEPT ![t] = "out"]
<1>1. /\ gate[t] = "cancelled" /\ waiting' = waiting - 1 /\ active' = active
      /\ IF Renotify THEN Notify(parked, f) ELSE gate' = f /\ parked' = parked
  BY DEF Abandon
<1>2. /\ f \in [Tasks -> GatePlaces] /\ f[t] = "out" /\ OnlyMoves(gate, f, t)
  BY IInvFacts DEF GatePlaces, OnlyMoves
<1>3. Lists(parked, f)
  BY <1>1, IInvFacts, ListsMove DEF IInv, ParkedOK, GatePlaces
<1> HIDE DEF f
<1>4. /\ Num(f, {"holding"}) = active
      /\ Num(f, WaitingPlaces) = waiting - 1 /\ waiting - 1 \in Nat
      /\ Num(f, Handed) = Num(gate, Handed) - 1
  BY <1>1, <1>2, IInvFacts, GateMoved, Weights
<1>5. /\ gate' \in [Tasks -> GatePlaces] /\ parked' \in Seq(Tasks)
      /\ Lists(parked', gate')
      /\ Num(gate', {"holding"}) = active /\ Num(gate', WaitingPlaces) = waiting - 1
      /\ Renotify /\ parked # <<>> => Num(gate', Handed) = Num(gate, Handed)
      /\ parked = <<>> => parked' = <<>>
  <2>1. CASE Renotify
    BY <2>1, <1>1, <1>2, <1>3, <1>4, IInvFacts, NotifyFacts
  <2>2. CASE ~Renotify
    BY <2>2, <1>1, <1>2, <1>3, <1>4, IInvFacts
  <2>3. QED
    BY <2>1, <2>2
<1>6. LimiterTypeOK' /\ ParkedOK' /\ Counted'
  BY <1>1, <1>4, <1>5, IInvFacts DEF LimiterTypeOK, ParkedOK, Counted
<1>7. Served'
  BY <1>1, <1>5, IInvFacts DEF IInv, Served
<1>8. QED
  BY <1>6, <1>7 DEF IInv

LEMMA CancelPreserves ==
  ASSUME IInv, NEW t \in Tasks, Cancel(t)
  PROVE  IInv'
<1>1. /\ gate' = [gate EXCEPT ![t] = "cancelled"]
      /\ active' = active /\ waiting' = waiting
  BY DEF Cancel
<1>2. /\ gate' \in [Tasks -> GatePlaces] /\ gate'[t] = "cancelled" /\ OnlyMoves(gate, gate', t)
  BY <1>1, IInvFacts DEF GatePlaces, OnlyMoves
<1>3. CASE gate[t] = "woken" /\ parked' = parked
  <2>1. /\ Num(gate', {"holding"}) = active /\ Num(gate', WaitingPlaces) = waiting
        /\ Num(gate', Handed) = Num(gate, Handed)
    BY <1>2, <1>3, IInvFacts, GateMoved, Weights
  <2>2. ParkedOK'
    BY <1>1, <1>3, IInvFacts, ListsMove DEF IInv, ParkedOK, GatePlaces
  <2>3. LimiterTypeOK' /\ Counted' /\ Served'
    BY <1>1, <1>2, <1>3, <2>1, IInvFacts DEF IInv, LimiterTypeOK, Counted, Served
  <2>4. QED
    BY <2>2, <2>3 DEF IInv
<1>4. ASSUME NEW k \in DOMAIN parked, parked[k] = t, parked' = RemoveAt(parked, k)
      PROVE  IInv'
  <2>1. k \in 1..Len(parked) /\ gate[t] = "queued"
    BY <1>4, IInvFacts DEF IInv, ParkedOK, Lists
  <2>2. /\ parked' \in Seq(Tasks) /\ Len(parked') = Len(parked) - 1
        /\ \A j \in 1..Len(parked)-1 :
             parked'[j] = IF j < k THEN parked[j] ELSE parked[j+1]
    BY <1>4, <2>1, IInvFacts, RemoveAtFacts
  <2>3. Len(parked) \in Nat
    BY IInvFacts
  <2>4. /\ Num(gate', {"holding"}) = active /\ Num(gate', WaitingPlaces) = waiting
        /\ Num(gate', Handed) = Num(gate, Handed) + 1
    BY <1>2, <2>1, IInvFacts, GateMoved, Weights
  <2> DEFINE src(j) == IF j < k THEN j ELSE j + 1
  <2>5. \A j \in 1..Len(parked') :
           src(j) \in 1..Len(parked) /\ src(j) # k /\ parked'[j] = parked[src(j)]
    BY <2>1, <2>2, <2>3
  <2>6. \A i \in 1..Len(parked) : i # k => parked[i] # t /\ parked[i] \in Tasks
    BY <1>4, <2>1, IInvFacts DEF IInv, ParkedOK, Lists
  <2>7. \A j \in 1..Len(parked') : gate'[parked'[j]] = "queued"
    BY <2>5, <2>6, <1>2 DEF IInv, ParkedOK, Lists, OnlyMoves
  <2>8. \A i, j \in 1..Len(parked') : parked'[i] = parked'[j] => i = j
    <3> SUFFICES ASSUME NEW i \in 1..Len(parked'), NEW j \in 1..Len(parked'),
                        parked'[i] = parked'[j]
                 PROVE  i = j
      OBVIOUS
    <3>1. src(i) = src(j)
      BY <2>5 DEF IInv, ParkedOK, Lists
    <3>2. QED
      BY <3>1, <2>2, <2>3
  <2>9. ASSUME NEW u \in Tasks, gate'[u] = "queued"
        PROVE  \E j \in 1..Len(parked') : parked'[j] = u
    <3>1. u # t /\ gate[u] = "queued"
      BY <2>9, <1>2 DEF OnlyMoves
    <3>2. PICK i \in 1..Len(parked) : parked[i] = u
      BY <3>1 DEF IInv, ParkedOK, Lists
    <3>3. i # k
      BY <3>1, <3>2, <1>4
    <3>4. CASE i < k
      <4>1. i \in 1..Len(parked') /\ parked'[i] = u
        BY <3>2, <3>4, <2>1, <2>2, <2>3
      <4>2. QED
        BY <4>1
    <3>5. CASE i > k
      <4>1. i-1 \in 1..Len(parked') /\ parked'[i-1] = u
        BY <3>2, <3>5, <2>1, <2>2, <2>3
      <4>2. QED
        BY <4>1
    <3>6. QED
      BY <3>3, <3>4, <3>5, <2>1
  <2>10. ParkedOK'
    BY <2>7, <2>8, <2>9 DEF ParkedOK, Lists
  <2>11. LimiterTypeOK' /\ Counted'
    BY <1>1, <1>2, <2>2, <2>4, IInvFacts DEF LimiterTypeOK, Counted
  <2>12. Served'
    <3>1. parked # <<>>
      BY <2>1, <2>3
    <3>2. QED
      BY <3>1, <1>1, <2>4, IInvFacts DEF IInv, Served
  <2>13. QED
    BY <2>10, <2>11, <2>12 DEF IInv
<1>5. QED
  BY <1>3, <1>4 DEF Cancel

LEMMA ReturnPreserves ==
  ASSUME IInv, NEW t \in Tasks, Return(t)
  PROVE  IInv'
<1>1. /\ gate[t] = "rejected" /\ gate' = [gate EXCEPT ![t] = "out"]
      /\ active' = active /\ waiting' = waiting /\ parked' = parked
  BY DEF Return
<1>2. /\ gate' \in [Tasks -> GatePlaces] /\ gate'[t] = "out" /\ OnlyMoves(gate, gate', t)
  BY <1>1, IInvFacts DEF GatePlaces, OnlyMoves
<1>3. /\ Num(gate', {"holding"}) = active /\ Num(gate', WaitingPlaces) = waiting
      /\ Num(gate', Handed) = Num(gate, Handed)
  <2>1. gate[t] = "rejected"
    BY <1>1
  <2>2. Num(gate', {"holding"}) = active
    BY <2>1, <1>2, IInvFacts, GateMoved, Weights
  <2>3. Num(gate', WaitingPlaces) = waiting
    BY <2>1, <1>2, IInvFacts, GateMoved, Weights
  <2>4. Num(gate', Handed) = Num(gate, Handed)
    BY <2>1, <1>2, IInvFacts, GateMoved, Weights
  <2>5. QED
    BY <2>2, <2>3, <2>4
<1>4. ParkedOK'
  BY <1>1, IInvFacts, ListsMove DEF IInv, ParkedOK, GatePlaces
<1>5. LimiterTypeOK' /\ Counted' /\ Served'
  BY <1>1, <1>2, <1>3, IInvFacts DEF IInv, LimiterTypeOK, Counted, Served
<1>6. QED
  BY <1>4, <1>5 DEF IInv

\* A notification neither gives a slot nor takes one.
LEMMA NotifyKeepsHolders ==
  ASSUME NEW q \in Seq(Tasks), NEW f \in [Tasks -> GatePlaces], Lists(q, f), Notify(q, f)
  PROVE  \A u \in Tasks : gate'[u] = "holding" <=> f[u] = "holding"
<1>1. CASE q = <<>>
  BY <1>1 DEF Notify
<1>2. CASE q # <<>>
  <2>1. Head(q) \in Tasks /\ Head(q) = q[1] /\ 1 \in 1..Len(q)
    BY <1>2
  <2>2. f[Head(q)] = "queued"
    BY <2>1 DEF Lists
  <2>3. gate' = [f EXCEPT ![Head(q)] = "woken"]
    BY <1>2 DEF Notify
  <2>4. QED
    BY <2>1, <2>2, <2>3
<1>3. QED
  BY <1>1, <1>2

\* A caller that leaves with a notification leaves without a slot.
LEMMA OutKeepsHolders ==
  ASSUME IInv, NEW t \in Tasks, gate[t] # "queued", Notify(parked, [gate EXCEPT ![t] = "out"])
  PROVE  /\ \A u \in Tasks : u # t => (gate'[u] = "holding" <=> gate[u] = "holding")
         /\ gate'[t] # "holding"
<1> DEFINE f == [gate EXCEPT ![t] = "out"]
<1>1. f \in [Tasks -> GatePlaces] /\ f[t] = "out" /\ \A u \in Tasks : u # t => f[u] = gate[u]
  BY IInvFacts DEF GatePlaces
<1>2. Lists(parked, f)
  BY IInvFacts, ListsMove DEF IInv, ParkedOK, GatePlaces
<1>3. parked \in Seq(Tasks) /\ Notify(parked, f)
  BY IInvFacts
<1> HIDE DEF f
<1>4. \A u \in Tasks : gate'[u] = "holding" <=> f[u] = "holding"
  BY <1>1, <1>2, <1>3, NotifyKeepsHolders
<1>5. QED
  BY <1>1, <1>4

\* Cancellation in the waiting room and the return of a rejected caller move no slot.
LEMMA ElsewhereKeepsHolders ==
  ASSUME IInv, NEW t \in Tasks, Cancel(t) \/ Abandon(t) \/ Return(t)
  PROVE  /\ gate[t] # "holding"
         /\ \A u \in Tasks : gate'[u] = "holding" <=> gate[u] = "holding"
<1>1. gate \in [Tasks -> GatePlaces] /\ parked \in Seq(Tasks)
  BY IInvFacts
<1>2. CASE Cancel(t)
  <2>1. gate[t] \in {"woken", "queued"}
    BY <1>1, <1>2 DEF Cancel, IInv, ParkedOK, Lists
  <2>2. QED
    BY <1>1, <1>2, <2>1 DEF Cancel
<1>3. CASE Abandon(t)
  <2>1. gate[t] = "cancelled"
    BY <1>3 DEF Abandon
  <2>2. CASE Renotify
    BY <1>1, <1>3, <2>1, <2>2, OutKeepsHolders DEF Abandon
  <2>3. CASE ~Renotify
    BY <1>1, <1>3, <2>1, <2>3 DEF Abandon
  <2>4. QED
    BY <2>2, <2>3
<1>4. CASE Return(t)
  BY <1>1, <1>4 DEF Return
<1>5. QED
  BY <1>2, <1>3, <1>4

-------------------------------------------------------------------------------
\* Every step keeps the invariant and turns away nobody from the waiting room.
LEMMA StepHolds ==
  ASSUME IInv, [LimiterNext]_limiterVars
  PROVE  IInv' /\ \A t \in Tasks : gate[t] \in {"queued", "woken"} => gate'[t] # "rejected"
<1> DEFINE Kept == \A u \in Tasks : gate[u] \in {"queued", "woken"} => gate'[u] # "rejected"
<1>1. CASE UNCHANGED limiterVars
  <2>1. IInv'
    BY <1>1 DEF limiterVars, IInv, LimiterTypeOK, ParkedOK, Counted, Served
  <2>2. Kept
    BY <1>1 DEF limiterVars
  <2>3. QED
    BY <2>1, <2>2
<1>2. ASSUME NEW t \in Tasks, Acquire(t)
      PROVE  IInv' /\ Kept
  <2>1. gate[t] = "out" /\ AcquireTurn(t, IF gate[t] = "woken" THEN waiting - 1 ELSE waiting)
    BY <1>2 DEF Acquire
  <2>2. Kept
    BY <2>1, IInvFacts DEF AcquireTurn, TakeSlot, TurnAway, Park
  <2>3. QED
    BY <2>1, <2>2, TurnPreserves
<1>3. ASSUME NEW t \in Tasks, Resume(t)
      PROVE  IInv' /\ Kept
  <2>1. gate[t] = "woken" /\ AcquireTurn(t, IF gate[t] = "woken" THEN waiting - 1 ELSE waiting)
    BY <1>3 DEF Resume
  <2>2. IInv' /\ gate'[t] # "rejected"
    BY <2>1, TurnPreserves
  <2>3. \A u \in Tasks : u # t => gate'[u] = gate[u]
    BY <2>1, IInvFacts DEF AcquireTurn, TakeSlot, TurnAway, Park
  <2>4. QED
    BY <2>2, <2>3
<1>4. ASSUME NEW t \in Tasks, Release(t)
      PROVE  IInv' /\ Kept
  <2>1. Kept
    BY <1>4, IInvFacts DEF Release, Notify
  <2>2. QED
    BY <1>4, <2>1, ReleasePreserves
<1>5. ASSUME NEW t \in Tasks, Cancel(t)
      PROVE  IInv' /\ Kept
  <2>1. Kept
    BY <1>5, IInvFacts DEF Cancel
  <2>2. QED
    BY <1>5, <2>1, CancelPreserves
<1>6. ASSUME NEW t \in Tasks, Abandon(t)
      PROVE  IInv' /\ Kept
  <2>1. Kept
    BY <1>6, IInvFacts DEF Abandon, Notify
  <2>2. QED
    BY <1>6, <2>1, AbandonPreserves
<1>7. ASSUME NEW t \in Tasks, Return(t)
      PROVE  IInv' /\ Kept
  <2>1. Kept
    BY <1>7, IInvFacts DEF Return
  <2>2. QED
    BY <1>7, <2>1, ReturnPreserves
<1>8. QED
  BY <1>1, <1>2, <1>3, <1>4, <1>5, <1>6, <1>7 DEF LimiterNext

\* The invariant says what the properties say of sets.
LEMMA IInvImplies ==
  ASSUME IInv
  PROVE  LimiterTypeOK /\ CountersExact /\ (Renotify => NoStrandedWaiter)
<1>1. /\ At("holding") = {t \in Tasks : gate[t] \in {"holding"}}
      /\ Waiters = {t \in Tasks : gate[t] \in WaitingPlaces}
      /\ At("woken") \union At("cancelled") = {t \in Tasks : gate[t] \in Handed}
  BY DEF At, Waiters, WaitingPlaces, Handed
<1>2. CountersExact
  BY <1>1 DEF IInv, Counted, Num, CountersExact
<1>3. Renotify => NoStrandedWaiter
  BY <1>1 DEF IInv, Served, Num, NoStrandedWaiter
<1>4. QED
  BY <1>2, <1>3 DEF IInv

\* Every reachable state of the gate satisfies the inductive invariant.
THEOREM InvariantHolds == LimiterSpec => []IInv
<1>1. IInv /\ [LimiterNext]_limiterVars => IInv'
  BY StepHolds
<1>2. QED
  BY <1>1, InitHolds, PTL DEF LimiterSpec

\* Type correctness of the gate's state.
THEOREM TypeCorrect == LimiterSpec => []LimiterTypeOK
<1>1. IInv => LimiterTypeOK
  BY DEF IInv
<1>2. QED
  BY <1>1, InvariantHolds, PTL

\* acquire(), release() and cancellation keep both counters exact, for any number
\* of callers and any limits.
THEOREM CountersAreExact == LimiterSpec => []CountersExact
<1>1. IInv => CountersExact
  BY IInvImplies
<1>2. QED
  BY <1>1, InvariantHolds, PTL

\* With asyncio's hand-over of a cancelled notification (Python >= 3.13), no wake-up
\* is ever lost.
THEOREM NoWakeupIsLost == ASSUME Renotify PROVE LimiterSpec => []NoStrandedWaiter
<1>1. IInv => NoStrandedWaiter
  BY IInvImplies
<1>2. QED
  BY <1>1, InvariantHolds, PTL

\* A caller that queued is not turned away afterwards.
THEOREM QueuedIsNotRejected == LimiterSpec => NeverRejectedAfterQueueing
<1>1. IInv /\ [LimiterNext]_limiterVars =>
        [\A t \in Tasks : gate[t] \in {"queued", "woken"} => gate'[t] # "rejected"]_limiterVars
  BY StepHolds
<1>2. QED
  BY <1>1, InvariantHolds, PTL DEF LimiterSpec, NeverRejectedAfterQueueing

-------------------------------------------------------------------------------
\* Where a caller stands for AdmissionControl, and what it calls a free slot.
Place(f) == [t \in Tasks |-> IF f[t] \in WaitingPlaces THEN "waiting" ELSE f[t]]

\* The places of the refinement mapping are those of the callers' gates.
LEMMA PlaceIs ==
  /\ [t \in Tasks |-> IF t \in Waiters THEN "waiting" ELSE gate[t]] = Place(gate)
  /\ [t \in Tasks |-> IF t \in Waiters THEN "waiting" ELSE gate[t]]' = Place(gate')
BY DEF Place, Waiters, At, WaitingPlaces

\* The holders and waiters of AdmissionControl are those that the counters count.
LEMMA AdmissionCounts ==
  ASSUME IInv
  PROVE  /\ Admission!SlotFree <=> SlotFree
         /\ Admission!WaitingRoomFull <=> QueueFull(waiting)
<1>1. gate \in [Tasks -> GatePlaces]
  BY IInvFacts
<1>2. Admission!At("holding") = {t \in Tasks : gate[t] \in {"holding"}}
  BY <1>1 DEF Admission!At, Waiters, At, WaitingPlaces
<1>3. Admission!At("waiting") = {t \in Tasks : gate[t] \in WaitingPlaces}
  BY <1>1 DEF Admission!At, Waiters, At, WaitingPlaces, GatePlaces
<1>4. Cardinality(Admission!At("holding")) = active
  BY <1>2, IInvFacts DEF Num
<1>5. Cardinality(Admission!At("waiting")) = waiting
  BY <1>3, IInvFacts DEF Num
<1>6. \A S : Admission!Cardinality(S) = Cardinality(S)
  BY DEF Admission!Cardinality, Cardinality
<1>7. QED
  BY <1>4, <1>5, <1>6 DEF Admission!SlotFree, Admission!WaitingRoomFull, SlotFree, QueueFull

\* One caller goes from one place of AdmissionControl to another, or stays.
LEMMA PlaceMoves ==
  ASSUME NEW f \in [Tasks -> GatePlaces], NEW t \in Tasks, NEW p \in GatePlaces
  PROVE  Place([f EXCEPT ![t] = p]) =
           [Place(f) EXCEPT ![t] = IF p \in WaitingPlaces THEN "waiting" ELSE p]
BY DEF Place

\* A notification moves no caller out of the waiting room.
LEMMA NotifyStutters ==
  ASSUME NEW q \in Seq(Tasks), NEW f \in [Tasks -> GatePlaces], Lists(q, f), Notify(q, f)
  PROVE  Place(gate') = Place(f)
<1>1. CASE q = <<>>
  BY <1>1 DEF Notify
<1>2. CASE q # <<>>
  <2>1. Head(q) \in Tasks /\ Head(q) = q[1] /\ 1 \in 1..Len(q)
    BY <1>2
  <2>2. f[Head(q)] = "queued"
    BY <2>1 DEF Lists
  <2>3. gate' = [f EXCEPT ![Head(q)] = "woken"]
    BY <1>2 DEF Notify
  <2>4. QED
    BY <2>1, <2>2, <2>3 DEF Place, WaitingPlaces
<1>3. QED
  BY <1>1, <1>2

\* What AdmissionControl calls a move, in terms of gate.
LEMMA MoveIs ==
  ASSUME NEW t \in Tasks, NEW from, NEW to,
         Place(gate)[t] = from, Place(gate') = [Place(gate) EXCEPT ![t] = to]
  PROVE  Admission!Move(t, from, to)
BY PlaceIs DEF Admission!Move

\* A step of the gate is a step of AdmissionControl, or changes nothing it sees.
LEMMA StepRefines ==
  ASSUME IInv, [LimiterNext]_limiterVars
  PROVE  Admission!Next \/ Place(gate') = Place(gate)
<1>1. gate \in [Tasks -> GatePlaces] /\ parked \in Seq(Tasks) /\ Lists(parked, gate)
  BY IInvFacts DEF IInv, ParkedOK
<1>2. CASE UNCHANGED limiterVars
  BY <1>2 DEF limiterVars
<1>3. ASSUME NEW t \in Tasks, Acquire(t)
      PROVE  Admission!Next
  <2>1. gate[t] = "out" /\ Place(gate)[t] = "out"
    BY <1>3 DEF Acquire, Place, WaitingPlaces
  <2>2. CASE TakeSlot(t, waiting)
    <3>1. Place(gate') = [Place(gate) EXCEPT ![t] = "holding"]
      BY <1>1, <2>2, PlaceMoves DEF TakeSlot, GatePlaces, WaitingPlaces
    <3>2. Admission!Enter(t)
      BY <2>1, <2>2, <3>1, MoveIs, AdmissionCounts DEF TakeSlot, Admission!Enter
    <3>3. QED
      BY <3>2 DEF Admission!Next
  <2>3. CASE TurnAway(t, waiting)
    <3>1. Place(gate') = [Place(gate) EXCEPT ![t] = "rejected"]
      BY <1>1, <2>3, PlaceMoves DEF TurnAway, GatePlaces, WaitingPlaces
    <3>2. Admission!Reject(t)
      BY <2>1, <2>3, <3>1, MoveIs, AdmissionCounts DEF TurnAway, Admission!Reject
    <3>3. QED
      BY <3>2 DEF Admission!Next
  <2>4. CASE Park(t, waiting)
    <3>1. Place(gate') = [Place(gate) EXCEPT ![t] = "waiting"]
      BY <1>1, <2>4, PlaceMoves DEF Park, GatePlaces, WaitingPlaces
    <3>2. Admission!Wait(t)
      BY <2>1, <2>4, <3>1, MoveIs, AdmissionCounts DEF Park, Admission!Wait
    <3>3. QED
      BY <3>2 DEF Admission!Next
  <2>5. QED
    BY <1>3, <2>2, <2>3, <2>4 DEF Acquire, AcquireTurn
<1>4. ASSUME NEW t \in Tasks, Resume(t)
      PROVE  Admission!Next \/ Place(gate') = Place(gate)
  <2>1. gate[t] = "woken" /\ Place(gate)[t] = "waiting"
    BY <1>4 DEF Resume, Place, WaitingPlaces
  <2>2. CASE TakeSlot(t, waiting - 1)
    <3>1. Place(gate') = [Place(gate) EXCEPT ![t] = "holding"]
      BY <1>1, <2>2, PlaceMoves DEF TakeSlot, GatePlaces, WaitingPlaces
    <3>2. Admission!Admit(t)
      BY <2>1, <2>2, <3>1, MoveIs, AdmissionCounts DEF TakeSlot, Admission!Admit
    <3>3. QED
      BY <3>2 DEF Admission!Next
  <2>3. CASE TurnAway(t, waiting - 1)
    <3>1. gate'[t] # "rejected"
      BY <2>1, StepHolds
    <3>2. gate'[t] = "rejected"
      BY <1>1, <2>3 DEF TurnAway
    <3>3. QED
      BY <3>1, <3>2
  <2>4. CASE Park(t, waiting - 1)
    <3>1. Place(gate') = [Place(gate) EXCEPT ![t] = "waiting"]
      BY <1>1, <2>4, PlaceMoves DEF Park, GatePlaces, WaitingPlaces
    <3>2. QED
      BY <2>1, <3>1 DEF Place
  <2>5. QED
    BY <1>4, <2>2, <2>3, <2>4 DEF Resume, AcquireTurn
<1>5. ASSUME NEW t \in Tasks, Release(t)
      PROVE  Admission!Next
  <2> DEFINE f == [gate EXCEPT ![t] = "out"]
  <2>1. gate[t] = "holding" /\ Place(gate)[t] = "holding" /\ Notify(parked, f)
    BY <1>5 DEF Release, Place, WaitingPlaces
  <2>2. f \in [Tasks -> GatePlaces] /\ Lists(parked, f)
    BY <1>1, <2>1, ListsMove DEF GatePlaces
  <2>3. Place(f) = [Place(gate) EXCEPT ![t] = "out"]
    BY <1>1, PlaceMoves DEF GatePlaces, WaitingPlaces
  <2> HIDE DEF f
  <2>4. Place(gate') = Place(f)
    BY <1>1, <2>1, <2>2, NotifyStutters
  <2>5. Admission!Leave(t)
    BY <2>1, <2>3, <2>4, MoveIs DEF Admission!Leave
  <2>6. QED
    BY <2>5 DEF Admission!Next
<1>6. ASSUME NEW t \in Tasks, Cancel(t)
      PROVE  Place(gate') = Place(gate)
  <2>1. gate[t] \in {"woken", "queued"}
    BY <1>1, <1>6 DEF Cancel, Lists
  <2>2. Place(gate') = [Place(gate) EXCEPT ![t] = "waiting"] /\ Place(gate)[t] = "waiting"
    BY <1>1, <1>6, <2>1, PlaceMoves DEF Cancel, GatePlaces, WaitingPlaces, Place
  <2>3. QED
    BY <2>2 DEF Place
<1>7. ASSUME NEW t \in Tasks, Abandon(t)
      PROVE  Admission!Next
  <2> DEFINE f == [gate EXCEPT ![t] = "out"]
  <2>1. gate[t] = "cancelled" /\ Place(gate)[t] = "waiting"
    BY <1>7 DEF Abandon, Place, WaitingPlaces
  <2>2. f \in [Tasks -> GatePlaces] /\ Lists(parked, f)
    BY <1>1, <2>1, ListsMove DEF GatePlaces
  <2>3. Place(f) = [Place(gate) EXCEPT ![t] = "out"]
    BY <1>1, PlaceMoves DEF GatePlaces, WaitingPlaces
  <2>4. Notify(parked, f) \/ gate' = f
    BY <1>7 DEF Abandon
  <2> HIDE DEF f
  <2>5. Place(gate') = Place(f)
    BY <1>1, <2>2, <2>4, NotifyStutters
  <2>6. Admission!Abandon(t)
    BY <2>1, <2>3, <2>5, MoveIs DEF Admission!Abandon
  <2>7. QED
    BY <2>6 DEF Admission!Next
<1>8. ASSUME NEW t \in Tasks, Return(t)
      PROVE  Admission!Next
  <2>1. gate[t] = "rejected" /\ Place(gate)[t] = "rejected"
    BY <1>8 DEF Return, Place, WaitingPlaces
  <2>2. Place(gate') = [Place(gate) EXCEPT ![t] = "out"]
    BY <1>1, <1>8, PlaceMoves DEF Return, GatePlaces, WaitingPlaces
  <2>3. Admission!Return(t)
    BY <2>1, <2>2, MoveIs DEF Admission!Return
  <2>4. QED
    BY <2>3 DEF Admission!Next
<1>9. QED
  BY <1>2, <1>3, <1>4, <1>5, <1>6, <1>7, <1>8 DEF LimiterNext

\* The gate implements AdmissionControl step by step: the counters, the condition and
\* its notifications decide as the sets of holders and waiters would.  That a slot does
\* not stay free for ever is left to the runs.
THEOREM RefinesAdmissionControl ==
  LimiterSpec => Admission!Init /\ [][Admission!Next]_(Place(gate))
<1>1. LimiterInit => Admission!Init
  BY DEF LimiterInit, Admission!Init, Waiters, At
<1>2. IInv /\ [LimiterNext]_limiterVars => [Admission!Next]_(Place(gate))
  BY StepRefines
<1>3. QED
  BY <1>1, <1>2, InvariantHolds, PTL DEF LimiterSpec
===============================================================================

------------------------------ MODULE Calls_proofs ------------------------------
(***************************************************************************)
(* Proofs about the two ends of a call, which share the gate: the client's *)
(* PolicyExecutor with the CircuitBreaker it extends, and the service's    *)
(* DependencyService; for every number of calls, every limit and capacity  *)
(* and every setting of the policies.                                      *)
(*                                                                         *)
(* 1. The breaker.  BreakerInv, the conjunction of its three invariants,   *)
(*    is inductive; the probe count needs the type of inflight and nothing *)
(*    else, which is why no caller can drive the breaker out of it.        *)
(* 2. The executor.  Its steps are steps of the gate and of the breaker,   *)
(*    so their invariants carry over; ExecutorInv adds what the locals of  *)
(*    a call have to do with each other, with the slot and with the task   *)
(*    that is running.                                                     *)
(* 3. The owners of the probe slots.  What the breaker counts is compared  *)
(*    with the calls that will report an outcome, step by step.            *)
(* 4. The service.  The gate's invariant is kept by the service's own      *)
(*    stretches too, also by the one that takes a slot and gives it back   *)
(*    at once; with it, the flag and the work of the calls follow the      *)
(*    gate.  Every other step is one of the gate's at the gate, which is   *)
(*    why what the gate promises its callers the service promises too.     *)
(***************************************************************************)
EXTENDS PolicyExecutor, DependencyService, ConcurrencyLimiter_proofs

-------------------------------------------------------------------------------
(* 1. The breaker                                                          *)

BreakerInv == BreakerTypeOK /\ ProbesCounted /\ NoIgnoredEvidence

\* The window stays a sequence of outcomes.
LEMMA RecordRecentType ==
  ASSUME recent \in Seq(BOOLEAN), NEW ok \in BOOLEAN, RecordRecent(ok)
  PROVE  recent' \in Seq(BOOLEAN)
<1>1. CASE Rolling
  <2>1. PICK gone \in 0..Len(recent) :
          recent' = Append(SubSeq(recent, gone + 1, Len(recent)), ok)
    BY <1>1 DEF RecordRecent
  <2>2. SubSeq(recent, gone + 1, Len(recent)) \in Seq(BOOLEAN)
    OBVIOUS
  <2>3. QED
    BY <2>1, <2>2
<1>2. CASE ~Rolling
  BY <1>2 DEF RecordRecent
<1>3. QED
  BY <1>1, <1>2

LEMMA InitBreaker ==
  ASSUME BreakerInit
  PROVE  BreakerInv
<1>1. BreakerTypeOK
  BY BreakerAssumption DEF BreakerInit, BreakerTypeOK
<1>2. ProbesCounted /\ NoIgnoredEvidence
  BY BreakerAssumption DEF BreakerInit, ProbesCounted, NoIgnoredEvidence
<1>3. QED
  BY <1>1, <1>2 DEF BreakerInv

LEMMA AllowPreserves ==
  ASSUME BreakerInv, Allow
  PROVE  BreakerInv'
<1>1. CASE AllowAfterRecovery
  BY <1>1, BreakerAssumption
  DEF AllowAfterRecovery, BreakerInv, BreakerTypeOK, ProbesCounted, NoIgnoredEvidence
<1>2. CASE AllowProbe
  BY <1>2, BreakerAssumption
  DEF AllowProbe, BreakerInv, BreakerTypeOK, ProbesCounted, NoIgnoredEvidence
<1>3. CASE AllowClosed
  BY <1>3 DEF AllowClosed, breakerVars, BreakerInv, BreakerTypeOK, ProbesCounted,
              NoIgnoredEvidence, ThresholdMet
<1>4. QED
  BY <1>1, <1>2, <1>3 DEF Allow

LEMMA SuccessPreserves ==
  ASSUME BreakerInv, RecordSuccess
  PROVE  BreakerInv'
<1>1. recent' \in Seq(BOOLEAN)
  BY RecordRecentType DEF BreakerInv, BreakerTypeOK, RecordSuccess
<1>2. BreakerTypeOK'
  BY <1>1, BreakerAssumption DEF BreakerInv, BreakerTypeOK, RecordSuccess
<1>3. ProbesCounted'
  BY BreakerAssumption DEF BreakerInv, BreakerTypeOK, ProbesCounted, RecordSuccess
<1>4. NoIgnoredEvidence'
  BY BreakerAssumption DEF RecordSuccess, NoIgnoredEvidence
<1>5. QED
  BY <1>2, <1>3, <1>4 DEF BreakerInv

LEMMA OpenPreserves ==
  ASSUME Open, inflight' \in 0..Probes, recent' \in Seq(BOOLEAN)
  PROVE  BreakerInv'
<1>1. BreakerTypeOK'
  <2>1. failures' \in 0..Threshold
    BY BreakerAssumption DEF Open
  <2>2. waited' \in BOOLEAN
    BY DEF Open
  <2>3. state' \in {"closed", "open", "half_open"}
    BY DEF Open
  <2>4. QED
    BY <2>1, <2>2, <2>3 DEF BreakerTypeOK
<1>2. ProbesCounted' /\ NoIgnoredEvidence'
  BY DEF Open, ProbesCounted, NoIgnoredEvidence
<1>3. QED
  BY <1>1, <1>2 DEF BreakerInv

LEMMA FailurePreserves ==
  ASSUME BreakerInv, RecordFailure
  PROVE  BreakerInv'
<1> DEFINE count == IF failures < Threshold THEN failures + 1 ELSE Threshold
<1>1. recent' \in Seq(BOOLEAN)
  BY RecordRecentType DEF BreakerInv, BreakerTypeOK, RecordFailure
<1>2. count \in 0..Threshold
  BY BreakerAssumption DEF BreakerInv, BreakerTypeOK
<1>3. CASE state = "half_open"
  <2>1. Open /\ inflight' \in 0..Probes
    BY <1>3, BreakerAssumption DEF RecordFailure, BreakerInv, BreakerTypeOK
  <2>2. QED
    BY <1>1, <2>1, OpenPreserves
<1>4. CASE state # "half_open"
  <2>1. CountFailure(count) /\ inflight' = inflight
    BY <1>4 DEF RecordFailure
  <2>2. CASE count >= Threshold /\ ThresholdMet(count, recent')
    <3>1. Open
      BY <2>1, <2>2 DEF CountFailure
    <3>2. inflight' \in 0..Probes
      BY <2>1 DEF BreakerInv, BreakerTypeOK
    <3>3. QED
      BY <1>1, <3>1, <3>2, OpenPreserves
  <2>3. CASE ~(count >= Threshold /\ ThresholdMet(count, recent'))
    <3>1. failures' = count /\ state' = state /\ waited' = waited
      BY <2>1, <2>3 DEF CountFailure
    <3>2. ~(failures' >= Threshold /\ ThresholdMet(failures', recent'))
      BY <2>3, <3>1
    <3>3. NoIgnoredEvidence'
      BY <3>2 DEF NoIgnoredEvidence, ThresholdMet
    <3>4. BreakerTypeOK' /\ ProbesCounted'
      BY <1>1, <1>2, <2>1, <3>1 DEF BreakerInv, BreakerTypeOK, ProbesCounted
    <3>5. QED
      BY <3>1, <3>3, <3>4 DEF BreakerInv
  <2>4. QED
    BY <2>2, <2>3
<1>5. QED
  BY <1>3, <1>4

LEMMA BreakerStep ==
  ASSUME BreakerInv, [BreakerNext]_breakerVars
  PROVE  BreakerInv'
<1>1. CASE Allow
  BY <1>1, AllowPreserves
<1>2. CASE Refuse \/ UNCHANGED breakerVars
  <2>1. UNCHANGED breakerVars
    BY <1>2 DEF Refuse
  <2>2. QED
    BY <2>1 DEF breakerVars, BreakerInv, BreakerTypeOK, ProbesCounted,
                NoIgnoredEvidence, ThresholdMet
<1>3. CASE RecordSuccess
  BY <1>3, SuccessPreserves
<1>4. CASE RecordFailure
  BY <1>4, FailurePreserves
<1>5. CASE RecoveryElapses
  BY <1>5 DEF RecoveryElapses, BreakerInv, BreakerTypeOK, ProbesCounted,
              NoIgnoredEvidence, ThresholdMet
<1>6. CASE Reset
  <2>1. BreakerTypeOK'
    BY <1>6, BreakerAssumption DEF Reset, BreakerInv, BreakerTypeOK
  <2>2. QED
    BY <1>6, <2>1, BreakerAssumption DEF Reset, BreakerInv, ProbesCounted, NoIgnoredEvidence
<1>7. QED
  BY <1>1, <1>2, <1>3, <1>4, <1>5, <1>6 DEF BreakerNext

-------------------------------------------------------------------------------
\* Every reachable state of the breaker satisfies the inductive invariant.
THEOREM BreakerInvariant == BreakerSpec => []BreakerInv
<1>1. BreakerInit => BreakerInv
  BY InitBreaker
<1>2. BreakerInv /\ [BreakerNext]_breakerVars => BreakerInv'
  BY BreakerStep
<1>3. QED
  BY <1>1, <1>2, PTL DEF BreakerSpec

\* A half-open circuit has between one and half_open_probes probes out, in whatever
\* order allow(), record_success() and record_failure() are called.
THEOREM ProbesAreCounted == BreakerSpec => []ProbesCounted
<1>1. BreakerInv => ProbesCounted
  BY DEF BreakerInv
<1>2. QED
  BY <1>1, BreakerInvariant, PTL

\* A closed circuit never holds the evidence that record_failure() opens it on.
THEOREM EvidenceIsActedOn == BreakerSpec => []NoIgnoredEvidence
<1>1. BreakerInv => NoIgnoredEvidence
  BY DEF BreakerInv
<1>2. QED
  BY <1>1, BreakerInvariant, PTL

\* Of the window: its newest outcomes are the failures in a row, as far as it reaches.
FailuresEnd(outcomes, count) ==
  \A i \in DOMAIN outcomes : i > Len(outcomes) - count => ~outcomes[i]

RowInWindow == Rolling => FailuresEnd(recent, failures)

\* One more outcome, of a row that is at most one longer for a failure, empty otherwise.
LEMMA RecordRow ==
  ASSUME BreakerTypeOK, RowInWindow, Rolling, NEW ok \in BOOLEAN, RecordRecent(ok),
         NEW count \in Nat, ok => count = 0, ~ok => count <= failures + 1
  PROVE  FailuresEnd(recent', count)
<1>1. PICK gone \in 0..Len(recent) :
        recent' = Append(SubSeq(recent, gone + 1, Len(recent)), ok)
  BY DEF RecordRecent
<1>2. recent \in Seq(BOOLEAN) /\ failures \in Nat /\ Len(recent) \in Nat
  BY BreakerAssumption DEF BreakerTypeOK
<1> DEFINE kept == SubSeq(recent, gone + 1, Len(recent))
<1>3. /\ kept \in Seq(BOOLEAN) /\ Len(kept) = Len(recent) - gone
      /\ \A i \in 1..Len(kept) : kept[i] = recent[i + gone]
  BY <1>2
<1>4. recent' = Append(kept, ok)
  BY <1>1 DEF kept
<1> HIDE DEF kept
<1>5. /\ Len(recent') = Len(kept) + 1 /\ DOMAIN recent' = 1..(Len(kept) + 1)
      /\ recent'[Len(kept) + 1] = ok
      /\ \A i \in 1..Len(kept) : recent'[i] = kept[i]
  BY <1>3, <1>4
<1> SUFFICES ASSUME NEW i \in DOMAIN recent', i > Len(recent') - count
             PROVE  ~recent'[i]
  BY DEF FailuresEnd
<1>6. ~ok /\ count <= failures + 1
  BY <1>5, <1>3
<1>7. CASE i = Len(kept) + 1
  BY <1>5, <1>6, <1>7
<1>8. CASE i \in 1..Len(kept)
  <2>1. recent'[i] = recent[i + gone]
    BY <1>3, <1>5, <1>8
  <2>2. i + gone \in DOMAIN recent /\ i + gone > Len(recent) - failures
    BY <1>2, <1>3, <1>5, <1>6, <1>8
  <2>3. QED
    BY <2>1, <2>2 DEF RowInWindow, FailuresEnd
<1>9. QED
  BY <1>3, <1>5, <1>7, <1>8

\* As many failures in the window as the threshold asks for, and a row that long.
LEMMA FreshRow ==
  ASSUME NEW outcomes \in Seq(BOOLEAN), Rolling, ThresholdMet(Threshold, outcomes),
         FailuresEnd(outcomes, Threshold)
  PROVE  /\ Len(outcomes) >= Threshold
         /\ \A i \in DOMAIN outcomes : i > Len(outcomes) - Threshold => ~outcomes[i]
<1> DEFINE failed == {i \in DOMAIN outcomes : ~outcomes[i]}
<1>1. Cardinality(failed) >= Threshold
  BY DEF ThresholdMet
<1>2. IsFiniteSet(1..Len(outcomes)) /\ Cardinality(1..Len(outcomes)) = Len(outcomes)
  BY FS_Interval, Len(outcomes) \in Nat
<1>3. failed \in SUBSET (1..Len(outcomes))
  OBVIOUS
<1> HIDE DEF failed
<1>4. Cardinality(failed) <= Len(outcomes) /\ Cardinality(failed) \in Nat
  BY <1>2, <1>3, FS_Subset, FS_CardinalityType
<1>5. Len(outcomes) >= Threshold
  BY <1>1, <1>4, BreakerAssumption
<1>6. QED
  BY <1>5 DEF FailuresEnd

\* What a step does to the row and, when it opens a closed circuit, finds in the window.
FreshlyOpened ==
  Rolling /\ state = "closed" /\ state' = "open" =>
    /\ Len(recent') >= Threshold
    /\ \A i \in DOMAIN recent' : i > Len(recent') - Threshold => ~recent'[i]

LEMMA FailureRow ==
  ASSUME BreakerInv, RowInWindow, RecordFailure, Rolling
  PROVE  RowInWindow' /\ FreshlyOpened
<1> DEFINE count == IF failures < Threshold THEN failures + 1 ELSE Threshold
<1>1. /\ BreakerTypeOK /\ RecordRecent(FALSE) /\ recent' \in Seq(BOOLEAN)
      /\ failures \in 0..Threshold /\ Threshold \in Nat
  BY RecordRecentType, BreakerAssumption DEF BreakerInv, BreakerTypeOK, RecordFailure
<1>2. count \in 0..Threshold /\ count \in Nat /\ count <= failures + 1
  BY <1>1
<1>3. /\ state = "half_open" => Open
      /\ state # "half_open" => CountFailure(count)
  BY DEF RecordFailure
<1> HIDE DEF count
<1>4. FailuresEnd(recent', count) /\ FailuresEnd(recent', 0)
  <2>1. FailuresEnd(recent', count)
    BY <1>1, <1>2, RecordRow
  <2>2. 0 \in Nat /\ 0 <= failures + 1
    BY <1>1
  <2>3. FailuresEnd(recent', 0)
    BY <1>1, <2>2, RecordRow
  <2>4. QED
    BY <2>1, <2>3
<1>5. failures' \in {0, count}
  BY <1>3 DEF Open, CountFailure
<1>6. RowInWindow'
  <2>1. RowInWindow' <=> FailuresEnd(recent', failures')
    BY DEF RowInWindow, FailuresEnd
  <2>2. QED
    BY <1>4, <1>5, <2>1
<1>7. ASSUME state = "closed", state' = "open"
      PROVE  /\ Len(recent') >= Threshold
             /\ \A i \in DOMAIN recent' : i > Len(recent') - Threshold => ~recent'[i]
  <2>1. count >= Threshold /\ ThresholdMet(count, recent')
    BY <1>3, <1>7 DEF CountFailure
  <2>2. count = Threshold
    BY <1>1, <1>2, <2>1
  <2>3. QED
    BY <1>1, <1>4, <2>1, <2>2, FreshRow
<1>8. QED
  BY <1>6, <1>7 DEF FreshlyOpened

LEMMA RowStep ==
  ASSUME BreakerInv, RowInWindow, [BreakerNext]_breakerVars
  PROVE  RowInWindow' /\ [FreshlyOpened]_breakerVars
<1>1. CASE RecordFailure /\ Rolling
  BY <1>1, FailureRow
<1>2. CASE RecordSuccess /\ Rolling
  <2>1. FailuresEnd(recent', 0) /\ failures' = 0
    BY <1>2, RecordRow DEF RecordSuccess, BreakerInv
  <2>2. RowInWindow'
    BY <2>1 DEF RowInWindow, FailuresEnd
  <2>3. state = "closed" => state' # "open"
    BY <1>2 DEF RecordSuccess
  <2>4. QED
    BY <2>2, <2>3 DEF FreshlyOpened
<1>3. CASE Reset
  <2>1. RowInWindow'
    BY <1>3 DEF Reset, RowInWindow, FailuresEnd
  <2>2. QED
    BY <1>3, <2>1 DEF Reset, FreshlyOpened
<1>4. CASE Allow \/ Refuse \/ RecoveryElapses \/ UNCHANGED breakerVars
  <2>1. UNCHANGED <<failures, recent>> /\ (state = "closed" => state' = state)
    BY <1>4 DEF Allow, AllowAfterRecovery, AllowProbe, AllowClosed, Refuse, RecoveryElapses,
                breakerVars
  <2>2. RowInWindow'
    BY <2>1 DEF RowInWindow, FailuresEnd
  <2>3. QED
    BY <2>1, <2>2 DEF FreshlyOpened
<1>5. CASE ~Rolling
  BY <1>5 DEF RowInWindow, FreshlyOpened
<1>6. QED
  BY <1>1, <1>2, <1>3, <1>4, <1>5 DEF BreakerNext

\* Whatever the circuit's stale callers and probes left in the rolling window, a closed
\* circuit opens only on Threshold failures in a row that are the newest in it; for any
\* threshold, number of probes, throughput and size of the window.
THEOREM OnlyFreshFailuresOpen == BreakerSpec => OpensOnFreshFailures
<1>1. BreakerInit => RowInWindow
  BY DEF BreakerInit, RowInWindow, FailuresEnd
<1>2. BreakerInv /\ RowInWindow /\ [BreakerNext]_breakerVars =>
        RowInWindow' /\ [FreshlyOpened]_breakerVars
  BY RowStep
<1>3. BreakerSpec => [][FreshlyOpened]_breakerVars
  BY <1>1, <1>2, BreakerInvariant, PTL DEF BreakerSpec
<1>4. QED
  BY <1>3 DEF FreshlyOpened, OpensOnFreshFailures

-------------------------------------------------------------------------------
(* 2. The executor                                                         *)

EventKinds == {"none", "called", "executed", "failed", "scheduled", "late", "completed"}

Events == [kind : EventKinds, attempt : Nat]

CallRecords ==
  [stage : Stages, done : Nat, invoked : Nat, expired : BOOLEAN,
   event : [kind : EventKinds, attempt : Nat]]

\* What the two counters and the last event of a call say of each other at each stage.
Consistent(c) ==
  /\ c.stage \in {"idle", "admitted"} => c.done = 0 /\ c.invoked = 0 /\ c.event = NoEvent
  /\ c.stage = "attempting" =>
       /\ c.invoked = c.done
       /\ c.event = IF c.done = 0 THEN NoEvent ELSE [kind |-> "scheduled", attempt |-> c.done + 1]
  /\ c.stage = "calling" =>
       /\ c.invoked = c.done + 1
       /\ c.event.kind \in {"called", "executed"} /\ c.event.attempt = c.invoked
  /\ c.stage = "deciding" =>
       /\ c.invoked = c.done /\ c.done # 0
       /\ c.event = [kind |-> "failed", attempt |-> c.done]
  /\ c.stage = "sleeping" =>
       /\ c.invoked = c.done /\ c.done # 0
       /\ c.event = [kind |-> "scheduled", attempt |-> c.done + 1]

\* The stages a call is in only while its task runs.
Busy == {"admitted", "attempting", "deciding", "leaving"}

CallsTyped == call \in [Tasks -> CallRecords] /\ loop \in Tasks \union {Idle}
CallsConsistent == \A t \in Tasks : Consistent(call[t])
OneRuns == \A t \in Tasks : call[t].stage \in Busy => loop = t
NewCallsFree ==
  \A t \in Tasks : call[t].stage = "attempting" /\ call[t].invoked = 0 => state # "open"

ExecutorInv ==
  CallsTyped /\ CallsConsistent /\ SlotHeldByCall /\ OneRuns /\ NewCallsFree

\* What a step may do to the events and the invocations of t.
Orderly(t) ==
  /\ call'[t].event \notin {call[t].event, NoEvent} => Follows(call[t].event, call'[t].event)
  /\ call[t].invoked = 0 /\ call'[t].invoked = 1 => state # "open"

\* The same of a step that makes c of the record of t.
Progress(t, c) ==
  /\ c.event \notin {call[t].event, NoEvent} => Follows(call[t].event, c.event)
  /\ call[t].invoked = 0 /\ c.invoked = 1 => state # "open"

AllOrderly == \A t \in Tasks : Orderly(t)

\* Nothing changes who holds a slot, and the list of waiters stays as it is or is the
\* gate's business.
SameHolders == \A u \in Tasks : gate'[u] = "holding" <=> gate[u] = "holding"

OthersHold(t) == \A u \in Tasks : u # t => (gate'[u] = "holding" <=> gate[u] = "holding")

-------------------------------------------------------------------------------
LEMMA ExecutorInitHolds == ExecutorInit => ExecutorInv /\ IInv /\ BreakerInv
<1> SUFFICES ASSUME ExecutorInit PROVE ExecutorInv /\ IInv /\ BreakerInv
  OBVIOUS
<1>1. IInv /\ BreakerInv
  BY InitHolds, InitBreaker DEF ExecutorInit
<1>2. NewCall \in CallRecords /\ Consistent(NewCall) /\ NewCall.stage = "idle"
  BY DEF NewCall, CallRecords, Stages, EventKinds, NoEvent, Consistent
<1>3. /\ call = [t \in Tasks |-> NewCall] /\ loop = Idle
      /\ \A t \in Tasks : gate[t] = "out"
  BY DEF ExecutorInit, LimiterInit
<1>4. CallsTyped /\ CallsConsistent
  BY <1>2, <1>3 DEF CallsTyped, CallsConsistent
<1>5. SlotHeldByCall /\ OneRuns /\ NewCallsFree
  BY <1>2, <1>3 DEF SlotHeldByCall, OneRuns, NewCallsFree, Busy
<1>6. QED
  BY <1>1, <1>4, <1>5 DEF ExecutorInv

\* A step in which the call of t becomes c, and only the task of t may run after it.
LEMMA CallMoves ==
  ASSUME ExecutorInv, NEW t \in Tasks, NEW c \in CallRecords,
         call' = [call EXCEPT ![t] = c], Consistent(c),
         loop \in {t, Idle}, loop' \in {t, Idle}, c.stage \in Busy => loop' = t,
         c.stage = "attempting" /\ c.invoked = 0 => state' # "open",
         OthersHold(t), gate'[t] = "holding" <=> c.stage # "idle"
  PROVE  ExecutorInv'
<1>1. Idle \notin Tasks
  BY ExecutorAssumption
<1>2. call'[t] = c /\ \A u \in Tasks : u # t => call'[u] = call[u]
  BY DEF ExecutorInv, CallsTyped
<1>3. \A u \in Tasks : u # t => call[u].stage \notin Busy
  BY <1>1 DEF ExecutorInv, OneRuns
<1>4. CallsTyped'
  BY DEF ExecutorInv, CallsTyped
<1>5. CallsConsistent'
  BY <1>2 DEF ExecutorInv, CallsConsistent
<1>6. SlotHeldByCall'
  BY <1>2 DEF ExecutorInv, SlotHeldByCall, OthersHold
<1>7. OneRuns'
  BY <1>2, <1>3 DEF OneRuns
<1>8. NewCallsFree'
  <2>1. \A u \in Tasks : u # t => call'[u].stage # "attempting"
    BY <1>2, <1>3 DEF Busy
  <2>2. QED
    BY <1>2, <2>1 DEF NewCallsFree
<1>9. QED
  BY <1>4, <1>5, <1>6, <1>7, <1>8 DEF ExecutorInv

\* The same for a step that leaves gate and state to itself: what it must show of t.
LEMMA LocalMove ==
  ASSUME ExecutorInv, NEW t \in Tasks, NEW c \in CallRecords,
         call' = [call EXCEPT ![t] = c], Consistent(c),
         loop \in {t, Idle}, loop' \in {t, Idle}, c.stage \in Busy => loop' = t,
         c.stage = "attempting" /\ c.invoked = 0 => state' # "open",
         gate' = gate, call[t].stage # "idle", c.stage # "idle", Progress(t, c)
  PROVE  ExecutorInv' /\ AllOrderly
<1>1. call'[t] = c /\ \A u \in Tasks : u # t => call'[u] = call[u]
  BY DEF ExecutorInv, CallsTyped
<1>2. OthersHold(t) /\ gate'[t] = "holding"
  BY DEF OthersHold, ExecutorInv, SlotHeldByCall
<1>3. ExecutorInv'
  BY <1>2, CallMoves
<1>4. Orderly(t)
  BY <1>1 DEF Orderly, Progress
<1>5. \A u \in Tasks : u # t => Orderly(u)
  <2> SUFFICES ASSUME NEW u \in Tasks, u # t PROVE Orderly(u)
    OBVIOUS
  <2>1. call'[u] = call[u]
    BY <1>1
  <2>2. QED
    BY <2>1 DEF Orderly
<1>6. QED
  BY <1>3, <1>4, <1>5 DEF AllOrderly

\* A step that changes none of the calls.
LEMMA CallsStay ==
  ASSUME ExecutorInv, UNCHANGED <<call, loop>>, SameHolders, state' = state \/ state' # "open"
  PROVE  ExecutorInv' /\ AllOrderly
<1>1. ExecutorInv'
  BY DEF ExecutorInv, CallsTyped, CallsConsistent, SlotHeldByCall, OneRuns, NewCallsFree, SameHolders
<1>2. AllOrderly
  BY DEF AllOrderly, Orderly
<1>3. QED
  BY <1>1, <1>2

-------------------------------------------------------------------------------
\* Of a call at some stage, what the invariant says of its record.
LEMMA CallFacts ==
  ASSUME ExecutorInv, NEW t \in Tasks
  PROVE  /\ call[t] \in CallRecords /\ Consistent(call[t])
         /\ call[t].stage \in Stages /\ call[t].done \in Nat /\ call[t].invoked \in Nat
         /\ call[t].expired \in BOOLEAN
         /\ call[t].event.kind \in EventKinds /\ call[t].event.attempt \in Nat
         /\ loop \in Tasks \union {Idle} /\ Idle \notin Tasks
         /\ gate[t] = "holding" <=> call[t].stage # "idle"
         /\ call[t].stage \in Busy => loop = t
BY ExecutorAssumption DEF ExecutorInv, CallsTyped, CallsConsistent, SlotHeldByCall, OneRuns, CallRecords

LEMMA NewCallFacts ==
  NewCall \in CallRecords /\ Consistent(NewCall) /\ NewCall.stage = "idle" /\ NewCall.event = NoEvent
  /\ NewCall.invoked = 0
BY DEF NewCall, CallRecords, Stages, EventKinds, NoEvent, Consistent

\* A turn at the gate, of a new call or of a woken one.
LEMMA GatePreserves ==
  ASSUME ExecutorInv, IInv, NEW t \in Tasks, Enter(t) \/ ResumeWaiter(t)
  PROVE  ExecutorInv' /\ AllOrderly
<1>1. /\ loop = Idle /\ AfterGate(t) /\ state' = state
      /\ gate \in [Tasks -> GatePlaces] /\ gate[t] \in {"out", "woken"}
      /\ gate' \in {[gate EXCEPT ![t] = p] : p \in {"holding", "rejected", "queued"}}
  BY IInvFacts DEF Enter, ResumeWaiter, Acquire, Resume, AcquireTurn, TakeSlot, TurnAway, Park, breakerVars
<1>2. PICK p \in {"holding", "rejected", "queued"} : gate' = [gate EXCEPT ![t] = p]
  BY <1>1
<1>3. OthersHold(t) /\ gate'[t] = p /\ gate[t] # "holding"
  BY <1>1, <1>2 DEF OthersHold
<1>4. call[t].stage = "idle" /\ call[t] \in CallRecords /\ Consistent(call[t]) /\ Idle \notin Tasks
  BY <1>3, CallFacts
<1>5. CASE p = "holding"
  <2> DEFINE c == [call[t] EXCEPT !.stage = "admitted"]
  <2>1. loop' = t /\ call' = [call EXCEPT ![t] = c]
    BY <1>1, <1>3, <1>5 DEF AfterGate, Continue, ExecutorInv, CallsTyped
  <2>2. /\ c \in CallRecords /\ c.stage = "admitted"
        /\ c.event = call[t].event /\ c.invoked = call[t].invoked /\ c.done = call[t].done
    BY <1>4 DEF CallRecords, Stages
  <2>3. Consistent(c)
    BY <1>4, <2>2 DEF Consistent
  <2>4. c.invoked = 0
    BY <1>4, <2>2 DEF Consistent
  <2> HIDE DEF c
  <2>5. ExecutorInv'
    BY <1>1, <1>3, <1>5, <2>1, <2>2, <2>3, CallMoves
  <2>6. call'[t] = c /\ \A u \in Tasks : u # t => call'[u] = call[u]
    BY <2>1 DEF ExecutorInv, CallsTyped
  <2>7. Orderly(t)
    BY <2>2, <2>4, <2>6 DEF Orderly
  <2>8. ASSUME NEW u \in Tasks, u # t PROVE Orderly(u)
    <3>1. call'[u] = call[u]
      BY <2>6, <2>8
    <3>2. QED
      BY <3>1 DEF Orderly
  <2>9. QED
    BY <2>5, <2>7, <2>8 DEF AllOrderly
<1>6. CASE p # "holding"
  <2>1. UNCHANGED <<call, loop>>
    BY <1>1, <1>3, <1>6 DEF AfterGate
  <2>2. SameHolders
    BY <1>3, <1>6 DEF OthersHold, SameHolders
  <2>3. QED
    BY <1>1, <2>1, <2>2, CallsStay
<1>7. QED
  BY <1>5, <1>6

\* The waiting room is left by a cancelled call, or a rejected call returns.
LEMMA AbsentPreserves ==
  ASSUME ExecutorInv, IInv, NEW t \in Tasks,
         CancelWaiter(t) \/ AbandonWaiter(t) \/ Rejected(t)
  PROVE  ExecutorInv' /\ AllOrderly
<1>1. /\ loop = Idle /\ loop' = Idle /\ state' = state
      /\ Cancel(t) \/ Abandon(t) \/ Return(t)
  BY DEF CancelWaiter, AbandonWaiter, Rejected, breakerVars
<1>2. SameHolders /\ gate[t] # "holding"
  BY <1>1, ElsewhereKeepsHolders DEF SameHolders
<1>3. CASE call' = call
  BY <1>1, <1>2, <1>3, CallsStay
<1>4. CASE call' = [call EXCEPT ![t] = NewCall]
  <2>1. gate'[t] # "holding" /\ OthersHold(t)
    BY <1>2 DEF SameHolders, OthersHold
  <2>2. ExecutorInv'
    BY <1>1, <1>4, <2>1, NewCallFacts, CallMoves DEF Busy
  <2>3. call'[t] = NewCall /\ \A u \in Tasks : u # t => call'[u] = call[u]
    BY <1>4 DEF ExecutorInv, CallsTyped
  <2>4. Orderly(t)
    BY <2>3, NewCallFacts DEF Orderly
  <2>5. ASSUME NEW u \in Tasks, u # t PROVE Orderly(u)
    <3>1. call'[u] = call[u]
      BY <2>3, <2>5
    <3>2. QED
      BY <3>1 DEF Orderly
  <2>6. QED
    BY <2>2, <2>4, <2>5 DEF AllOrderly
<1>5. QED
  BY <1>3, <1>4 DEF CancelWaiter, AbandonWaiter, Rejected

\* The end of a call.
LEMMA LeavePreserves ==
  ASSUME ExecutorInv, IInv, NEW t \in Tasks, Leave(t)
  PROVE  ExecutorInv' /\ AllOrderly
<1>1. /\ loop = t /\ loop' = Idle /\ state' = state /\ call' = [call EXCEPT ![t] = NewCall]
      /\ gate[t] = "holding" /\ Notify(parked, [gate EXCEPT ![t] = "out"])
  BY DEF Leave, Running, Release, breakerVars
<1>2. OthersHold(t) /\ gate'[t] # "holding"
  BY <1>1, OutKeepsHolders DEF OthersHold
<1>3. ExecutorInv'
  BY <1>1, <1>2, NewCallFacts, CallMoves DEF Busy
<1>4. call'[t] = NewCall /\ \A u \in Tasks : u # t => call'[u] = call[u]
  BY <1>1 DEF ExecutorInv, CallsTyped
<1>5. Orderly(t)
  BY <1>4, NewCallFacts DEF Orderly
<1>6. ASSUME NEW u \in Tasks, u # t PROVE Orderly(u)
  <2>1. call'[u] = call[u]
    BY <1>4, <1>6
  <2>2. QED
    BY <2>1 DEF Orderly
<1>7. QED
  BY <1>3, <1>5, <1>6 DEF AllOrderly

-------------------------------------------------------------------------------
\* The breaker hears of an outcome or of nothing; the gate hears of nothing.
LEMMA AdmitPreserves ==
  ASSUME ExecutorInv, NEW t \in Tasks, Admit(t)
  PROVE  ExecutorInv' /\ AllOrderly
<1>1. loop = t /\ call[t].stage = "admitted" /\ gate' = gate
  BY DEF Admit, Running, limiterVars
<1>2. /\ call[t] \in CallRecords /\ call[t].done = 0 /\ call[t].invoked = 0
      /\ call[t].event = NoEvent
  BY <1>1, CallFacts DEF Consistent
<1>3. ASSUME NEW stage \in {"attempting", "leaving"}, Continue(t, stage),
             stage = "attempting" => state' # "open"
      PROVE  ExecutorInv' /\ AllOrderly
  <2> DEFINE c == [call[t] EXCEPT !.stage = stage]
  <2>1. loop' = t /\ call' = [call EXCEPT ![t] = c]
    BY <1>3 DEF Continue, ExecutorInv, CallsTyped
  <2>2. /\ c \in CallRecords /\ c.stage = stage /\ c.done = 0 /\ c.invoked = 0
        /\ c.event = NoEvent
    BY <1>2 DEF CallRecords, Stages
  <2> HIDE DEF c
  <2>3. Consistent(c)
    BY <2>2 DEF Consistent
  <2>4. Progress(t, c)
    BY <1>2, <2>2 DEF Progress
  <2>5. QED
    BY <1>1, <1>3, <2>1, <2>2, <2>3, <2>4, LocalMove
<1>4. CASE Allow /\ Continue(t, "attempting")
  <2>1. state' # "open"
    BY <1>4 DEF Allow, AllowAfterRecovery, AllowProbe, AllowClosed, breakerVars
  <2>2. QED
    BY <1>3, <1>4, <2>1
<1>5. CASE Refuse /\ Continue(t, "leaving")
  BY <1>3, <1>5
<1>6. QED
  BY <1>4, <1>5 DEF Admit

\* Steps after which the call only gives its slot back.
LEMMA EndPreserves ==
  ASSUME ExecutorInv, NEW t \in Tasks,
         \/ DeadlineAtTop(t) \/ GiveUp(t) \/ RetryTooLate(t) \/ Escape(t)
  PROVE  ExecutorInv' /\ AllOrderly
<1> DEFINE c == [call[t] EXCEPT !.stage = "leaving"]
<1>1. /\ loop \in {t, Idle} /\ gate' = gate /\ Continue(t, "leaving")
      /\ call[t].stage \in {"attempting", "deciding", "calling", "sleeping"}
  BY DEF DeadlineAtTop, GiveUp, RetryTooLate, Escape, Running, Suspended, limiterVars
<1>2. loop' = t /\ call' = [call EXCEPT ![t] = c]
  BY <1>1 DEF Continue, ExecutorInv, CallsTyped
<1>3. /\ c \in CallRecords /\ c.stage = "leaving" /\ c.invoked = call[t].invoked
      /\ c.event = call[t].event
  BY CallFacts DEF CallRecords, Stages
<1> HIDE DEF c
<1>4. Consistent(c)
  BY <1>3 DEF Consistent
<1>5. Progress(t, c)
  BY <1>3 DEF Progress
<1>6. QED
  BY <1>1, <1>2, <1>3, <1>4, <1>5, LocalMove

\* The outcome of a call that is not tried again.
LEMMA FinalPreserves ==
  ASSUME ExecutorInv, NEW t \in Tasks, DeadlineInCall(t) \/ Succeed(t) \/ FailLate(t)
  PROVE  ExecutorInv' /\ AllOrderly
<1>1. PICK kind \in {"late", "completed", "failed"} :
        /\ Emit(t, "leaving", kind, call[t].done + 1)
        /\ kind = "late" => call[t].stage = "attempting"
        /\ kind # "late" => call[t].stage = "calling"
  BY DEF DeadlineInCall, Succeed, FailLate, Running, Suspended
<1>2. loop \in {t, Idle} /\ gate' = gate
  BY DEF DeadlineInCall, Succeed, FailLate, Running, Suspended, limiterVars
<1> DEFINE e == [kind |-> kind, attempt |-> call[t].done + 1]
           c == [call[t] EXCEPT !.stage = "leaving", !.event = e]
<1>3. loop' = t /\ call' = [call EXCEPT ![t] = c]
  BY <1>1 DEF Emit, ExecutorInv, CallsTyped
<1>4. c \in CallRecords /\ c.stage = "leaving" /\ c.invoked = call[t].invoked /\ c.event = e
  <2>1. e \in Events /\ "leaving" \in Stages
    BY CallFacts DEF Events, EventKinds, Stages
  <2>2. call[t] \in CallRecords
    BY CallFacts
  <2> HIDE DEF e
  <2>3. QED
    BY <2>1, <2>2 DEF CallRecords, Events
<1>5. Follows(call[t].event, e)
  <2>1. CASE kind = "late"
    BY <1>1, <2>1, CallFacts DEF Follows, Consistent
  <2>2. CASE kind # "late"
    <3>1. /\ call[t].event.kind \in {"called", "executed"}
          /\ call[t].event.attempt = call[t].done + 1
      BY <1>1, <2>2, CallFacts DEF Consistent
    <3>2. call[t].event = [kind |-> call[t].event.kind, attempt |-> call[t].event.attempt]
      BY CallFacts DEF CallRecords
    <3>3. QED
      BY <1>1, <2>2, <3>1, <3>2 DEF Follows
  <2>3. QED
    BY <2>1, <2>2
<1> HIDE DEF c, e
<1>6. Consistent(c)
  BY <1>4 DEF Consistent
<1>7. Progress(t, c)
  BY <1>4, <1>5 DEF Progress
<1>8. QED
  BY <1>1, <1>2, <1>3, <1>4, <1>6, <1>7, LocalMove

\* The operation starts.  A first attempt has come straight from allow().
LEMMA OperationPreserves ==
  ASSUME ExecutorInv, NEW t \in Tasks, CallOperation(t)
  PROVE  ExecutorInv' /\ AllOrderly
<1> DEFINE n == call[t].invoked + 1
           e == [kind |-> IF n = 1 THEN "called" ELSE "executed", attempt |-> n]
           c == [call[t] EXCEPT !.stage = "calling", !.invoked = n, !.event = e]
<1>1. loop = t /\ loop' = Idle /\ gate' = gate /\ call[t].stage = "attempting"
  BY DEF CallOperation, Running, limiterVars
<1>2. call' = [call EXCEPT ![t] = c]
  BY DEF CallOperation, ExecutorInv, CallsTyped
<1>3. call[t].invoked = call[t].done /\ call[t].done \in Nat
      /\ call[t].event = IF call[t].done = 0 THEN NoEvent
                         ELSE [kind |-> "scheduled", attempt |-> call[t].done + 1]
  BY <1>1, CallFacts DEF Consistent
<1>4. /\ c \in CallRecords /\ c.stage = "calling" /\ c.invoked = n /\ c.event = e
      /\ c.done = call[t].done
  <2>1. e \in Events /\ n \in Nat /\ "calling" \in Stages
    BY <1>3 DEF Events, EventKinds, Stages
  <2>2. call[t] \in CallRecords
    BY CallFacts
  <2> HIDE DEF e, n
  <2>3. QED
    BY <2>1, <2>2 DEF CallRecords, Events
<1>5. Follows(call[t].event, e)
  BY <1>3 DEF Follows
<1>6. e.kind \in {"called", "executed"} /\ e.attempt = n /\ n = call[t].done + 1
  BY <1>3
<1>7. call[t].invoked = 0 => state # "open"
  BY <1>1 DEF ExecutorInv, NewCallsFree
<1> HIDE DEF c, e, n
<1>8. Consistent(c)
  BY <1>4, <1>6 DEF Consistent
<1>9. Progress(t, c)
  BY <1>4, <1>5, <1>7 DEF Progress
<1>10. QED
  <2>1. c.stage \notin Busy /\ c.stage # "attempting"
    BY <1>4 DEF Busy
  <2>2. QED
    BY <1>1, <1>2, <1>4, <1>8, <1>9, <2>1, LocalMove

\* An attempt fails and the retry policy is asked.
LEMMA FailPreserves ==
  ASSUME ExecutorInv, NEW t \in Tasks, Fail(t)
  PROVE  ExecutorInv' /\ AllOrderly
<1> DEFINE n == call[t].done + 1
           e == [kind |-> "failed", attempt |-> n]
           c == [call[t] EXCEPT !.stage = "deciding", !.done = n, !.event = e]
<1>1. loop = Idle /\ loop' = t /\ gate' = gate /\ call[t].stage = "calling"
  BY DEF Fail, Suspended, limiterVars
<1>2. call' = [call EXCEPT ![t] = c]
  BY DEF Fail, ExecutorInv, CallsTyped
<1>3. /\ call[t].invoked = n /\ n \in Nat /\ n # 0
      /\ call[t].event.kind \in {"called", "executed"} /\ call[t].event.attempt = n
      /\ call[t].event = [kind |-> call[t].event.kind, attempt |-> call[t].event.attempt]
  <2>0. call[t].done \in Nat /\ Consistent(call[t])
    BY CallFacts
  <2>1. call[t].invoked = n /\ n \in Nat /\ n # 0
    BY <1>1, <2>0 DEF Consistent
  <2>2. call[t].event.kind \in {"called", "executed"} /\ call[t].event.attempt = call[t].invoked
    BY <1>1, CallFacts DEF Consistent
  <2>3. call[t].event \in Events
    BY CallFacts DEF CallRecords, Events
  <2>4. QED
    BY <2>1, <2>2, <2>3 DEF Events
<1>4. /\ c \in CallRecords /\ c.stage = "deciding" /\ c.invoked = n /\ c.event = e /\ c.done = n
  <2>1. e \in Events /\ n \in Nat /\ "deciding" \in Stages
    BY <1>3 DEF Events, EventKinds, Stages
  <2>2. call[t] \in CallRecords /\ call[t].invoked = n
    BY <1>3, CallFacts
  <2> HIDE DEF e, n
  <2>3. QED
    BY <2>1, <2>2 DEF CallRecords, Events
<1>5. Follows(call[t].event, e)
  BY <1>3 DEF Follows
<1>6. Consistent(c)
  BY <1>3, <1>4 DEF Consistent
<1>7. call[t].invoked # 0
  BY <1>3
<1> HIDE DEF c, e, n
<1>8. Progress(t, c)
  BY <1>4, <1>5, <1>7 DEF Progress
<1>9. QED
  BY <1>1, <1>2, <1>4, <1>6, <1>8, LocalMove

\* A retry is granted, to be made at once or after its backoff.
LEMMA RetryPreserves ==
  ASSUME ExecutorInv, NEW t \in Tasks, ScheduleRetry(t)
  PROVE  ExecutorInv' /\ AllOrderly
<1> DEFINE n == call[t].done + 1
           e == [kind |-> "scheduled", attempt |-> n]
<1>1. loop = t /\ gate' = gate /\ call[t].stage = "deciding"
  BY DEF ScheduleRetry, Running, limiterVars
<1>2. /\ call[t].invoked = call[t].done /\ call[t].done \in Nat /\ call[t].done # 0
      /\ call[t].event = [kind |-> "failed", attempt |-> call[t].done]
  BY <1>1, CallFacts DEF Consistent
<1>3. PICK stage \in {"attempting", "sleeping"} :
        /\ call' = [call EXCEPT ![t] = [call[t] EXCEPT !.stage = stage, !.event = e]]
        /\ loop' \in {t, Idle} /\ (stage = "attempting" => loop' = t)
  <2>1. CASE Emit(t, "attempting", "scheduled", n)
    BY <2>1 DEF Emit, ExecutorInv, CallsTyped
  <2>2. CASE loop' = Idle /\ call' = [call EXCEPT ![t].stage = "sleeping", ![t].event = e]
    BY <2>2, CallFacts DEF ExecutorInv, CallsTyped
  <2>3. QED
    BY <2>1, <2>2 DEF ScheduleRetry
<1> DEFINE c == [call[t] EXCEPT !.stage = stage, !.event = e]
<1>4. /\ c \in CallRecords /\ c.stage = stage /\ c.invoked = call[t].invoked /\ c.event = e
      /\ c.done = call[t].done
  <2>1. e \in Events /\ stage \in Stages
    BY <1>2 DEF Events, EventKinds, Stages
  <2>2. call[t] \in CallRecords
    BY CallFacts
  <2> HIDE DEF e
  <2>3. QED
    BY <2>1, <2>2 DEF CallRecords, Events
<1>5. Follows(call[t].event, e)
  BY <1>2 DEF Follows
<1>6. Consistent(c)
  BY <1>2, <1>4 DEF Consistent
<1>7. call' = [call EXCEPT ![t] = c] /\ call[t].invoked # 0
  BY <1>2, <1>3
<1> HIDE DEF c, e, n
<1>8. Progress(t, c)
  BY <1>4, <1>5, <1>7 DEF Progress
<1>9. QED
  <2>1. c.stage \in Busy => c.stage = "attempting"
    BY <1>4 DEF Busy
  <2>2. c.invoked # 0
    BY <1>4, <1>7
  <2>3. QED
    <3>1. c.stage \in Busy => loop' = t
      BY <1>3, <1>4, <2>1
    <3>2. loop' \in {t, Idle} /\ c.stage # "idle" /\ c \in CallRecords
      BY <1>3, <1>4
    <3>3. QED
      BY <1>1, <1>6, <1>7, <1>8, <2>2, <3>1, <3>2, LocalMove

\* The backoff is over, or a deadline passes.
LEMMA WakePreserves ==
  ASSUME ExecutorInv, NEW t \in Tasks, Wake(t)
  PROVE  ExecutorInv' /\ AllOrderly
<1> DEFINE c == [call[t] EXCEPT !.stage = "attempting"]
<1>1. loop = Idle /\ loop' = t /\ gate' = gate /\ call[t].stage = "sleeping"
  BY DEF Wake, Suspended, Continue, limiterVars
<1>2. call' = [call EXCEPT ![t] = c]
  BY DEF Wake, Continue, ExecutorInv, CallsTyped
<1>3. /\ call[t].invoked = call[t].done /\ call[t].done \in Nat /\ call[t].done # 0
      /\ call[t].event = [kind |-> "scheduled", attempt |-> call[t].done + 1]
  BY <1>1, CallFacts DEF Consistent
<1>4. /\ c \in CallRecords /\ c.stage = "attempting" /\ c.invoked = call[t].invoked
      /\ c.event = call[t].event /\ c.done = call[t].done
  BY CallFacts DEF CallRecords, Stages
<1> HIDE DEF c
<1>5. Consistent(c)
  BY <1>3, <1>4 DEF Consistent
<1>6. Progress(t, c)
  BY <1>4 DEF Progress
<1>7. c.invoked # 0
  BY <1>3, <1>4
<1>8. QED
  BY <1>1, <1>2, <1>4, <1>5, <1>6, <1>7, LocalMove

-------------------------------------------------------------------------------
\* Time: a deadline passes, whoever runs.
LEMMA ExpirePreserves ==
  ASSUME ExecutorInv, NEW t \in Tasks, Expire(t)
  PROVE  ExecutorInv' /\ AllOrderly
<1> DEFINE c == [call[t] EXCEPT !.expired = TRUE]
<1>1. loop' = loop /\ gate' = gate /\ state' = state
  BY DEF Expire, limiterVars, breakerVars
<1>2. call' = [call EXCEPT ![t] = c]
  BY DEF Expire, ExecutorInv, CallsTyped
<1>3. /\ c \in CallRecords /\ c.stage = call[t].stage /\ c.done = call[t].done
      /\ c.invoked = call[t].invoked /\ c.event = call[t].event
  BY CallFacts DEF CallRecords
<1> HIDE DEF c
<1>4. Consistent(c)
  BY <1>3, CallFacts DEF Consistent
<1>5. call'[t] = c /\ \A u \in Tasks : u # t => call'[u] = call[u]
  BY <1>2 DEF ExecutorInv, CallsTyped
<1>6. \A u \in Tasks : /\ call'[u].stage = call[u].stage /\ call'[u].invoked = call[u].invoked
                       /\ call'[u].event = call[u].event
  BY <1>3, <1>5
<1>7. CallsTyped' /\ CallsConsistent'
  BY <1>1, <1>2, <1>3, <1>4, <1>5 DEF ExecutorInv, CallsTyped, CallsConsistent
<1>8. SlotHeldByCall' /\ OneRuns' /\ NewCallsFree'
  BY <1>1, <1>6 DEF ExecutorInv, SlotHeldByCall, OneRuns, NewCallsFree
<1>9. AllOrderly
  BY <1>6 DEF AllOrderly, Orderly
<1>10. QED
  BY <1>7, <1>8, <1>9 DEF ExecutorInv

\* The circuit's recovery window passes, retries leave the window of the budget.
LEMMA TimePreserves ==
  ASSUME ExecutorInv, Recover \/ Slide \/ UNCHANGED executorVars
  PROVE  ExecutorInv' /\ AllOrderly
<1>1. UNCHANGED <<call, loop>> /\ gate' = gate /\ state' = state
  BY DEF Recover, RecoveryElapses, Slide, executorVars, limiterVars, breakerVars
<1>2. SameHolders
  BY <1>1 DEF SameHolders
<1>3. QED
  BY <1>1, <1>2, CallsStay

\* A step of the executor is a step of its gate, or leaves the gate alone.
LEMMA GateStep == [ExecutorNext]_executorVars => [LimiterNext]_limiterVars
<1> SUFFICES ASSUME [ExecutorNext]_executorVars PROVE LimiterNext \/ UNCHANGED limiterVars
  OBVIOUS
<1>1. ASSUME NEW t \in Tasks,
             \/ Enter(t) \/ ResumeWaiter(t) \/ CancelWaiter(t) \/ AbandonWaiter(t)
             \/ Rejected(t) \/ Leave(t)
      PROVE  LimiterNext
  BY <1>1 DEF Enter, ResumeWaiter, CancelWaiter, AbandonWaiter, Rejected, Leave, LimiterNext
<1>2. ASSUME NEW t \in Tasks,
             \/ Admit(t) \/ DeadlineAtTop(t) \/ DeadlineInCall(t) \/ CallOperation(t) \/ Succeed(t)
             \/ Fail(t) \/ FailLate(t) \/ GiveUp(t) \/ RetryTooLate(t) \/ ScheduleRetry(t)
             \/ Wake(t) \/ Escape(t) \/ Expire(t)
      PROVE  UNCHANGED limiterVars
  BY <1>2 DEF Admit, DeadlineAtTop, DeadlineInCall, CallOperation, Succeed, Fail, FailLate, GiveUp,
              RetryTooLate, ScheduleRetry, Wake, Escape, Expire
<1>3. CASE Recover \/ Slide \/ UNCHANGED executorVars
  BY <1>3 DEF Recover, Slide, executorVars
<1>4. QED
  BY <1>1, <1>2, <1>3 DEF ExecutorNext, Proceed, Ready

\* A step of the executor is a step of its breaker, or leaves the breaker alone.
LEMMA CircuitStep == [ExecutorNext]_executorVars => [BreakerNext]_breakerVars
<1> SUFFICES ASSUME [ExecutorNext]_executorVars PROVE BreakerNext \/ UNCHANGED breakerVars
  OBVIOUS
<1>1. ASSUME NEW t \in Tasks,
             \/ Admit(t) \/ DeadlineInCall(t) \/ Succeed(t) \/ Fail(t) \/ FailLate(t)
      PROVE  BreakerNext
  BY <1>1 DEF Admit, DeadlineInCall, Succeed, Fail, FailLate, BreakerNext
<1>2. ASSUME NEW t \in Tasks,
             \/ Enter(t) \/ ResumeWaiter(t) \/ CancelWaiter(t) \/ AbandonWaiter(t)
             \/ Rejected(t) \/ Leave(t) \/ DeadlineAtTop(t) \/ CallOperation(t) \/ GiveUp(t)
             \/ RetryTooLate(t) \/ ScheduleRetry(t) \/ Wake(t) \/ Escape(t) \/ Expire(t)
      PROVE  UNCHANGED breakerVars
  BY <1>2 DEF Enter, ResumeWaiter, CancelWaiter, AbandonWaiter, Rejected, Leave, DeadlineAtTop,
              CallOperation, GiveUp, RetryTooLate, ScheduleRetry, Wake, Escape, Expire
<1>3. CASE Recover \/ Slide \/ UNCHANGED executorVars
  BY <1>3 DEF Recover, Slide, executorVars, BreakerNext
<1>4. QED
  BY <1>1, <1>2, <1>3 DEF ExecutorNext, Proceed, Ready

LEMMA ExecutorStep ==
  ASSUME ExecutorInv, IInv, [ExecutorNext]_executorVars
  PROVE  ExecutorInv' /\ AllOrderly
<1>1. CASE Recover \/ Slide \/ UNCHANGED executorVars
  BY <1>1, TimePreserves
<1>2. ASSUME NEW t \in Tasks, Enter(t) \/ ResumeWaiter(t)
      PROVE  ExecutorInv' /\ AllOrderly
  BY <1>2, GatePreserves
<1>3. ASSUME NEW t \in Tasks, CancelWaiter(t) \/ AbandonWaiter(t) \/ Rejected(t)
      PROVE  ExecutorInv' /\ AllOrderly
  BY <1>3, AbsentPreserves
<1>4. ASSUME NEW t \in Tasks, Leave(t)
      PROVE  ExecutorInv' /\ AllOrderly
  BY <1>4, LeavePreserves
<1>5. ASSUME NEW t \in Tasks, Admit(t)
      PROVE  ExecutorInv' /\ AllOrderly
  BY <1>5, AdmitPreserves
<1>6. ASSUME NEW t \in Tasks, DeadlineAtTop(t) \/ GiveUp(t) \/ RetryTooLate(t) \/ Escape(t)
      PROVE  ExecutorInv' /\ AllOrderly
  BY <1>6, EndPreserves
<1>7. ASSUME NEW t \in Tasks, DeadlineInCall(t) \/ Succeed(t) \/ FailLate(t)
      PROVE  ExecutorInv' /\ AllOrderly
  BY <1>7, FinalPreserves
<1>8. ASSUME NEW t \in Tasks, CallOperation(t) \/ Fail(t) \/ ScheduleRetry(t) \/ Wake(t)
      PROVE  ExecutorInv' /\ AllOrderly
  BY <1>8, OperationPreserves, FailPreserves, RetryPreserves, WakePreserves
<1>9. ASSUME NEW t \in Tasks, Expire(t)
      PROVE  ExecutorInv' /\ AllOrderly
  BY <1>9, ExpirePreserves
<1>10. QED
  BY <1>1, <1>2, <1>3, <1>4, <1>5, <1>6, <1>7, <1>8, <1>9 DEF ExecutorNext, Proceed, Ready

-------------------------------------------------------------------------------
\* Every reachable state of the executor satisfies the three invariants, and every
\* step is orderly.
THEOREM ExecutorInvariant ==
  ExecutorSpec => [](ExecutorInv /\ IInv /\ BreakerInv) /\ [][AllOrderly]_executorVars
<1>1. ExecutorInv /\ IInv /\ BreakerInv /\ [ExecutorNext]_executorVars
        => (ExecutorInv /\ IInv /\ BreakerInv)' /\ AllOrderly
  BY ExecutorStep, GateStep, CircuitStep, StepHolds, BreakerStep
<1>2. QED
  BY <1>1, ExecutorInitHolds, PTL DEF ExecutorSpec

\* A slot is held exactly by the calls that are past acquire(), on every path through
\* refusals, deadlines, failures and cancellations.
THEOREM SlotsFollowCalls == ExecutorSpec => []SlotHeldByCall
<1>1. ExecutorInv => SlotHeldByCall
  BY DEF ExecutorInv
<1>2. QED
  BY <1>1, ExecutorInvariant, PTL

\* No call makes its first attempt while the circuit is open.
THEOREM NewCallsAreHeldBack == ExecutorSpec => NoFirstCallWhileOpen
<1>1. AllOrderly => \A t \in Tasks :
        call[t].invoked = 0 /\ call'[t].invoked = 1 => state # "open"
  BY DEF AllOrderly, Orderly
<1>2. QED
  BY <1>1, ExecutorInvariant, PTL DEF NoFirstCallWhileOpen

\* The events of a call follow each other in the documented order, with the attempt
\* numbers of one count.
THEOREM EventsAreOrdered == ExecutorSpec => EventOrder
<1>1. AllOrderly => \A t \in Tasks :
        LET next == call'[t].event IN
        next \notin {call[t].event, NoEvent} => Follows(call[t].event, next)
  BY DEF AllOrderly, Orderly
<1>2. QED
  BY <1>1, ExecutorInvariant, PTL DEF EventOrder

\* What was proved of the gate and of the breaker alone holds of those that the calls
\* of an executor share.
THEOREM PartsKeepTheirPromises ==
  ExecutorSpec => [](CountersExact /\ ProbesCounted /\ NoIgnoredEvidence)
<1>1. IInv /\ BreakerInv => CountersExact /\ ProbesCounted /\ NoIgnoredEvidence
  BY IInvImplies DEF BreakerInv
<1>2. QED
  BY <1>1, ExecutorInvariant, PTL

\* The executor's calls are admitted as AdmissionControl promises, and none of them is
\* turned away once it was queued.
THEOREM CallsAreAdmitted ==
  ExecutorSpec =>
    /\ Admission!Init /\ [][Admission!Next]_(Place(gate))
    /\ NeverRejectedAfterQueueing
<1>1. ExecutorInit => Admission!Init
  BY DEF ExecutorInit, LimiterInit, Admission!Init, Waiters, At
<1>2. IInv /\ [ExecutorNext]_executorVars => [Admission!Next]_(Place(gate))
  BY GateStep, StepRefines
<1>3. IInv /\ [ExecutorNext]_executorVars =>
        [\A t \in Tasks : gate[t] \in {"queued", "woken"} => gate'[t] # "rejected"]_limiterVars
  BY GateStep, StepHolds
<1>4. QED
  BY <1>1, <1>2, <1>3, ExecutorInvariant, PTL DEF ExecutorSpec, NeverRejectedAfterQueueing

-------------------------------------------------------------------------------
(* 3. The owners of the probe slots                                        *)

\* A call whose first attempt has still to be recorded.
Unrecorded(c) == c.done = 0 /\ c.stage \in {"attempting", "calling"}

Owners == {t \in Tasks : Unrecorded(call[t])}

\* Without deadlines and escapes such calls own the probe slots.
SlotsOwned ==
  /\ \A t \in Tasks : ~call[t].expired
  /\ state = "half_open" => inflight <= Cardinality(Owners)

\* What a step does to the owners when the call of t becomes c.
LEMMA OwnersMove ==
  ASSUME CallsTyped, NEW t \in Tasks, NEW c, call' = [call EXCEPT ![t] = c]
  PROVE  /\ call'[t] = c /\ \A u \in Tasks : u # t => call'[u] = call[u]
         /\ Cardinality(Owners) \in Nat /\ Cardinality(Owners') \in Nat
         /\ Unrecorded(c) <=> Unrecorded(call[t]) => Cardinality(Owners') = Cardinality(Owners)
         /\ Unrecorded(c) /\ ~Unrecorded(call[t]) => Cardinality(Owners') = Cardinality(Owners) + 1
         /\ ~Unrecorded(c) /\ Unrecorded(call[t]) => Cardinality(Owners') = Cardinality(Owners) - 1
<1>1. call'[t] = c /\ \A u \in Tasks : u # t => call'[u] = call[u]
  BY DEF CallsTyped
<1>2. IsFiniteSet(Owners) /\ IsFiniteSet(Owners')
  BY FS_Subset, LimiterAssumption DEF Owners
<1>3. Cardinality(Owners) \in Nat /\ Cardinality(Owners') \in Nat
  BY <1>2, FS_CardinalityType
<1>4. ASSUME Unrecorded(c) <=> Unrecorded(call[t]) PROVE Owners' = Owners
  BY <1>1, <1>4 DEF Owners
<1>5. ASSUME Unrecorded(c), ~Unrecorded(call[t]) PROVE Owners' = Owners \union {t} /\ t \notin Owners
  BY <1>1, <1>5 DEF Owners
<1>6. ASSUME ~Unrecorded(c), Unrecorded(call[t]) PROVE Owners' = Owners \ {t} /\ t \in Owners
  BY <1>1, <1>6 DEF Owners
<1>7. Unrecorded(c) /\ ~Unrecorded(call[t]) => Cardinality(Owners') = Cardinality(Owners) + 1
  BY <1>2, <1>5, FS_AddElement
<1>8. ~Unrecorded(c) /\ Unrecorded(call[t]) => Cardinality(Owners') = Cardinality(Owners) - 1
  BY <1>2, <1>6, FS_RemoveElement
<1>9. QED
  BY <1>1, <1>3, <1>4, <1>7, <1>8

\* A step that leaves the breaker alone and takes away no owner.
LEMMA QuietMove ==
  ASSUME CallsTyped, SlotsOwned, BreakerInv, NEW t \in Tasks, NEW c, call' = [call EXCEPT ![t] = c],
         ~c.expired, Unrecorded(call[t]) => Unrecorded(c), UNCHANGED breakerVars
  PROVE  SlotsOwned'
<1>1. inflight' = inflight /\ state' = state /\ inflight \in Nat
  BY DEF breakerVars, BreakerInv, BreakerTypeOK
<1>2. Cardinality(Owners') >= Cardinality(Owners) /\ Cardinality(Owners) \in Nat
      /\ Cardinality(Owners') \in Nat
  <2>1. Cardinality(Owners) \in Nat /\ Cardinality(Owners') \in Nat
    BY OwnersMove
  <2>2. CASE Unrecorded(c) <=> Unrecorded(call[t])
    <3>1. Cardinality(Owners') = Cardinality(Owners)
      BY <2>2, OwnersMove
    <3>2. QED
      BY <2>1, <3>1
  <2>3. CASE Unrecorded(c) /\ ~Unrecorded(call[t])
    <3>1. Cardinality(Owners') = Cardinality(Owners) + 1
      BY <2>3, OwnersMove
    <3>2. QED
      BY <2>1, <3>1
  <2>4. QED
    BY <2>2, <2>3
<1>3. \A u \in Tasks : ~call'[u].expired
  BY OwnersMove DEF SlotsOwned
<1>4. QED
  BY <1>1, <1>2, <1>3 DEF SlotsOwned

LEMMA QuietStep ==
  ASSUME ExecutorInv, BreakerInv, SlotsOwned, NEW t \in Tasks,
         \/ Enter(t) \/ ResumeWaiter(t) \/ AbandonWaiter(t) \/ Rejected(t) \/ Leave(t)
         \/ CallOperation(t) \/ GiveUp(t) \/ RetryTooLate(t) \/ ScheduleRetry(t) \/ Wake(t)
  PROVE  SlotsOwned'
<1>1. call[t] \in CallRecords /\ ~call[t].expired /\ CallsTyped /\ Consistent(call[t])
      /\ UNCHANGED breakerVars
  BY DEF ExecutorInv, CallsTyped, CallsConsistent, SlotsOwned, Enter, ResumeWaiter, AbandonWaiter,
         Rejected, Leave, CallOperation, GiveUp, RetryTooLate, ScheduleRetry, Wake
<1>2. CASE call' = call
  BY <1>1, <1>2 DEF SlotsOwned, Owners, breakerVars
<1>3. CASE call' # call /\ (Enter(t) \/ ResumeWaiter(t))
  <2> DEFINE c == [call[t] EXCEPT !.stage = "admitted"]
  <2>1. call' = [call EXCEPT ![t] = c] /\ call[t].stage = "idle"
    <3>1. gate[t] # "holding" /\ Continue(t, "admitted")
      BY <1>3 DEF Enter, ResumeWaiter, AfterGate, Acquire, Resume
    <3>2. QED
      BY <1>1, <3>1 DEF Continue, CallsTyped, ExecutorInv, SlotHeldByCall
  <2>2. ~c.expired /\ ~Unrecorded(call[t])
    BY <1>1, <2>1 DEF CallRecords, Unrecorded
  <2>3. QED
    BY <1>1, <2>1, <2>2, QuietMove
<1>4. CASE AbandonWaiter(t) \/ Rejected(t) \/ Leave(t)
  <2>1. call' = [call EXCEPT ![t] = NewCall] /\ ~NewCall.expired
    BY <1>4 DEF AbandonWaiter, Rejected, Leave, NewCall
  <2>2. call[t].stage \in {"idle", "leaving"}
    BY <1>4 DEF AbandonWaiter, Rejected, Leave, Abandon, Return, Running, ExecutorInv, SlotHeldByCall
  <2>3. ~Unrecorded(call[t])
    BY <2>2 DEF Unrecorded
  <2>4. QED
    BY <1>1, <2>1, <2>3, QuietMove
<1>5. CASE CallOperation(t)
  <2> DEFINE n == call[t].invoked + 1
             c == [call[t] EXCEPT !.stage = "calling", !.invoked = n,
                     !.event = [kind |-> IF n = 1 THEN "called" ELSE "executed", attempt |-> n]]
  <2>1. call' = [call EXCEPT ![t] = c] /\ ~c.expired /\ c.done = call[t].done /\ c.stage = "calling"
    BY <1>1, <1>5 DEF CallOperation, CallsTyped, CallRecords
  <2>2. Unrecorded(call[t]) => Unrecorded(c)
    BY <2>1 DEF Unrecorded
  <2> HIDE DEF c
  <2>3. QED
    BY <1>1, <2>1, <2>2, QuietMove
<1>6. CASE GiveUp(t) \/ RetryTooLate(t) \/ ScheduleRetry(t) \/ Wake(t)
  <2>1. CASE GiveUp(t) \/ RetryTooLate(t) \/ Wake(t)
    <3>1. PICK s : Continue(t, s) /\ call[t].stage \in {"deciding", "sleeping"}
      BY <2>1 DEF GiveUp, RetryTooLate, Wake, Running, Suspended
    <3> DEFINE c == [call[t] EXCEPT !.stage = s]
    <3>2. call' = [call EXCEPT ![t] = c] /\ ~c.expired
      BY <1>1, <3>1 DEF Continue, CallsTyped, CallRecords
    <3> HIDE DEF c
    <3>3. QED
      BY <1>1, <3>1, <3>2, QuietMove DEF Unrecorded
  <2>2. CASE ScheduleRetry(t)
    <3>1. PICK s, e : call' = [call EXCEPT ![t].stage = s, ![t].event = e]
      BY <2>2 DEF ScheduleRetry, Emit
    <3>2. call[t].stage = "deciding"
      BY <2>2 DEF ScheduleRetry, Running
    <3> DEFINE c == [call[t] EXCEPT !.stage = s, !.event = e]
    <3>3. call' = [call EXCEPT ![t] = c] /\ ~c.expired
      BY <1>1, <3>1 DEF CallsTyped, CallRecords
    <3> HIDE DEF c
    <3>4. QED
      BY <1>1, <3>2, <3>3, QuietMove DEF Unrecorded
  <2>3. QED
    BY <1>6, <2>1, <2>2
<1>7. QED
  BY <1>2, <1>3, <1>4, <1>5, <1>6

\* allow() gives a slot to a call that becomes an owner.
LEMMA AdmitOwns ==
  ASSUME ExecutorInv, BreakerInv, SlotsOwned, NEW t \in Tasks, Admit(t)
  PROVE  SlotsOwned'
<1>1. call[t] \in CallRecords /\ ~call[t].expired /\ CallsTyped /\ call[t].stage = "admitted"
      /\ call[t].done = 0
  BY DEF ExecutorInv, CallsTyped, CallsConsistent, Consistent, SlotsOwned, Admit, Running
<1>2. ~Unrecorded(call[t])
  BY <1>1 DEF Unrecorded
<1>3. CASE Refuse /\ Continue(t, "leaving")
  <2> DEFINE c == [call[t] EXCEPT !.stage = "leaving"]
  <2>1. call' = [call EXCEPT ![t] = c] /\ ~c.expired /\ UNCHANGED breakerVars
    BY <1>1, <1>3 DEF Continue, Refuse, CallsTyped, CallRecords
  <2>2. QED
    BY <1>1, <1>2, <2>1, QuietMove
<1>4. CASE Allow /\ Continue(t, "attempting")
  <2> DEFINE c == [call[t] EXCEPT !.stage = "attempting"]
  <2>1. call' = [call EXCEPT ![t] = c] /\ ~c.expired /\ c.stage = "attempting" /\ c.done = 0
    BY <1>1, <1>4 DEF Continue, CallsTyped, CallRecords
  <2>2. Unrecorded(c)
    BY <2>1 DEF Unrecorded
  <2> HIDE DEF c
  <2>3. /\ Cardinality(Owners') = Cardinality(Owners) + 1 /\ Cardinality(Owners) \in Nat
        /\ \A u \in Tasks : ~call'[u].expired
    <3>1. Cardinality(Owners') = Cardinality(Owners) + 1 /\ Cardinality(Owners) \in Nat
      BY <1>1, <1>2, <2>1, <2>2, OwnersMove
    <3>2. call'[t] = c /\ \A u \in Tasks : u # t => call'[u] = call[u]
      BY <1>1, <2>1, OwnersMove
    <3>3. QED
      BY <2>1, <3>1, <3>2 DEF SlotsOwned
  <2>4. inflight \in Nat /\ (state' = "half_open" => inflight' = 1 \/ (state = "half_open" /\ inflight' = inflight + 1))
    BY <1>4 DEF Allow, AllowAfterRecovery, AllowProbe, AllowClosed, breakerVars, BreakerInv, BreakerTypeOK
  <2>5. state' = "half_open" => inflight' <= Cardinality(Owners')
    BY <2>3, <2>4 DEF SlotsOwned
  <2>6. QED
    BY <2>3, <2>5 DEF SlotsOwned
<1>5. QED
  BY <1>3, <1>4 DEF Admit

\* The outcome of an attempt frees a slot, if it leaves the circuit half-open.
LEMMA OutcomeFrees ==
  ASSUME ExecutorInv, BreakerInv, SlotsOwned, NEW t \in Tasks, Succeed(t) \/ Fail(t)
  PROVE  SlotsOwned'
<1>1. call[t] \in CallRecords /\ ~call[t].expired /\ CallsTyped
  BY DEF ExecutorInv, CallsTyped, SlotsOwned
<1>2. PICK c : call' = [call EXCEPT ![t] = c] /\ ~c.expired
  <2>1. CASE Succeed(t)
    <3> DEFINE c == [call[t] EXCEPT !.stage = "leaving",
                       !.event = [kind |-> "completed", attempt |-> call[t].done + 1]]
    <3>1. call' = [call EXCEPT ![t] = c] /\ ~c.expired
      BY <1>1, <2>1 DEF Succeed, Emit, CallsTyped, CallRecords
    <3>2. QED
      BY <3>1
  <2>2. CASE Fail(t)
    <3> DEFINE n == call[t].done + 1
               c == [call[t] EXCEPT !.stage = "deciding", !.done = n,
                       !.event = [kind |-> "failed", attempt |-> n]]
    <3>1. call' = [call EXCEPT ![t] = c] /\ ~c.expired
      BY <1>1, <2>2 DEF Fail, CallsTyped, CallRecords
    <3>2. QED
      BY <3>1
  <2>3. QED
    BY <2>1, <2>2
<1>3. /\ Cardinality(Owners') >= Cardinality(Owners) - 1
      /\ Cardinality(Owners) \in Nat /\ Cardinality(Owners') \in Nat
      /\ \A u \in Tasks : ~call'[u].expired
  <2>1. Cardinality(Owners) \in Nat /\ Cardinality(Owners') \in Nat
        /\ call'[t] = c /\ \A u \in Tasks : u # t => call'[u] = call[u]
    BY <1>1, <1>2, OwnersMove
  <2>2. Cardinality(Owners') = Cardinality(Owners) \/ Cardinality(Owners') = Cardinality(Owners) + 1
        \/ Cardinality(Owners') = Cardinality(Owners) - 1
    BY <1>1, <1>2, OwnersMove
  <2>3. QED
    BY <1>2, <2>1, <2>2 DEF SlotsOwned
<1>4. inflight \in Nat
  BY DEF BreakerInv, BreakerTypeOK
<1>5. state' = "half_open" => state = "half_open" /\ inflight' = inflight - 1
  <2>1. CASE RecordSuccess
    BY <1>4, <2>1 DEF RecordSuccess
  <2>2. CASE RecordFailure
    BY <2>2 DEF RecordFailure, CountFailure, Open
  <2>3. QED
    BY <2>1, <2>2 DEF Succeed, Fail
<1>6. QED
  BY <1>3, <1>4, <1>5 DEF SlotsOwned

LEMMA OwnedStep ==
  ASSUME ExecutorInv, BreakerInv, SlotsOwned, ~Deadline, ~Escapes, [ExecutorNext]_executorVars
  PROVE  SlotsOwned'
<1>1. ASSUME NEW t \in Tasks PROVE ~Expire(t) /\ ~Escape(t) /\ ~CancelWaiter(t) /\ ~FailLate(t)
                                   /\ ~DeadlineInCall(t) /\ ~DeadlineAtTop(t)
  BY DEF Expire, Escape, CancelWaiter, FailLate, DeadlineInCall, DeadlineAtTop, SlotsOwned
<1>2. CASE Recover \/ Slide \/ UNCHANGED executorVars
  <2>1. UNCHANGED <<call, state, inflight>>
    BY <1>2 DEF Recover, RecoveryElapses, Slide, executorVars, breakerVars
  <2>2. QED
    BY <2>1 DEF SlotsOwned, Owners
<1>3. QED
  BY <1>1, <1>2, QuietStep, AdmitOwns, OutcomeFrees DEF ExecutorNext, Proceed, Ready

\* Without deadlines and escapes every occupied probe slot belongs to a call that will
\* report its outcome, for every number of calls and of probes.
THEOREM ProbeSlotsHaveOwners == ExecutorSpec => []ProbeSlotsOwned
<1>1. ExecutorInit => SlotsOwned
  <2>1. SUFFICES ASSUME ExecutorInit PROVE SlotsOwned
    OBVIOUS
  <2>2. state = "closed" /\ \A t \in Tasks : call[t] = NewCall
    BY <2>1 DEF ExecutorInit, BreakerInit
  <2>3. QED
    BY <2>2 DEF SlotsOwned, NewCall
<1>2. ASSUME ~Deadline, ~Escapes
      PROVE  ExecutorInv /\ BreakerInv /\ SlotsOwned /\ [ExecutorNext]_executorVars => SlotsOwned'
  BY <1>2, OwnedStep
<1>3. SlotsOwned => ProbeSlotsOwned
  BY DEF SlotsOwned, ProbeSlotsOwned, Owners, Unrecorded
<1>4. Deadline \/ Escapes => ProbeSlotsOwned
  BY DEF ProbeSlotsOwned
<1>5. CASE Deadline \/ Escapes
  BY <1>4, <1>5, PTL
<1>6. CASE ~Deadline /\ ~Escapes
  <2>1. ExecutorInv /\ BreakerInv /\ SlotsOwned /\ [ExecutorNext]_executorVars => SlotsOwned'
    BY <1>2, <1>6
  <2>2. QED
    BY <1>1, <1>3, <2>1, ExecutorInvariant, PTL DEF ExecutorSpec
<1>7. QED
  BY <1>5, <1>6

-------------------------------------------------------------------------------
(* 4. The service                                                          *)

FlagFollows == saturated \in BOOLEAN /\ (saturated <=> active >= Limit)

WorkTyped == work \in [Tasks -> WorkPlaces]

ServiceInv == IInv /\ WorkTyped /\ SlotHeldByWork /\ FlagFollows

LEMMA ServiceInitHolds == DependencyInit => ServiceInv
<1> SUFFICES ASSUME DependencyInit PROVE ServiceInv
  OBVIOUS
<1>1. IInv
  BY InitHolds DEF DependencyInit
<1>2. WorkTyped /\ SlotHeldByWork
  <2>1. \A t \in Tasks : work[t] = "none" /\ gate[t] = "out"
    BY DEF DependencyInit, LimiterInit
  <2>2. work = [t \in Tasks |-> "none"]
    BY DEF DependencyInit
  <2>3. QED
    BY <2>1, <2>2 DEF WorkTyped, SlotHeldByWork, WorkPlaces
<1>3. FlagFollows
  <2>1. ~(active >= Limit)
    BY LimiterAssumption DEF DependencyInit, LimiterInit
  <2>2. saturated = FALSE
    BY DEF DependencyInit
  <2>3. QED
    BY <2>1, <2>2, Zenon DEF FlagFollows
<1>4. QED
  BY <1>1, <1>2, <1>3 DEF ServiceInv

\* The flag is what UpdateSaturation makes it.
LEMMA FlagUpdated == UpdateSaturation => FlagFollows'
<1> SUFFICES ASSUME UpdateSaturation PROVE FlagFollows'
  OBVIOUS
<1>1. CASE active' >= Limit
  <2>1. saturated' = TRUE
    BY <1>1, Zenon DEF UpdateSaturation
  <2>2. QED
    BY <1>1, <2>1, Zenon DEF FlagFollows
<1>2. CASE ~(active' >= Limit)
  <2>1. saturated' \in BOOLEAN
    <3>1. (active' >= Limit) \in BOOLEAN
      OBVIOUS
    <3>2. QED
      BY <3>1, Zenon DEF UpdateSaturation
  <2>2. QED
    BY <1>2, <2>1, Zenon DEF FlagFollows, UpdateSaturation
<1>3. QED
  BY <1>1, <1>2

\* The slot is taken and given back in one stretch: the callers that wait lose
\* nothing, because the notification that such a call used up is passed on.
LEMMA PassPreserves ==
  ASSUME IInv, NEW t \in Tasks, gate[t] \in {"out", "woken"},
         PassThrough(t, IF gate[t] = "woken" THEN waiting - 1 ELSE waiting)
  PROVE  IInv'
<1> DEFINE depth == IF gate[t] = "woken" THEN waiting - 1 ELSE waiting
           woken == IF gate[t] = "woken" THEN 1 ELSE 0
           f == [gate EXCEPT ![t] = "out"]
<1>1. /\ waiting' = depth /\ Notify(parked, f) /\ active' = active
      /\ depth = waiting - woken /\ woken \in {0, 1}
  BY IInvFacts DEF PassThrough
<1>2. /\ gate[t] # "queued"
      /\ Weight(gate[t], {"holding"}) = 0
      /\ Weight(gate[t], WaitingPlaces) = woken
      /\ Weight(gate[t], Handed) = woken
  BY Weights
<1>3. f \in [Tasks -> GatePlaces] /\ f[t] = "out" /\ OnlyMoves(gate, f, t)
  BY IInvFacts DEF GatePlaces, OnlyMoves
<1>4. Lists(parked, f)
  BY <1>2, IInvFacts, ListsMove DEF IInv, ParkedOK, GatePlaces
<1> HIDE DEF f, depth, woken
<1>5. /\ Num(f, {"holding"}) = active
      /\ Num(f, WaitingPlaces) = depth /\ depth \in Nat /\ depth <= waiting
      /\ Num(f, Handed) = Num(gate, Handed) - woken
  BY <1>1, <1>2, <1>3, IInvFacts, GateMoved, Weights
<1>6. /\ gate' \in [Tasks -> GatePlaces] /\ parked' \in Seq(Tasks)
      /\ Lists(parked', gate')
      /\ Num(gate', {"holding"}) = active /\ Num(gate', WaitingPlaces) = depth
      /\ parked = <<>> => parked' = <<>>
      /\ parked # <<>> => Num(gate', Handed) = Num(gate, Handed) - woken + 1
  BY <1>1, <1>3, <1>4, <1>5, IInvFacts, NotifyFacts
<1>7. LimiterTypeOK' /\ ParkedOK'
  BY <1>1, <1>5, <1>6, IInvFacts DEF LimiterTypeOK, ParkedOK
<1>8. Counted'
  BY <1>1, <1>5, <1>6, IInvFacts DEF Counted
<1>9. Served'
  BY <1>1, <1>6, IInvFacts DEF IInv, Served
<1>10. QED
  BY <1>7, <1>8, <1>9 DEF IInv

\* The calls that hold a slot are t, or are no longer t, and the others as before.
LEMMA WorkMoves ==
  ASSUME WorkTyped, SlotHeldByWork, NEW t \in Tasks, NEW w \in WorkPlaces,
         work' = [work EXCEPT ![t] = w],
         \A u \in Tasks : u # t => (gate'[u] = "holding" <=> gate[u] = "holding"),
         w # "none" <=> gate'[t] = "holding"
  PROVE  WorkTyped' /\ SlotHeldByWork'
BY DEF WorkTyped, SlotHeldByWork

-------------------------------------------------------------------------------
\* A turn at the gate and, for a call that won a slot, its first stretch.
LEMMA ServiceTurn ==
  ASSUME ServiceInv, NEW t \in Tasks, gate[t] \in {"out", "woken"},
         Turn(t, IF gate[t] = "woken" THEN waiting - 1 ELSE waiting)
  PROVE  ServiceInv'
<1> DEFINE depth == IF gate[t] = "woken" THEN waiting - 1 ELSE waiting
<1>1. /\ IInv /\ WorkTyped /\ SlotHeldByWork /\ FlagFollows
      /\ gate \in [Tasks -> GatePlaces] /\ active \in Nat
      /\ gate[t] # "holding" /\ gate[t] # "queued" /\ work[t] = "none"
  BY IInvFacts DEF ServiceInv, SlotHeldByWork
<1>2. CASE AcquireTurn(t, depth)
  <2>1. IInv'
    BY <1>1, <1>2, TurnPreserves
  <2>2. active' \in Nat
    BY <2>1 DEF IInv, LimiterTypeOK
  <2>3. CASE TakeSlot(t, depth)
    <3>1. gate' = [gate EXCEPT ![t] = "holding"]
      BY <2>3 DEF TakeSlot
    <3>2. /\ \A u \in Tasks : u # t => (gate'[u] = "holding" <=> gate[u] = "holding")
          /\ gate'[t] = "holding"
      BY <1>1, <3>1
    <3>3. ~Park(t, depth) /\ ~TurnAway(t, depth)
      BY <2>3 DEF TakeSlot, Park, TurnAway
    <3>4. StartWork(t, depth) /\ UpdateSaturation
      BY <3>3 DEF Turn
    <3>5. ~PassThrough(t, depth)
      <4>1. active' # active
        BY <1>1, <2>3 DEF TakeSlot
      <4>2. QED
        BY <4>1 DEF PassThrough
    <3>6. PICK w \in {"processing", "stalled"} : work' = [work EXCEPT ![t] = w]
      BY <3>4, <3>5 DEF StartWork, Stall
    <3>7. WorkTyped' /\ SlotHeldByWork'
      <4>1. w \in WorkPlaces /\ w # "none"
        BY DEF WorkPlaces
      <4>2. QED
        BY <1>1, <3>2, <3>6, <4>1, WorkMoves
    <3>8. FlagFollows'
      BY <3>4, FlagUpdated
    <3>9. QED
      BY <2>1, <3>7, <3>8 DEF ServiceInv
  <2>4. CASE TurnAway(t, depth) \/ Park(t, depth)
    <3>1. /\ \A u \in Tasks : u # t => (gate'[u] = "holding" <=> gate[u] = "holding")
          /\ gate'[t] # "holding" /\ active' = active
      BY <1>1, <2>4 DEF TurnAway, Park
    <3>2. ~SlotFree
      BY <2>4 DEF TurnAway, Park
    <3>3. work' = work /\ saturated' = saturated
      BY <3>2 DEF Turn, StartWork, TakeSlot, PassThrough
    <3>4. WorkTyped' /\ SlotHeldByWork'
      BY <1>1, <3>1, <3>3 DEF WorkTyped, SlotHeldByWork
    <3>5. FlagFollows'
      BY <1>1, <3>1, <3>3 DEF FlagFollows
    <3>6. QED
      BY <2>1, <3>4, <3>5 DEF ServiceInv
  <2>5. QED
    BY <1>2, <2>3, <2>4 DEF AcquireTurn
<1>3. CASE PassThrough(t, depth) /\ EndAtOnce(t) /\ UpdateSaturation
  <2>1. IInv'
    BY <1>1, <1>3, PassPreserves
  <2>2. /\ \A u \in Tasks : u # t => (gate'[u] = "holding" <=> gate[u] = "holding")
        /\ gate'[t] # "holding"
    BY <1>1, <1>3, OutKeepsHolders DEF PassThrough
  <2>3. work' = [work EXCEPT ![t] = "none"] /\ "none" \in WorkPlaces
    BY <1>3 DEF EndAtOnce, WorkPlaces
  <2>4. WorkTyped' /\ SlotHeldByWork'
    BY <1>1, <2>2, <2>3, WorkMoves
  <2>5. FlagFollows'
    BY <1>3, FlagUpdated
  <2>6. QED
    BY <2>1, <2>4, <2>5 DEF ServiceInv
<1>4. QED
  BY <1>2, <1>3 DEF Turn, StartWork, AcquireTurn

\* A call that gives its slot back, whatever way out of invoke() it takes.
LEMMA LeavingPreserves ==
  ASSUME ServiceInv, NEW t \in Tasks,
         work' = [work EXCEPT ![t] = "none"], Release(t), UpdateSaturation
  PROVE  ServiceInv'
<1>1. IInv' /\ WorkTyped /\ SlotHeldByWork
  BY ReleasePreserves DEF ServiceInv
<1>2. /\ \A u \in Tasks : u # t => (gate'[u] = "holding" <=> gate[u] = "holding")
      /\ gate'[t] # "holding"
  BY OutKeepsHolders DEF ServiceInv, Release
<1>3. WorkTyped' /\ SlotHeldByWork'
  BY <1>1, <1>2, WorkMoves DEF WorkPlaces
<1>4. FlagFollows'
  BY FlagUpdated
<1>5. QED
  BY <1>1, <1>3, <1>4 DEF ServiceInv

\* Injected latency, a hang or a saturation delay after the processing.
LEMMA StallPreserves ==
  ASSUME ServiceInv, NEW t \in Tasks, work[t] = "processing", Stall(t),
         UNCHANGED <<limiterVars, saturated>>
  PROVE  ServiceInv'
<1>1. /\ IInv /\ WorkTyped /\ SlotHeldByWork /\ FlagFollows
      /\ active' = active /\ waiting' = waiting /\ parked' = parked /\ gate' = gate
      /\ saturated' = saturated /\ work' = [work EXCEPT ![t] = "stalled"]
  BY DEF ServiceInv, limiterVars, Stall
<1>2. IInv' /\ FlagFollows'
  BY <1>1 DEF IInv, LimiterTypeOK, ParkedOK, Counted, Served, FlagFollows
<1>3. gate'[t] = "holding"
  BY <1>1 DEF SlotHeldByWork
<1>4. WorkTyped' /\ SlotHeldByWork'
  <2>1. "stalled" \in WorkPlaces /\ "stalled" # "none"
    BY DEF WorkPlaces
  <2>2. QED
    BY <1>1, <1>3, <2>1, WorkMoves
<1>5. QED
  BY <1>2, <1>4 DEF ServiceInv

\* Cancellation in the waiting room and the return to the caller.
LEMMA AtGatePreserves ==
  ASSUME ServiceInv, NEW t \in Tasks, AtGate(t)
  PROVE  ServiceInv'
<1>1. /\ IInv /\ WorkTyped /\ SlotHeldByWork /\ FlagFollows
      /\ gate \in [Tasks -> GatePlaces] /\ parked \in Seq(Tasks)
      /\ work' = work /\ saturated' = saturated
  BY IInvFacts DEF ServiceInv, AtGate
<1>2. IInv'
  BY <1>1, CancelPreserves, AbandonPreserves, ReturnPreserves DEF AtGate
<1>3. active' = active /\ FlagFollows'
  BY <1>1 DEF AtGate, Cancel, Abandon, Return, FlagFollows
<1>4. \A u \in Tasks : gate'[u] = "holding" <=> gate[u] = "holding"
  BY <1>1, ElsewhereKeepsHolders DEF AtGate
<1>5. WorkTyped' /\ SlotHeldByWork'
  BY <1>1, <1>4 DEF WorkTyped, SlotHeldByWork
<1>6. QED
  BY <1>2, <1>3, <1>5 DEF ServiceInv

LEMMA ServiceStep == ServiceInv /\ [DependencyNext]_serviceVars => ServiceInv'
<1> SUFFICES ASSUME ServiceInv, [DependencyNext]_serviceVars PROVE ServiceInv'
  OBVIOUS
<1>1. CASE UNCHANGED serviceVars \/ WindowMoves
  BY <1>1 DEF serviceVars, limiterVars, WindowMoves, ServiceInv, IInv, LimiterTypeOK, ParkedOK,
              Counted, Served, WorkTyped, SlotHeldByWork, FlagFollows
<1>2. ASSUME NEW t \in Tasks, Invoke(t) PROVE ServiceInv'
  BY <1>2, ServiceTurn DEF Invoke
<1>3. ASSUME NEW t \in Tasks, WakeUp(t) PROVE ServiceInv'
  BY <1>3, ServiceTurn DEF WakeUp
<1>4. ASSUME NEW t \in Tasks, Processed(t) PROVE ServiceInv'
  <2>1. CASE Stall(t) /\ UNCHANGED <<limiterVars, saturated>>
    BY <1>4, <2>1, StallPreserves DEF Processed
  <2>2. CASE EndAtOnce(t) /\ Release(t) /\ UpdateSaturation
    BY <2>2, LeavingPreserves DEF EndAtOnce
  <2>3. QED
    BY <1>4, <2>1, <2>2 DEF Processed
<1>5. ASSUME NEW t \in Tasks, LeaveService(t) PROVE ServiceInv'
  BY <1>5, LeavingPreserves DEF LeaveService
<1>6. ASSUME NEW t \in Tasks, AtGate(t) PROVE ServiceInv'
  BY <1>6, AtGatePreserves
<1>7. QED
  BY <1>1, <1>2, <1>3, <1>4, <1>5, <1>6 DEF DependencyNext

\* Every reachable state of the service satisfies the inductive invariant.
THEOREM ServiceInvariant == DependencySpec => []ServiceInv
BY ServiceInitHolds, ServiceStep, PTL DEF DependencySpec

\* However many calls there are and however each of them ends, a slot is held by
\* exactly the calls that are at one of the awaits of invoke()'s try block.
THEOREM SlotsFollowWork == DependencySpec => []SlotHeldByWork
<1>1. ServiceInv => SlotHeldByWork
  BY DEF ServiceInv
<1>2. QED
  BY <1>1, ServiceInvariant, PTL

\* The events SERVICE_SATURATED and SERVICE_RECOVERED tell the truth at every await.
THEOREM SaturationIsTrue == DependencySpec => []SaturationReported
<1>1. ServiceInv => SaturationReported
  <2> SUFFICES ASSUME ServiceInv PROVE SaturationReported
    OBVIOUS
  <2>1. Cardinality(At("holding")) = active
    BY IInvImplies DEF ServiceInv, CountersExact
  <2>2. active \in Nat /\ active <= Limit /\ Limit \in Nat
    BY IInvFacts DEF ServiceInv
  <2>3. QED
    BY <2>1, <2>2 DEF ServiceInv, FlagFollows, SaturationReported
<1>2. QED
  BY <1>1, ServiceInvariant, PTL

\* The gate's counters stay exact under the service, whose calls may take and give
\* back a slot in one stretch.
THEOREM ServiceCounters == DependencySpec => []CountersExact
<1>1. ServiceInv => CountersExact
  BY IInvImplies DEF ServiceInv
<1>2. QED
  BY <1>1, ServiceInvariant, PTL

-------------------------------------------------------------------------------
\* What the service does at the gate is what the gate's callers do, and the stretch
\* that takes a slot and gives it back.
Depth(t) == IF gate[t] = "woken" THEN waiting - 1 ELSE waiting

LEMMA TurnAtGate ==
  ASSUME NEW t \in Tasks, gate[t] \in {"out", "woken"}, Turn(t, Depth(t))
  PROVE  LimiterNext \/ PassThrough(t, Depth(t))
<1>1. CASE AcquireTurn(t, Depth(t))
  <2>1. Acquire(t) \/ Resume(t)
    BY <1>1 DEF Depth, Acquire, Resume
  <2>2. QED
    BY <2>1 DEF LimiterNext
<1>2. QED
  BY <1>1 DEF Turn, StartWork, AcquireTurn

LEMMA ServiceAtGate ==
  ASSUME [DependencyNext]_serviceVars
  PROVE  \/ [LimiterNext]_limiterVars
         \/ \E t \in Tasks : gate[t] \in {"out", "woken"} /\ PassThrough(t, Depth(t))
<1>1. CASE UNCHANGED serviceVars \/ WindowMoves
  BY <1>1 DEF serviceVars, limiterVars, WindowMoves
<1>2. ASSUME NEW t \in Tasks, Invoke(t) \/ WakeUp(t)
      PROVE  LimiterNext \/ (gate[t] \in {"out", "woken"} /\ PassThrough(t, Depth(t)))
  <2>1. gate[t] \in {"out", "woken"} /\ Turn(t, Depth(t))
    BY <1>2 DEF Invoke, WakeUp, Depth
  <2>2. QED
    BY <2>1, TurnAtGate
<1>3. ASSUME NEW t \in Tasks, Processed(t) \/ LeaveService(t) \/ AtGate(t)
      PROVE  [LimiterNext]_limiterVars
  BY <1>3 DEF Processed, LeaveService, AtGate, LimiterNext
<1>4. QED
  BY <1>1, <1>2, <1>3 DEF DependencyNext

LEMMA ListsWithout ==
  ASSUME IInv, NEW t \in Tasks, gate[t] \in {"out", "woken"}
  PROVE  /\ [gate EXCEPT ![t] = "out"] \in [Tasks -> GatePlaces]
         /\ Lists(parked, [gate EXCEPT ![t] = "out"]) /\ parked \in Seq(Tasks)
<1> DEFINE f == [gate EXCEPT ![t] = "out"]
<1>1. f \in [Tasks -> GatePlaces] /\ f[t] = "out" /\ OnlyMoves(gate, f, t)
  BY IInvFacts DEF GatePlaces, OnlyMoves
<1>2. Lists(parked, f)
  BY IInvFacts, ListsMove DEF IInv, ParkedOK, GatePlaces
<1>3. QED
  BY <1>1, <1>2, IInvFacts

\* The stretch turns no queued caller away.
LEMMA PassRejectsNobody ==
  ASSUME IInv, NEW t \in Tasks, gate[t] \in {"out", "woken"}, PassThrough(t, Depth(t)),
         NEW u \in Tasks, gate[u] \in {"queued", "woken"}
  PROVE  gate'[u] # "rejected"
<1>1. gate \in [Tasks -> GatePlaces]
  BY IInvFacts
<1>2. Notify(parked, [gate EXCEPT ![t] = "out"])
  BY DEF PassThrough
<1>3. QED
  BY <1>1, <1>2 DEF Notify

\* For AdmissionControl the stretch is nothing, or the end of a wait: the caller comes
\* out of the waiting room served.
LEMMA PassRefines ==
  ASSUME IInv, NEW t \in Tasks, gate[t] \in {"out", "woken"}, PassThrough(t, Depth(t))
  PROVE  Admission!Next \/ Place(gate') = Place(gate)
<1> DEFINE f == [gate EXCEPT ![t] = "out"]
<1>1. f \in [Tasks -> GatePlaces] /\ Lists(parked, f) /\ parked \in Seq(Tasks)
  BY ListsWithout
<1>2. Notify(parked, f)
  BY DEF PassThrough
<1>3. gate \in [Tasks -> GatePlaces]
  BY IInvFacts
<1>4. Place(f) = [Place(gate) EXCEPT ![t] = "out"]
  BY <1>3, PlaceMoves DEF GatePlaces, WaitingPlaces
<1> HIDE DEF f
<1>5. Place(gate') = [Place(gate) EXCEPT ![t] = "out"]
  BY <1>1, <1>2, <1>4, NotifyStutters
<1>6. CASE gate[t] = "out"
  <2>1. Place(gate)[t] = "out" /\ Place(gate) \in [Tasks -> {"waiting"} \union GatePlaces]
    BY <1>3, <1>6 DEF Place, WaitingPlaces
  <2>2. QED
    BY <1>5, <2>1
<1>7. CASE gate[t] = "woken"
  <2>1. Place(gate)[t] = "waiting"
    BY <1>7 DEF Place, WaitingPlaces
  <2>2. Admission!Abandon(t)
    BY <1>5, <2>1, MoveIs DEF Admission!Abandon
  <2>3. QED
    BY <2>2 DEF Admission!Next
<1>8. QED
  BY <1>6, <1>7

\* No notification is lost in the service either.
THEOREM ServiceStrandsNobody ==
  ASSUME Renotify PROVE DependencySpec => []NoStrandedWaiter
<1>1. ServiceInv => NoStrandedWaiter
  BY IInvImplies DEF ServiceInv
<1>2. QED
  BY <1>1, ServiceInvariant, PTL

\* A call that was queued is not turned away afterwards.
THEOREM ServiceKeepsTheQueued == DependencySpec => NeverRejectedAfterQueueing
<1>1. ServiceInv /\ [DependencyNext]_serviceVars =>
        [\A t \in Tasks : gate[t] \in {"queued", "woken"} => gate'[t] # "rejected"]_limiterVars
  <2> SUFFICES ASSUME ServiceInv, [DependencyNext]_serviceVars
               PROVE  [\A t \in Tasks :
                         gate[t] \in {"queued", "woken"} => gate'[t] # "rejected"]_limiterVars
    OBVIOUS
  <2>1. CASE [LimiterNext]_limiterVars
    BY <2>1, StepHolds DEF ServiceInv
  <2>2. CASE \E t \in Tasks : gate[t] \in {"out", "woken"} /\ PassThrough(t, Depth(t))
    BY <2>2, PassRejectsNobody DEF ServiceInv
  <2>3. QED
    BY <2>1, <2>2, ServiceAtGate
<1>2. QED
  BY <1>1, ServiceInvariant, PTL DEF DependencySpec, NeverRejectedAfterQueueing

\* The service implements AdmissionControl step by step.
THEOREM ServiceRefinesAdmissionControl ==
  DependencySpec => Admission!Init /\ [][Admission!Next]_(Place(gate))
<1>1. DependencyInit => Admission!Init
  BY DEF DependencyInit, LimiterInit, Admission!Init, Waiters, At
<1>2. ServiceInv /\ [DependencyNext]_serviceVars => [Admission!Next]_(Place(gate))
  <2> SUFFICES ASSUME ServiceInv, [DependencyNext]_serviceVars
               PROVE  Admission!Next \/ Place(gate') = Place(gate)
    OBVIOUS
  <2>1. CASE [LimiterNext]_limiterVars
    BY <2>1, StepRefines DEF ServiceInv
  <2>2. CASE \E t \in Tasks : gate[t] \in {"out", "woken"} /\ PassThrough(t, Depth(t))
    BY <2>2, PassRefines DEF ServiceInv
  <2>3. QED
    BY <2>1, <2>2, ServiceAtGate
<1>3. QED
  BY <1>1, <1>2, ServiceInvariant, PTL DEF DependencySpec
===============================================================================

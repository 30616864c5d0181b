----------------------------- MODULE CircuitBreaker -----------------------------
(***************************************************************************)
(* The circuit breaker of resilience/circuit_breaker.py.  Every method     *)
(* runs under a threading.Lock and never awaits, so each call is one step. *)
(* The clock is abstracted to what the code asks of it: whether the        *)
(* recovery window has passed since the circuit opened, and how many of    *)
(* the oldest outcomes have left the rolling window.                       *)
(*                                                                         *)
(* The breaker does not know who calls it: nothing ties a record_success() *)
(* or record_failure() to the allow() it answers.  PolicyExecutor composes *)
(* the breaker with its callers.                                           *)
(***************************************************************************)
EXTENDS Naturals, Sequences, FiniteSets, SequencesExt

CONSTANTS Threshold,      \* failure_threshold
          Probes,         \* half_open_probes
          Rolling,        \* TRUE: rolling_window is set
          MinThroughput,  \* minimum_throughput
          MaxRecent       \* bound: outcomes the rolling window can hold

ASSUME BreakerAssumption ==
  /\ Threshold \in Nat \ {0}
  /\ Probes \in Nat \ {0}
  /\ Rolling \in BOOLEAN
  /\ MinThroughput \in Nat
  /\ MaxRecent \in Nat \ {0}

VARIABLES state,     \* _state
          failures,  \* _consecutive_failures, which is only compared with
                     \* Threshold and so counts no further than that
          waited,    \* the recovery window has passed since _opened_at
          inflight,  \* _half_open_inflight
          recent     \* _recent: the outcomes in the rolling window, oldest first

breakerVars == <<state, failures, waited, inflight, recent>>

BreakerTypeOK ==
  /\ state \in {"closed", "open", "half_open"}
  /\ failures \in 0..Threshold
  /\ waited \in BOOLEAN
  /\ inflight \in 0..Probes
  /\ recent \in Seq(BOOLEAN)

BreakerInit ==
  /\ state = "closed"
  /\ failures = 0
  /\ waited = TRUE
  /\ inflight = 0
  /\ recent = <<>>

-------------------------------------------------------------------------------
\* allow() = True: the first call after the recovery window, a further probe, or
\* any call through a closed circuit.
AllowAfterRecovery ==
  /\ state = "open" /\ waited
  /\ state' = "half_open"
  /\ inflight' = 1
  /\ UNCHANGED <<failures, waited, recent>>

AllowProbe ==
  /\ state = "half_open" /\ inflight < Probes
  /\ inflight' = inflight + 1
  /\ UNCHANGED <<state, failures, waited, recent>>

AllowClosed ==
  /\ state = "closed"
  /\ UNCHANGED breakerVars

\* Plausible slip: a half-open circuit lets everybody through.
MutAllow ==
  \/ AllowAfterRecovery \/ AllowClosed
  \/ /\ state = "half_open"
     /\ inflight' = inflight + 1
     /\ UNCHANGED <<state, failures, waited, recent>>

Allow == AllowAfterRecovery \/ AllowProbe \/ AllowClosed

\* allow() = False.
Refuse ==
  /\ \/ state = "open" /\ ~waited
     \/ state = "half_open" /\ inflight >= Probes
  /\ UNCHANGED breakerVars

\* _record_recent(): drop what left the window, then append the outcome.
RecordRecent(ok) ==
  IF Rolling
  THEN \E gone \in 0..Len(recent) :
         /\ Len(recent) - gone < MaxRecent
         /\ recent' = Append(SubSeq(recent, gone + 1, Len(recent)), ok)
  ELSE recent' = recent

\* _threshold_met(), with count failures in a row and the outcomes of window.
ThresholdMet(count, window) ==
  IF Rolling
  THEN /\ Len(window) >= MinThroughput
       /\ Cardinality({i \in DOMAIN window : ~window[i]}) >= Threshold
  ELSE count >= Threshold

\* Plausible slip: only the success of a closed circuit ends a row of failures.
MutRecordSuccess ==
  /\ RecordRecent(TRUE)
  /\ failures' = IF state = "closed" THEN 0 ELSE failures
  /\ inflight' = IF state = "half_open" /\ inflight > 0 THEN inflight - 1 ELSE inflight
  /\ state' = IF state = "half_open" /\ inflight' = 0 THEN "closed" ELSE state
  /\ UNCHANGED waited

RecordSuccess ==
  /\ RecordRecent(TRUE)
  /\ failures' = 0
  /\ inflight' = IF state = "half_open" /\ inflight > 0 THEN inflight - 1 ELSE inflight
  /\ state' = IF state = "half_open" /\ inflight' = 0 THEN "closed" ELSE state
  /\ UNCHANGED waited

\* _open(); inflight keeps the slots of probes that are still out.
Open ==
  /\ state' = "open"
  /\ failures' = 0
  /\ waited' = FALSE

\* Plausible slip: the comparison with the threshold is strict.
MutCountFailure(count) ==
  IF failures = Threshold /\ ThresholdMet(count, recent')
  THEN Open
  ELSE failures' = count /\ UNCHANGED <<state, waited>>

\* A failure outside the half-open state, the count'th in a row.
CountFailure(count) ==
  IF count >= Threshold /\ ThresholdMet(count, recent')
  THEN Open
  ELSE failures' = count /\ UNCHANGED <<state, waited>>

RecordFailure ==
  /\ RecordRecent(FALSE)
  /\ IF state = "half_open"
     THEN Open /\ inflight' = IF inflight > 0 THEN inflight - 1 ELSE inflight
     ELSE /\ CountFailure(IF failures < Threshold THEN failures + 1 ELSE Threshold)
          /\ UNCHANGED inflight

\* The recovery window passes.
RecoveryElapses ==
  /\ ~waited
  /\ waited' = TRUE
  /\ UNCHANGED <<state, failures, inflight, recent>>

\* reset(): _opened_at is left as it is.
Reset ==
  /\ state' = "closed"
  /\ failures' = 0
  /\ inflight' = 0
  /\ recent' = <<>>
  /\ UNCHANGED waited

BreakerNext ==
  \/ Allow \/ Refuse \/ RecordSuccess \/ RecordFailure
  \/ RecoveryElapses \/ Reset

BreakerSpec == BreakerInit /\ [][BreakerNext]_breakerVars

-------------------------------------------------------------------------------
\* A half-open circuit always waits for at least one probe and never lets through
\* more than half_open_probes at a time: if the count could reach zero while the
\* circuit stays half-open, or pass the limit, the state would never be left.
ProbesCounted ==
  state = "half_open" => inflight \in 1..Probes

\* A closed circuit never sits on the evidence that should have opened it, whatever
\* was recorded before by callers admitted in other states: with threshold many
\* failures in a row, the rolling window must still lack the outcomes it asks for.
NoIgnoredEvidence ==
  state = "closed" /\ failures >= Threshold => ~ThresholdMet(failures, recent)

\* The rolling window outlives the states of the circuit: closing leaves in it what was
\* recorded before, and only reset() empties it.  All the same, what stale callers and
\* probes reported while the circuit was open or half-open never opens it again by
\* itself: a closed circuit opens only when the last Threshold outcomes in the window
\* are failures, and the success that closed it is in the window before them.  What the
\* window still holds of earlier failures makes up the throughput only.  This takes the
\* count and the window agreeing through every stale outcome and every outcome that
\* slides out: without the count, the old failures and a single new one would do.
OpensOnFreshFailures ==
  [][Rolling /\ state = "closed" /\ state' = "open" =>
       /\ Len(recent') >= Threshold
       /\ \A i \in DOMAIN recent' : i > Len(recent') - Threshold => ~recent'[i]]_breakerVars
===============================================================================

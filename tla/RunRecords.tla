------------------------------ MODULE RunRecords ------------------------------
(***************************************************************************)
(* What one repetition records and what is computed from it: the rows of   *)
(* requests, attempts and events (workloads/generator.py, services/        *)
(* client.py, resilience/policy.py, metrics/collector.py), and the         *)
(* timeline and summaries of metrics/timeline.py and metrics/transforms.py.*)
(*                                                                         *)
(* Requests overlap; each waits at the concurrency gate, is turned away or *)
(* makes attempts with a deadline, sleeps between them, and is recorded    *)
(* when it is answered, after its attempts.  Time advances in ticks; the   *)
(* loop may wake a sleeper or cut an attempt late, and an attempt or a     *)
(* request may stay unanswered.  How full the gate is and what the circuit *)
(* counts is left open: a request may always wait or be turned away, and   *)
(* a failure may always open the circuit.  The events "rejected" and       *)
(* "timeout" are in no account and are left out.                           *)
(***************************************************************************)
EXTENDS Integers, Sequences, FiniteSets, FiniteSetsExt, SequencesExt

CONSTANTS Clients,
          MaxRequests,   \* bound: requests of the repetition
          MaxAttempts,   \* RetryConfig.max_attempts
          Delays,        \* delays the backoff may give
          Deadline,      \* Timeout.total, in ticks
          Bucket,        \* bucket of the timeline, in ticks
          MaxTime        \* bound: ticks

ASSUME RecordsAssumption ==
  /\ MaxRequests \in Nat /\ MaxAttempts \in Nat \ {0}
  /\ Delays \subseteq Nat /\ Delays # {}
  /\ Deadline \in Nat \ {0} /\ Bucket \in Nat \ {0} /\ MaxTime \in Nat

VARIABLES now,      \* Clock.now()
          flight,   \* flight[c]: the request client c is waiting for
          issued,   \* requests issued so far: their ids
          circuit,  \* the state of the circuit breaker
          records   \* MetricsCollector._records

recordVars == <<now, flight, issued, circuit, records>>

NoFlight == [id |-> 0, at |-> "idle", started |-> 0, attempt |-> 0, since |-> 0]

RecordsInit ==
  /\ now = 0
  /\ flight = [c \in Clients |-> NoFlight]
  /\ issued = 0
  /\ circuit = "closed"
  /\ records = <<>>

Row(kind, id, ok, latency, attempt) ==
  [kind |-> kind, id |-> id, t |-> now, ok |-> ok, latency |-> latency, attempt |-> attempt]

Tick ==
  /\ now < MaxTime
  /\ now' = now + 1
  /\ UNCHANGED <<flight, issued, circuit, records>>

\* The request is sent; the deadline counts from before the gate.
Issue(c) ==
  /\ flight[c].at = "idle" /\ issued < MaxRequests
  /\ issued' = issued + 1
  /\ flight' = [flight EXCEPT ![c] = [id |-> issued + 1, at |-> "waiting", started |-> now,
                                     attempt |-> 0, since |-> now]]
  /\ UNCHANGED <<now, circuit, records>>

Attempt(c, ok) ==
  Row("downstream", flight[c].id, ok, now - flight[c].since, flight[c].attempt)

\* WorkloadGenerator._issue() records the request with its whole latency.
Answer(c, ok, rows) ==
  /\ records' = records \o rows
                \o <<Row("request", flight[c].id, ok, now - flight[c].started, 0)>>
  /\ flight' = [flight EXCEPT ![c] = NoFlight]
  /\ UNCHANGED <<now, issued>>

\* on_transition() records the circuit's move to another state.
CircuitRows(new) == IF new = circuit THEN <<>> ELSE <<Row("circuit", 0, FALSE, 0, 0)>>

\* Where an admission, a success and a failure may leave the circuit.
AfterAllow   == IF circuit = "open" THEN "half_open" ELSE circuit
AfterSuccess == IF circuit = "half_open" THEN {"half_open", "closed"} ELSE {circuit}
AfterFailure == IF circuit = "closed" THEN {"closed", "open"} ELSE {"open"}

Remaining(c) == flight[c].started + Deadline - now

\* The top of the retry loop: the deadline is over, or an attempt begins.
NextAttempt(c, new) ==
  /\ circuit' = new
  /\ IF Remaining(c) <= 0
     THEN Answer(c, FALSE, CircuitRows(new))
     ELSE /\ flight' = [flight EXCEPT ![c].at = "calling", ![c].attempt = @ + 1,
                                      ![c].since = now]
          /\ records' = records \o CircuitRows(new)
          /\ UNCHANGED <<now, issued>>

\* The gate and the circuit let the request in.
Admit(c) == flight[c].at = "waiting" /\ NextAttempt(c, AfterAllow)

\* The gate is full, or the circuit does not allow it: a failure without an attempt.
Reject(c) == flight[c].at = "waiting" /\ Answer(c, FALSE, <<>>) /\ UNCHANGED circuit

\* The attempt is the last one: the circuit moves, perhaps, before it is recorded.
LastAttempt(c, ok, new) ==
  /\ flight[c].at = "calling"
  /\ circuit' = new
  /\ Answer(c, ok, CircuitRows(new) \o <<Attempt(c, ok)>>)

Succeed(c) == \E new \in AfterSuccess : LastAttempt(c, TRUE, new)

\* The failure is final, or the time is over before another attempt.
FailForGood(c) == \E new \in AfterFailure : LastAttempt(c, FALSE, new)

\* Plausible slip: the delay is recorded before it is cut to what remains.
MutRetryLater(c, delay, new) ==
  /\ flight[c].at = "calling" /\ flight[c].attempt < MaxAttempts /\ Remaining(c) > 0
  /\ circuit' = new
  /\ records' = records \o CircuitRows(new)
                \o <<Attempt(c, FALSE), Row("retry", flight[c].id, FALSE, delay, 0)>>
  /\ flight' = [flight EXCEPT ![c].at = "asleep",
                             ![c].since = now + Min({delay, Remaining(c)})]
  /\ UNCHANGED <<now, issued>>

\* A retry is scheduled: the delay is cut to what remains of the deadline.
RetryLater(c, delay, new) ==
  LET slept == Min({delay, Remaining(c)}) IN
  /\ flight[c].at = "calling" /\ flight[c].attempt < MaxAttempts /\ Remaining(c) > 0
  /\ circuit' = new
  /\ records' = records \o CircuitRows(new)
                \o <<Attempt(c, FALSE), Row("retry", flight[c].id, FALSE, slept, 0)>>
  /\ flight' = [flight EXCEPT ![c].at = "asleep", ![c].since = now + slept]
  /\ UNCHANGED <<now, issued>>

\* The sleep is over.
Wake(c) == flight[c].at = "asleep" /\ now >= flight[c].since /\ NextAttempt(c, circuit)

RecordsNext ==
  \/ Tick
  \/ \E c \in Clients :
       \/ Issue(c) \/ Reject(c) \/ Admit(c) \/ Wake(c) \/ Succeed(c) \/ FailForGood(c)
       \/ \E delay \in Delays, new \in AfterFailure : RetryLater(c, delay, new)

RecordsSpec == RecordsInit /\ [][RecordsNext]_recordVars

-------------------------------------------------------------------------------
\* The positions of the rows of a kind.
Rows(kind) == {k \in DOMAIN records : records[k].kind = kind}

\* service_by_request and retry_by_request: what the rows of a kind add up to.
SumFor(rows, kind, id) ==
  FoldLeft(LAMBDA sum, r : IF r.kind = kind /\ r.id = id THEN sum + r.latency ELSE sum,
           0, rows)

\* latency_components(): the parts of the latency of one request.
Service(id) == SumFor(records, "downstream", id)
Backoff(id) == SumFor(records, "retry", id)
Other(r)    == r.latency - Service(r.id) - Backoff(r.id)

Times == {records[k].t : k \in Rows("request")}
T0 == Min(Times)
T1 == Max(Times)

\* The number of buckets.
Size == (T1 - T0) \div Bucket + 1

\* int(): towards zero, so the bucket before T0 is still bucket 0.
Truncate(x) == IF x >= 0 THEN x \div Bucket ELSE -((-x) \div Bucket)

\* Plausible slip: the index is not kept below the number of buckets.
MutIndex(r) == Truncate(r.t - T0)

Index(r) == Min({Truncate(r.t - T0), Size - 1})

\* A list takes an index from -Size on, counting from its end.
Raises(r) == Index(r) < -Size \/ Index(r) >= Size
BucketOf(r) == IF Index(r) < 0 THEN Index(r) + Size ELSE Index(r)

In(rows, i) == {k \in rows : BucketOf(records[k]) = i}

\* Which of the rows are of requests that failed, or of calls that are retries.
Failed(rows)  == {k \in rows : ~records[k].ok}
Retried(rows) == {k \in rows : records[k].attempt > 1}

\* The counts of bucket i, and whether the circuit moved in it (a dictionary, whose index
\* does not wrap around).
TimelineBucket(i) ==
  LET requests   == In(Rows("request"), i)
      downstream == In(Rows("downstream"), i)
  IN [requests   |-> Cardinality(requests),
      errors     |-> Cardinality(Failed(requests)),
      downstream |-> Cardinality(downstream),
      failures   |-> Cardinality(Failed(downstream)),
      retries    |-> Cardinality(Retried(downstream)),
      circuit    |-> \E k \in Rows("circuit") : Index(records[k]) = i]

Timeline == [i \in 0..(Size - 1) |-> TimelineBucket(i)]

\* throughput_series(): a bucketing of its own; one bucket if all answers come at once.
ThroughputSeries ==
  [i \in 0..(Size - 1) |->
     Cardinality({k \in Rows("request") : T1 <= T0 \/ (records[k].t - T0) \div Bucket = i})]

\* summarize_requests() and summarize_downstream(), without the latencies.
Summary ==
  LET Succeeded(rows) == {k \in rows : records[k].ok} IN
  [total             |-> Cardinality(Rows("request")),
   failed            |-> Cardinality(Rows("request")) - Cardinality(Succeeded(Rows("request"))),
   downstream        |-> Cardinality(Rows("downstream")),
   downstream_failed |->
     Cardinality(Rows("downstream")) - Cardinality(Succeeded(Rows("downstream")))]

-------------------------------------------------------------------------------
\* What the summary counts, in one bucket and in all of them.
Counted(b) ==
  [total |-> b.requests, failed |-> b.errors,
   downstream |-> b.downstream, downstream_failed |-> b.failures]

AllBuckets ==
  LET buckets == [i \in DOMAIN Timeline |-> Counted(Timeline[i])] IN
  [n \in DOMAIN Summary |-> SumFunction([i \in DOMAIN buckets |-> buckets[i][n]])]

\* The components of a request's latency are its own and never exceed it, however
\* requests overlap, however long they wait at the gate and whichever deadline cuts an
\* attempt or a sleep short, late perhaps: the residual latency_components() reports as
\* "other" is never negative.
ResidualNonNegative == \A r \in ToSet(records) : r.kind = "request" => Other(r) >= 0

\* What happened before the first answer and after the last one is in the first and
\* the last bucket, everything else in the bucket of its time, so the timeline and
\* the summary agree, and so do the two series of throughput - provided nothing
\* happened a whole bucket or more before the first answer.
TimelineAddsUp ==
  Rows("request") # {} /\ (\A r \in ToSet(records) : T0 < r.t + Bucket) =>
    /\ \A r \in ToSet(records) :
         LET b == BucketOf(r) IN
         /\ ~Raises(r)
         /\ T0 + b * Bucket <= r.t \/ b = 0
         /\ r.t < T0 + (b + 1) * Bucket \/ b = Size - 1
    /\ \A i \in 0..(Size - 1) : Timeline[i].requests = ThroughputSeries[i]
    /\ AllBuckets = Summary
===============================================================================

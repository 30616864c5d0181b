----------------------------- MODULE PolicyExecutor -----------------------------
(***************************************************************************)
(* PolicyExecutor.execute() of resilience/policy.py, with the events that  *)
(* services/client.py emits for it: calls that share one concurrency       *)
(* limiter, one circuit breaker and one retry budget on one asyncio loop.  *)
(*                                                                         *)
(* The loop runs one task at a time and switches only at an await that     *)
(* suspends.  loop names the task that is running, so a stretch of code    *)
(* without such an await is several steps that nobody else's step          *)
(* separates; time passes all the same, so a deadline may expire inside.   *)
(* Of the events, those that carry an attempt number are kept; metrics     *)
(* records, TimeoutTriggered and the executor's statistics are left out.   *)
(***************************************************************************)
EXTENDS CircuitBreaker, ConcurrencyLimiter

CONSTANTS MaxAttempts,  \* retry.max_attempts; 1 stands for no retry policy
          Budget,       \* max_retries of the retry budget, or Unbounded for none
          Deadline,     \* TRUE: timeout.total is set
          Escapes,      \* TRUE: a call may be cancelled, or its operation raise
                        \* something that is not a CallFailure
          Idle          \* no task is running

ASSUME ExecutorAssumption ==
  /\ MaxAttempts \in Nat \ {0}
  /\ Budget \in Nat \union {Unbounded}
  /\ Deadline \in BOOLEAN
  /\ Escapes \in BOOLEAN
  /\ Idle \notin Tasks

VARIABLES loop,   \* the running task, or Idle
          call,   \* call[t]: the locals of t's execute()
          spent   \* len(_timestamps) of the retry budget

executorVars == <<breakerVars, limiterVars, loop, call, spent>>

Stages == {"idle", "admitted", "attempting", "calling", "deciding", "sleeping", "leaving"}

NoEvent == [kind |-> "none", attempt |-> 0]

\* done: attempts_done; invoked: the client's attempt_counter; expired: the deadline
\* has passed; event: the last event emitted with an attempt number.
NewCall ==
  [stage |-> "idle", done |-> 0, invoked |-> 0, expired |-> FALSE, event |-> NoEvent]

ExecutorTypeOK ==
  /\ BreakerTypeOK
  /\ LimiterTypeOK
  /\ loop \in Tasks \union {Idle}
  /\ \A t \in Tasks :
       /\ call[t].stage \in Stages
       /\ call[t].done \in 0..MaxAttempts
       /\ call[t].invoked \in 0..MaxAttempts
       /\ call[t].expired \in BOOLEAN
  /\ Budget # Unbounded => spent \in 0..Budget

ExecutorInit ==
  /\ BreakerInit /\ LimiterInit
  /\ loop = Idle
  /\ call = [t \in Tasks |-> NewCall]
  /\ spent = 0

-------------------------------------------------------------------------------
Running(t, stage) == loop = t /\ call[t].stage = stage
Suspended(t, stage) == loop = Idle /\ call[t].stage = stage

\* t goes on to a stage it reaches without suspending.
Continue(t, stage) == loop' = t /\ call' = [call EXCEPT ![t].stage = stage]

\* t goes on, and emits an event on the way.
Emit(t, stage, kind, attempt) ==
  /\ loop' = t
  /\ call' = [call EXCEPT ![t].stage = stage,
                          ![t].event = [kind |-> kind, attempt |-> attempt]]

\* The limiter let t through, or left it waiting or turned away.
AfterGate(t) ==
  IF gate'[t] = "holding"
  THEN Continue(t, "admitted")
  ELSE UNCHANGED <<loop, call>>

\* A call starts.
Enter(t) ==
  /\ loop = Idle /\ Acquire(t) /\ AfterGate(t)
  /\ UNCHANGED <<breakerVars, spent>>

\* A woken waiter runs.
ResumeWaiter(t) ==
  /\ loop = Idle /\ Resume(t) /\ AfterGate(t)
  /\ UNCHANGED <<breakerVars, spent>>

\* A waiting call is cancelled, and its error leaves acquire().
CancelWaiter(t) ==
  /\ Escapes /\ loop = Idle /\ Cancel(t)
  /\ UNCHANGED <<breakerVars, loop, call, spent>>

AbandonWaiter(t) ==
  /\ loop = Idle /\ Abandon(t)
  /\ call' = [call EXCEPT ![t] = NewCall]
  /\ UNCHANGED <<breakerVars, loop, spent>>

\* ConcurrencyLimitExceeded reaches the caller.
Rejected(t) ==
  /\ loop = Idle /\ Return(t)
  /\ call' = [call EXCEPT ![t] = NewCall]
  /\ UNCHANGED <<breakerVars, loop, spent>>

\* Plausible slip: the answer of allow() is not looked at.
MutAdmit(t) ==
  /\ Running(t, "admitted")
  /\ (Allow \/ Refuse) /\ Continue(t, "attempting")
  /\ UNCHANGED <<limiterVars, spent>>

\* Plausible slip: a refused call returns outside the try that frees its slot.
MutAdmitKeepsSlot(t) ==
  /\ Running(t, "admitted")
  /\ \/ Allow /\ Continue(t, "attempting")
     \/ Refuse /\ loop' = Idle /\ call' = [call EXCEPT ![t] = NewCall]
  /\ UNCHANGED <<limiterVars, spent>>

\* cb.allow(), and CircuitOpenError if it says no.
Admit(t) ==
  /\ Running(t, "admitted")
  /\ \/ Allow /\ Continue(t, "attempting")
     \/ Refuse /\ Continue(t, "leaving")
  /\ UNCHANGED <<limiterVars, spent>>

\* The deadline is found to have passed at the top of the loop: nothing is recorded.
DeadlineAtTop(t) ==
  /\ Running(t, "attempting") /\ call[t].expired
  /\ Continue(t, "leaving")
  /\ UNCHANGED <<breakerVars, limiterVars, spent>>

\* The deadline passes between that check and the one in _call().
DeadlineInCall(t) ==
  /\ Running(t, "attempting") /\ ~call[t].expired /\ Deadline
  /\ RecordFailure
  /\ Emit(t, "leaving", "late", call[t].done + 1)
  /\ UNCHANGED <<limiterVars, spent>>

\* wrapped() starts the operation, which suspends.
CallOperation(t) ==
  LET n == call[t].invoked + 1 IN
  /\ Running(t, "attempting") /\ ~call[t].expired
  /\ loop' = Idle
  /\ call' = [call EXCEPT
                ![t].stage = "calling",
                ![t].invoked = n,
                ![t].event = [kind |-> IF n = 1 THEN "called" ELSE "executed", attempt |-> n]]
  /\ UNCHANGED <<breakerVars, limiterVars, spent>>

Succeed(t) ==
  /\ Suspended(t, "calling")
  /\ RecordSuccess
  /\ Emit(t, "leaving", "completed", call[t].done + 1)
  /\ UNCHANGED <<limiterVars, spent>>

\* Plausible slip: only the outcome of the last attempt is recorded.
MutFail(t) ==
  LET n == call[t].done + 1 IN
  /\ Suspended(t, "calling")
  /\ IF n = MaxAttempts THEN RecordFailure ELSE UNCHANGED breakerVars
  /\ loop' = t
  /\ call' = [call EXCEPT ![t].stage = "deciding", ![t].done = n,
                          ![t].event = [kind |-> "failed", attempt |-> n]]
  /\ UNCHANGED <<limiterVars, spent>>

\* The attempt fails with a CallFailure; a read timeout is one.
Fail(t) ==
  LET n == call[t].done + 1 IN
  /\ Suspended(t, "calling")
  /\ RecordFailure
  /\ loop' = t
  /\ call' = [call EXCEPT ![t].stage = "deciding", ![t].done = n,
                          ![t].event = [kind |-> "failed", attempt |-> n]]
  /\ UNCHANGED <<limiterVars, spent>>

\* The operation itself raises DeadlineExceeded (a nested executor).
FailLate(t) ==
  /\ Deadline /\ Suspended(t, "calling")
  /\ RecordFailure
  /\ Emit(t, "leaving", "failed", call[t].done + 1)
  /\ UNCHANGED <<limiterVars, spent>>

\* No retry: the attempts are used up, the failure is not retryable, or the retry
\* budget is exhausted.
GiveUp(t) ==
  /\ Running(t, "deciding")
  /\ Continue(t, "leaving")
  /\ UNCHANGED <<breakerVars, limiterVars, spent>>

\* should_retry(), of a retryable failure.
MayRetry(t) == call[t].done < MaxAttempts /\ (Budget # Unbounded => spent < Budget)

SpendRetry == spent' = IF Budget = Unbounded THEN spent ELSE spent + 1

\* The retry is granted, and paid for, but the deadline has passed.
RetryTooLate(t) ==
  /\ Running(t, "deciding") /\ MayRetry(t) /\ call[t].expired
  /\ SpendRetry
  /\ Continue(t, "leaving")
  /\ UNCHANGED <<breakerVars, limiterVars>>

\* Plausible slip: the retry event carries the number of the attempt that failed.
MutScheduleRetry(t) ==
  /\ Running(t, "deciding") /\ MayRetry(t) /\ ~call[t].expired
  /\ SpendRetry
  /\ Emit(t, "attempting", "scheduled", call[t].done)
  /\ UNCHANGED <<breakerVars, limiterVars>>

\* The retry is scheduled, after a backoff delay or at once.
ScheduleRetry(t) ==
  /\ Running(t, "deciding") /\ MayRetry(t) /\ ~call[t].expired
  /\ SpendRetry
  /\ \/ Emit(t, "attempting", "scheduled", call[t].done + 1)
     \/ /\ loop' = Idle
        /\ call' = [call EXCEPT
                      ![t].stage = "sleeping",
                      ![t].event = [kind |-> "scheduled", attempt |-> call[t].done + 1]]
  /\ UNCHANGED <<breakerVars, limiterVars>>

\* The backoff sleep is over; the circuit is not asked again.
Wake(t) ==
  /\ Suspended(t, "sleeping")
  /\ Continue(t, "attempting")
  /\ UNCHANGED <<breakerVars, limiterVars, spent>>

\* Cancelled while it is suspended, or the operation raises something else: the
\* exception passes every handler and the breaker hears nothing of it.
Escape(t) ==
  /\ Escapes
  /\ Suspended(t, "calling") \/ Suspended(t, "sleeping")
  /\ Continue(t, "leaving")
  /\ UNCHANGED <<breakerVars, limiterVars, spent>>

\* finally: release(), and the call is over.
Leave(t) ==
  /\ Running(t, "leaving")
  /\ Release(t)
  /\ loop' = Idle
  /\ call' = [call EXCEPT ![t] = NewCall]
  /\ UNCHANGED <<breakerVars, spent>>

\* Time: the deadline of a call in progress passes, the circuit's recovery window
\* passes, retries leave the window of the budget.
Expire(t) ==
  /\ Deadline /\ ~call[t].expired
  /\ gate[t] \in {"queued", "woken", "holding"}
  /\ call' = [call EXCEPT ![t].expired = TRUE]
  /\ UNCHANGED <<breakerVars, limiterVars, loop, spent>>

Recover == RecoveryElapses /\ UNCHANGED <<limiterVars, loop, call, spent>>

Slide ==
  /\ \E n \in 0..spent : n < spent /\ spent' = n
  /\ UNCHANGED <<breakerVars, limiterVars, loop, call>>

\* What t does once the loop runs it, and what makes the loop run it.
Proceed(t) ==
  \/ Admit(t) \/ DeadlineAtTop(t) \/ DeadlineInCall(t) \/ CallOperation(t)
  \/ GiveUp(t) \/ RetryTooLate(t) \/ ScheduleRetry(t) \/ Leave(t)

Ready(t) ==
  \/ ResumeWaiter(t) \/ AbandonWaiter(t) \/ Rejected(t)
  \/ Succeed(t) \/ Fail(t) \/ FailLate(t) \/ Wake(t)

ExecutorNext ==
  \/ \E t \in Tasks :
       \/ Enter(t) \/ Proceed(t) \/ Ready(t)
       \/ CancelWaiter(t) \/ Escape(t) \/ Expire(t)
  \/ Recover \/ Slide

\* The loop's ready queue is first in, first out: a task that is ready again and
\* again is run, and operations return (each call has a read timeout).
ExecutorFairness == \A t \in Tasks : SF_executorVars(Proceed(t) \/ Ready(t))

ExecutorSpec == ExecutorInit /\ [][ExecutorNext]_executorVars /\ ExecutorFairness

-------------------------------------------------------------------------------
\* An open circuit keeps new calls off the dependency, and a half-open one lets in
\* only probes: between the answer of allow() and the first attempt no other call
\* can open the circuit.  (Retries of calls admitted earlier are not held back.)
NoFirstCallWhileOpen ==
  [][\A t \in Tasks :
       call[t].invoked = 0 /\ call'[t].invoked = 1 => state # "open"]_executorVars

\* A slot is held exactly by the calls that are past acquire(), on every path through
\* refusals, deadlines, failures and cancellations: none of them leaks it, and none
\* gives back a slot it does not have.
SlotHeldByCall ==
  \A t \in Tasks : gate[t] = "holding" <=> call[t].stage # "idle"

\* The order in which the events of a call may follow each other, as docs/events.md
\* gives it; a deadline that passes inside _call() ends an attempt that was not made.
Follows(prev, next) ==
  CASE next.kind = "called"    -> prev = NoEvent /\ next.attempt = 1
    [] next.kind = "executed"  -> prev = [kind |-> "scheduled", attempt |-> next.attempt]
    [] next.kind = "scheduled" -> prev = [kind |-> "failed", attempt |-> next.attempt - 1]
    [] next.kind = "late"      -> prev \in {NoEvent, [kind |-> "scheduled", attempt |-> next.attempt]}
    [] OTHER -> prev \in {[kind |-> k, attempt |-> next.attempt] : k \in {"called", "executed"}}

\* The attempt numbers of a call's events come from two counters, attempts_done of
\* the executor and attempt_counter of the client; on every path through failures,
\* retries and deadlines they number the same attempts, in the documented order.
EventOrder ==
  [][\A t \in Tasks :
       LET next == call'[t].event IN
       next \notin {call[t].event, NoEvent} => Follows(call[t].event, next)]_executorVars

\* Without deadlines and escapes every occupied probe slot belongs to a call whose
\* first attempt has still to be recorded: nobody else could ever free it.
ProbeSlotsOwned ==
  ~Deadline /\ ~Escapes /\ state = "half_open" =>
    inflight <= Cardinality({t \in Tasks :
                  call[t].done = 0 /\ call[t].stage \in {"attempting", "calling"}})

\* With one probe at a time, a half-open circuit is decided: the probe's outcome
\* opens or closes it.
HalfOpenResolves == state = "half_open" ~> state # "half_open"

\* Every path out of execute() gives the slot back.
SlotsComeBack == \A t \in Tasks : gate[t] = "holding" ~> gate[t] # "holding"
===============================================================================

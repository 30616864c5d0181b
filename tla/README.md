# Resilience-Lab: TLA+ models, checks and proofs

Resilience-Lab drives a simulated dependency with a workload, wraps every call in
resilience policies (timeouts, retries with a budget, a circuit breaker, a
concurrency limit), injects faults and analyses what happened. It runs as a
command-line tool, as a local API with threads, or in server mode with a
database, a Redis job queue and a worker process.

Three parts hold the logic that tests reach badly: the policies that many
coroutines share on one event loop; the control plane in which API processes, a
worker and its poller read and write the same rows and lists; and the experiment
itself, whose client tasks run while another thread may cancel it. The models
start there.

Paths below are relative to `resiliencelab/`, those under `deployment/` and `docs/` to the repository.

## 1. Inventory

| Component | State | Operations | What makes it correct |
|---|---|---|---|
| Concurrency limiter, `resilience/concurrency.py` | `_active`, `_waiting`, the waiters of an `asyncio.Condition` | `acquire`, `release`, cancellation inside `acquire` | counters exact, limits kept, no lost wake-up, no rejection after queueing |
| Circuit breaker, `resilience/circuit_breaker.py` | state, failures in a row, time of opening, probes in flight, rolling window | `allow`, `record_success`, `record_failure`, `reset` | a half-open circuit has a probe to wait for; evidence opens it, and after it has closed only new evidence does |
| Policy executor, `resilience/policy.py`, `retry.py`, `timeout.py`; client, `services/client.py` | locals of each call, retry budget, event counters | `execute`, `_call`, `should_retry`, the client's `wrapped` and `on_event` | slots come back on every path; no new call through an open circuit; probes report; events numbered in order |
| Dependency service, `services/dependency.py`, `capacity.py` | capacity gate, peak, saturation and fault flags | `invoke` | the gate's properties; saturation reported as it is; no way out keeps a slot |
| Job queue, `controlplane/queue.py` | two Redis lists, a hash per job | enqueue, claim, complete, scan for stuck jobs | no job lost; with one worker none doubled; a claimed job is finished |
| Worker, `controlplane/worker.py` | loop position, cancellation token, poller thread | claim, check, start, run, commit, report | database and queue agree after any crash |
| Repository and server API, `controlplane/repositories.py`, `api/app.py` | `experiments.status`, `runs.status` | create, run, request a cancellation | a completed experiment has completed runs |
| Local runtime, `api/app.py` | dictionary of jobs, a token per job, tasks | create, run, execute and store, request a cancellation | a live status has a live execution behind it; an outcome belongs to the execution that wrote it; a cancellation ends |
| Cancellation token, `core/cancellation.py` | flag and reason | `request`, `raise_if_requested`, `interruptible_sleep` | first reason kept |
| Workload generator, `workloads/` | phase, in-flight tasks | open and closed loop, warm-up | cancellation reaches the runner; warm-up leaves nothing behind |
| Experiment runner, `experiments/runner.py` | repetitions, artifacts | run an experiment, stop on the token | a cancelled run is never reported complete |
| Artifact bundles, `experiments/artifacts.py`, the `matrix` and `reproduce` commands, the API's file routes | directories of files with a manifest, the verdicts of an invocation | write, verify, serve | no manifest ahead of its files; published verdicts true of the disk; answers follow the bundle |
| Records and timeline, `metrics/`, `events.py` | append-only records | record, bucket, summarise | parts of a latency within the whole; series and totals agree |
| Recovery detection, `analysis/recovery.py` | none | baseline, degradation, sustained recovery | an early recovery stands or falls with its window; settled verdicts stay |
| Designs, effects, comparisons, `analysis/design.py`, `interactions.py`, `comparison.py`, `statistics.py` | none | conditions, main effects, interactions, effect sizes | conditions as designed; the views of one experiment agree |
| Configuration, `core/schema.py`, `policies.py`, `builders.py`, `services/network.py` | none | service graph, call order, policy merging, routing | a graph is accepted exactly if it can be ordered; overrides change what they name |
| Fault injection, simulation primitives, reports, command line, authentication | files, random generators | | see section 8 |

How they interact. `ResilientClient.execute` builds one `PolicyExecutor` per
dependency; all calls of the workload share its limiter, breaker and budget, and
run on one asyncio loop. The executor asks the limiter, then the breaker, then
loops over attempts, and releases the slot in a `finally`. The call it makes
enters `DependencyService.invoke`, which has a gate of its own. The server API
writes an experiment's row, pushes a job per run to Redis and commits; the
worker pops a job, checks for a cancellation, starts the run in one transaction,
runs the experiment while a poller thread looks for `CANCEL_REQUESTED`, commits
the outcome in a second transaction and then tells the queue. Results are
written as bundles of files, which the API serves and later invocations
overwrite.

What is hard: a newcomer overtaking a woken waiter; cancellation at every await;
a deadline that passes between two checks of it; callers admitted in one state
of the circuit reporting in another; handlers that read a row and overwrite it
at commit; crashes between Redis commands, between database and queue, and
between two files; an id that is run again while it runs; runs that fail or do
not recover and leave cells of a design empty. The `hazards` of `PROJECT.json`
give each at its line with the properties that watch over it, or the reason none
does.

## 2. Modules

| Module | Models | Extends |
|---|---|---|
| `AdmissionControl` | what a concurrency gate promises: who holds, who waits, who is rejected | |
| `ConcurrencyLimiter` | the gate, its counters and its condition variable | |
| `CircuitBreaker` | the breaker, driven by any caller | |
| `PolicyExecutor` | calls that share a limiter, a breaker and a budget | `CircuitBreaker`, `ConcurrencyLimiter` |
| `DependencyService` | calls inside a service: gate, processing, faults, saturation | `ConcurrencyLimiter` |
| `JobQueue` | the Redis queue and the worker's use of it | |
| `ControlPlane` | API handlers, database, worker and poller around the queue | `JobQueue` |
| `LocalRuntime` | jobs, tokens and executions of the API in local mode | |
| `ExperimentRun` | one experiment: repetitions, warm-up, client and arrival loops, the recording gate, the token | |
| `ArtifactStore` | bundles on disk, the programs that write them and a reader | |
| `RunRecords` | rows of overlapping requests, the timeline and the summaries | |
| `RecoveryDetection` | the recovery report of a growing series | |
| `MatrixAnalysis` | a factorial design, its conditions, effects and interactions | |
| `Comparison` | the table, effects and paired differences of experiments | `MatrixAnalysis` |
| `Configuration` | service graphs, policies and routing | |
| `Algorithms`, `MCAlgorithms` | the last five side by side, and their instances | those |
| `..._proofs` | theorems about `ConcurrencyLimiter`, `ControlPlane` with its queue, `LocalRuntime`, `ExperimentRun`, `ArtifactStore` and `Configuration`; `Calls_proofs` about `CircuitBreaker`, `PolicyExecutor` and `DependencyService`, `Analysis_proofs` about `RunRecords`, `RecoveryDetection`, `MatrixAnalysis` and `Comparison` | the module, `TLAPS` |

Definitions whose names begin with `Mut` are plausible slips of the code; no
specification uses them. Each property of a passing run is paired with one that
breaks it (`mutants` in `PROJECT.json`), which shows that the property depends on
that line of the code.

### ConcurrencyLimiter
`active` and `waiting` are `_active` and `_waiting`; `parked` is the part of the
condition's waiter queue that `notify` can still wake; `gate[t]` says where a
caller stands in `acquire`. A step is the code between two awaits. No coroutine
suspends while it owns the condition's lock except inside `wait()`, so the lock
is never contended and is not a variable. `AcquireTurn` is one turn of the
`while` loop: take a slot, be turned away, or park. `Acquire` is the first turn
and `Resume` a later one, after the `finally` that decrements `_waiting`.
`Cancel` marks a parked or woken caller; `Abandon` is its error leaving
`acquire`. `ServiceCapacity` in `services/capacity.py` contains the same gate.

`Renotify` states a fact about the Python version: from 3.13 `Condition.wait`
passes on the notification of a woken waiter that is cancelled. Before, it is
lost, and `NoStrandedWaiter` fails: the mutant `MutAbandonDropsNotification` is
that behaviour. The project declares Python >= 3.11, so on 3.11 and 3.12 a
cancelled waiter can leave a slot free while others stay parked until the next
`release`.

### CircuitBreaker
Every method is one step, because it runs under a lock without awaiting. The
clock is reduced to two choices: whether the recovery window has passed
(`waited`) and how many of the oldest outcomes have left the rolling window.
`failures` stops counting at the threshold, as the code only compares it. The
methods may be called in any order, since `record_*` is not tied to the `allow`
it answers. The rolling window is one for all states: closing the circuit sets
the count back and leaves the window as it is, and only `reset` empties it.
`_opened_at` starts as 0.0 and `waited` starts TRUE; `reset` leaves both as they
are.

### PolicyExecutor
`loop` is the task the event loop is running, or `Idle`. A stretch of `execute`
that does not suspend is a series of steps during which `loop` names the task,
so only time (`Expire`, `Recover`, `Slide`) can come in between. `call[t]` holds
`attempts_done`, the client's `attempt_counter`, whether the deadline has passed
and the last event with an attempt number. The three places where a deadline is
looked at are `DeadlineAtTop`, `DeadlineInCall` and `RetryTooLate`. `Escape` is
a cancellation, or an exception that is no `CallFailure`, at either await past
the gate: the breaker is told nothing. Events of kind `late` are the `failed` of
an attempt that `_call` refused to start.

### DependencyService
The gate's variables are those of `ConcurrencyLimiter`, and `work[t]` is the
await at which a call uses its slot. A step is again the code between two
awaits, and that makes the difference to the gate alone: a call of a service
without a processing model that meets no stall takes the slot, ends and gives it
back in a single stretch (`PassThrough`), and `_update_saturation` runs with the
counters in between. `window` is what the clock says of the injectors;
`_evaluate` and `_fault_window_active` read it one after the other (`MeetFaults`).

### JobQueue
`queue` and `processing` are the Redis lists, oldest and newest entry first
respectively; `job[j]` is the hash, with `claimed_at` reduced to *never*,
*fresh* or *aged* (older than `max_age_seconds`). Every command that changes
something or whose answer is used later is a step, and so is every pipeline.
`requeue_stuck_jobs` reads the list (`BeginScan`), then for each id the hash
(`ReadPayload`, which keeps of it when it was claimed) and the status
(`JudgeItem`); the entry of a job that was cancelled by then is dropped with a
third command (`DropItem`), and the stuck ids are pushed in one pipeline
(`Requeue`). Another worker, or the handlers, may come in between any two.
`up` are the workers that are deployed; one instance has both deployments of one
worker, which may crash between any two commands, and of two.

### ControlPlane
`exp` and `run[j]` are the two status columns. `CreateInsert`/`RerunRead`,
`EnqueueRuns` and `CommitQueued` are the handlers that create and re-run;
`CancelRead` and `CancelCommit` are the two halves of `request_cancel`, which
computes the new status from what it read. `plan[w]` is what the worker's
transaction is about to write. The worker's own session keeps the `RUNNING` it
wrote (`expire_on_commit=False`), so its guard on the run's status never stops
it. If the worker is faster than the API's commit, the experiment's row does not
exist and the insert of the run fails (`Start` with `exp = "absent"`).

### LocalRuntime
No handler awaits, so each is a step; between them the tasks of the executions
run. `jobs[i]` remembers which execution wrote it (`by`), which the code does
not, and `tokens[i]` whose token is kept. `run_async` is reduced to where it
looks at its token: `Stop` at a check that finds it set, `LastLook` for the last
check before the end, after which a request is too late.

### ExperimentRun
`drive` is the call of `_drive` that is under way (warm-up, measured phase or
none) and `step` how far it is; `client[c]` is a client loop's place with its
request, `issued` the drive's request counter, `over` that its time has passed.
A step is the code between two awaits, and the token may be set between any two,
as another thread sets it. `rows` are the collector's rows of the current
repetition, which both phases share, and `recording` its gate. `runs` keeps of
each appended repetition what the properties need: whether a loop was stopped by
the token (`whole`), how many requests have a start and no end (`loose`), and
whether a row stems from the warm-up (`warm`). `Cancelled` is `CancelledError`
reaching `run_async`, which drops the repetition it interrupts. In the closed
loop the error ends a client task and stays there: `gather` collects it as a
result (`ClientTurn`, *stopped*). An arrival process awaits each request before
it looks at its time again, so it is modelled as a single loop that raises. The
gaps between arrivals are durations and left out; what a request does is left to
`PolicyExecutor`, and here it returns or raises whenever it likes (`Answer`).

### ArtifactStore
A file holds the number of the call of `write_artifacts` that wrote it, the
configuration the repetitions asked for instead (`Content`), or a file is torn:
opening truncates (`OpenFile`), writing fills (`FillFile`), and the program may
fail, be interrupted or be killed in between. `reps[v]` is how many repetitions
call `v` wrote, so `Tracked(v)` is what its manifest lists. `configuration.yaml`
differs between two calls for an item only where `reproduce --repetitions` does
(`experiments/reproduce.py:52`); a configuration that an unfinished call left
does not verify under the manifest of one with other repetitions, and does under
one with the same. A directory belongs to an item, a condition or a benchmark,
and keeps what earlier invocations left. The API's route is three steps, as it
reads the manifest (`Ask`), the file for its hash (`CompareHash`) and the file
again (`Serve`).

At its end an invocation writes the manifest of its verdicts (`Finalize`), and
this too may fail or be cut: then it has ended *unpublished*, and what is left is
the manifest of an earlier invocation or a torn one. `matrix` writes it when it is
interrupted as well and suppresses an exception of that write
(`cli/app.py:542`). Nothing reads it while it is written, so this is one step.

### RunRecords, RecoveryDetection, MatrixAnalysis, Comparison, Configuration
What these parts of the code do is compute. Their states are the inputs, which
grow by one step of what produces them (a request answered, a bucket, a
condition run, an experiment read, an edit of a specification), so that TLC
enumerates the inputs and an action property can compare the outputs on two
inputs of which one continues the other. The computation itself is the operators
(`Timeline`, `Report`, `MainEffect`, `Effects`, `Resolved`, `CallOrder`...),
which are checked against references written differently.

Numbers are exact: recovery compares fractions as products, means of the design
are multiples of `1 / Scale`, effect sizes are known by their sign. `Scale` is a
multiple of every count a sum is divided by (`ScaleAssumption`,
`ComparisonAssumption`; 10080 for the instance), so no division rounds; the code's
means are floats. An `inf` (a run that did not recover) is a number no value is,
a `None` is no number. A list of values is filtered by its positions, so the values
of a group are a function from the runs of its conditions.
`Index` truncates as Python's `int()` does and `BucketOf` counts from the end as
a Python list does.

`RunRecords` follows a request from the moment it is sent, before the gate:
it waits there, is admitted (`Admit`), which may move an open circuit to
half-open, or is turned away without an attempt (`Reject`); after each attempt the
circuit may move (`AfterSuccess`, `AfterFailure`), which `on_transition` records
before the attempt is; and between two attempts it sleeps (`RetryLater`, `Wake`).
The deadline counts from the sending and is looked at where the code does so, but
nothing makes the loop punctual: a sleeper may wake late and an attempt may be
cut late. How full the gate is and what the circuit counts belong to other
modules and are left open.

`Configuration` has three sections of a policy, one for each way the code treats
them: `retry`, which validation turns into nothing when it is not enabled;
`circuit_breaker`, which stands for `concurrency` too, as both are built from
whatever their sections say; and `backoff`, which is never nothing and whose base
must not be above its maximum, where either may come from an override and the
other from the default. `Accepted` has the checks that span fields: the graph, the
names that failures and overrides target, the warm-up against the duration, and
the policies that result from merging. `timeout` is left out: it is merged like
`circuit_breaker`, but its fields are optional themselves.

## 3. Runs

| Run | Instance | Shows |
|---|---|---|
| `dependency` | 5 calls, 2 slots, waiting room of 2, faults | the gate's counters and limits exact; no stranded waiter; no rejection after queueing; saturation reported as it is; slots follow the work; implements `AdmissionControl`, liveness included |
| `breaker` | threshold 2, 2 probes, rolling window of at most 5 outcomes, throughput 3 | a half-open circuit has 1..2 probes out; evidence is acted on; what the window keeps from earlier states opens no closed circuit by itself |
| `executor` | 3 calls, 2 slots, waiting room of 1, threshold 2, 2 probes, 2 attempts, budget 1, deadlines and escapes | no path leaks a slot; no first attempt through an open circuit; events in order |
| `executor_progress` | 4 calls, 2 slots, waiting room of 1, threshold and probes 1, 2 attempts; no deadlines, escapes or budget | probe slots have owners; a half-open circuit is decided; slots come back |
| `job_queue` | 2 jobs, 3 enqueues; one worker with 2 crashes, or two workers | one entry per live job; no job lost; claimed jobs finish |
| `control_plane` | 2 runs, 1 worker, 2 API processes, 3 requests, 2 enqueues, 1 crash | a completed experiment has no unfinished row; the queue is never ahead of the database |
| `experiment` | both workload types, 2 clients, warm-up, 2 repetitions, 4 requests per drive | the outcome matches the repetitions kept; no warm-up row is kept; an arrival process hands in whole repetitions; a closed loop ends whatever the dependency does |
| `local_runtime` | 2 ids, 3 executions, cancellations with and without a reason | live statuses are backed, outcomes belong, cancellations end |
| `artifacts` | 2 items, up to 2 repetitions, 2 invocations of either program | manifests, verdicts and answers agree with the disk |
| `algorithms` | see below | the computations agree with their references |
| `completed_overwritten` | 2 runs, 1 request | violation of `CompletedIsFinal` |
| `repetition_cut_short` | 1 client in a closed loop, 1 repetition | violation of `PartialNeverComplete` |

Bounds, and why they are enough. Five callers for two slots and a waiting room
of two let both slots be held, the room be full, one waiter be woken, and a
newcomer either overtake or be rejected at the same moment. Three calls for two
slots let a call pass the gate, another be queued and a third report a stale
outcome; two attempts give a first, a retry and an exhausted count; a budget of
one is used up by the other call; the progress run has a fourth call, so that
one is rejected while another waits. With two probes, one can be out while the
other reports. Three enqueues of two jobs let one be queued again after it
finished, and two crashes let a job be lost once while held and once while it is
being recovered. Three requests in two API processes let a creation be followed
by a cancellation and a re-run that overlap. Four requests per drive are more
than the two clients; a warm-up and two repetitions let rows or a closed gate be
carried from one phase or repetition into the next. Three executions let one id
be run again while a second id runs. Two invocations with one or two repetitions
let a shorter result be written over a longer one and the reverse, with an item
skipped in either.

The algorithms: three services with up to two dependencies, the same one twice
perhaps, and three edits (cycles of length two and three, diamonds, forward
references, an override beside a default, a warm-up as long as the run, a base
of the backoff above a maximum from elsewhere); a 2x2 design with a level that
is `None`, a section the base lacks, and levels whose texts sort otherwise than
they are written, two repetitions with two values or no recovery; two
experiments with up to three repetitions; two clients with two requests of two
attempts in four ticks with deadline 3 and buckets of 2, so that a deadline may
cut a sleep, pass at the gate or be noticed a tick late; series of up to six
buckets with a baseline window of 1 and a stability window of 2, so that a
recovery may be incomplete, lost and complete, starting at 0 or after the
baseline window. The clients are interchangeable (`MCSymmetry`): no record says
which of them sent a request, and no property of the run is about liveness.

`MaxRecent`, `MaxEnqueues`, `MaxCrashes`, `MaxRequests`, `MaxIssues`,
`Executions`, `MaxReps`, `MaxInvocations`, `MaxEdits`, `MaxDepends`,
`MaxExperiments`, `MaxRuns`, `MaxTime` and `MaxBuckets` are bounds of the models
and not of the code. `MaxIssues` stops a loop from issuing; a client may still
be stopped, and a drive still ends by its time. `MaxEnqueues` and `MaxRequests`
never disable a handler that is already past its first check in a run where
liveness is asked: each of those needs one enqueue. Deadlock is not checked
where a behaviour really ends or runs into such a bound: `local_runtime`,
`artifacts` and `algorithms`.

Workers: the deployment (`deployment/kubernetes/worker-deployment.yaml`,
`replicas: 1`) runs one worker, and `OneEntryPerJob`, `CompletedMeansRunsDone`
and `QueueNeverAheadOfDatabase` are stated for it. With two, a run longer than
`max_age_seconds` is requeued while it is still running; `NeverLost` and
`ClaimedJobsFinish` say what survives that. Two workers of which one crashes are
left out: the slower one can complete the entry of the one that died, and the job
is lost.

## 4. Fairness

* Gate and service: weak fairness of a woken and of a cancelled caller, because
  the event loop runs every ready callback. None for leaving: the gate does not
  make its callers leave. `AdmissionControl` accordingly promises only that a
  slot does not stay free for ever while callers wait.
* Executor: strong fairness for what a task does once it is ready. A task loses
  its turn whenever another runs, so weak fairness would allow it never to be
  run; asyncio's ready queue is first in, first out. Operations return because
  each has a read timeout. Nothing makes a caller start, time pass or a call be
  cancelled.
* Queue and control plane: weak fairness of the worker's loop (it is restarted
  after a crash), of handlers, of the poller and of the passing of time; none
  for requests and crashes.
* Local runtime: weak fairness of each scheduled execution, as the event loop
  runs it and runs are finite; none for requests and failures.
* Experiment: weak fairness of the runner and of each loop's turn, for the event
  loop runs what is ready and time passes; none for answers, which may never
  come, and none for the cancellation.
* The artifact store and the computations have no fairness; nothing is claimed
  of their progress.

## 5. Divergences

Two runs expect a violation and print its trace.

1. `controlplane/repositories.py:14` and `worker.py:9` say terminal states are
   never overwritten. `worker.py:244` completes an experiment when all run rows
   *that exist* are complete, so the first of two runs completes it, and the
   start of the second sets `RUNNING` (`worker.py:182`). Run
   `completed_overwritten`.
2. `core/cancellation.py:22` says partial repetitions are never silently treated
   as complete. `gather(return_exceptions=True)` (`workloads/generator.py:97`)
   drops the `CancelledError` of the client tasks, so a closed-loop phase during
   which the token was set runs to the end of its time and its repetition is
   appended; if it was the last one, the experiment ends completed. Run
   `repetition_cut_short`.

Six more claims of comments and documents are stated as definitions that the
code refutes. No configuration of the project checks them; naming one as
`PROPERTY` or `INVARIANT` with the constants given shows a trace.

3. `CancelledIsFinal` of `ControlPlane` (one job, one API process, two requests):
   `repositories.py:13` says a cancellation that wins the race cancels the run.
   One that commits between the check (`worker.py:105`) and the start
   transaction (`worker.py:182`) is overwritten with `RUNNING`.
4. `CancellationCompletes` of `ControlPlane` (two jobs, two requests):
   `repositories.py:165` says the worker completes a cancellation that finds the
   experiment running. If the run finishes first and another run is still
   queued, that one is skipped (`worker.py:139`), the run alone is marked, and
   the experiment stays `CANCEL_REQUESTED`; neither a re-run nor a second
   request changes it.
5. `ArrivalsIndependent` of `ExperimentRun` (an arrival process, two requests):
   `docs/workloads.md:20` says arrivals are independent of completions. The
   arrival loop awaits each request (`workloads/generator.py:76`), so no arrival
   happens while an answer is outstanding.
6. `TerminalIsFinal` of `LocalRuntime` (the constants of its run):
   `core/cancellation.py:15` says terminal states are immutable. When an id is
   run again while it runs, the older execution stores its outcome over the
   newer one's.
7. `RecoveryHasWindow` of `RecoveryDetection` (the constants of
   `MCAlgorithms.cfg`, `RecoverySpec`): `docs/statistics.md:114` says all evaluated
   gates must hold for the continuous stability window W, and
   `analysis/recovery.py:3` that they must hold for the stability window.
   `_first_sustained_recovery` (`recovery.py:140`) and the latency gate (`:173`) look
   at the buckets there are, so the window is cut at the end of the series and a
   single good bucket there is reported as a recovery, with none of W observed.
   What does hold of a recovery whose window is not over is
   `EarlyRecoveryProvisional`, and of one whose window is over `VerdictsStand`.
8. `SustainedIsRecovered` of `RecoveryDetection` (the same constants): the same
   sentence read the other way. `_latency_recovery_sustained`
   (`analysis/recovery.py:177`) looks at every bucket from the degradation on, so a
   run that was slow for one bucket after it degraded is never reported as
   recovered, though both gates hold for a whole window later.

More behaviours contradict no document, and are hazards with a note. A probe
slot is lost when a deadline passes at the top of the attempt loop or when the
probing call is cancelled; with two probes and steady traffic a half-open circuit
may stay so although every probe succeeds. A job whose worker dies between its
first `BRPOPLPUSH` and the write of `claimed_at` is never found again, and with
two workers and a crash a job can be lost. A disabled retry is normalised to
nothing before an override is merged onto it; `enabled: false` of the other
sections does not keep them from being built (`core/builders.py:57`). A factor
nested in another overwrites it silently. Two groups that do not vary have effect
size 0 whatever their means (`analysis/statistics.py:123`). Rows a bucket or more
before the first answer land at the end of the timeline or raise. `HalfOpenResolves`,
`ProbeSlotsOwned`, `ClaimedJobsFinish`, `ServicesAsConfigured`,
`ConditionsAsDesigned` and `TimelineAddsUp` are stated for the cases that exclude
these, and say so.

## 6. Theorems

The proof modules are checked by TLAPS, for every value of the constants that
meets the named assumptions; nothing else is assumed. The assumptions are those
of the modules: numbers that the code's validation makes positive, distinct
model values, finite sets of callers and workers, and well-formed data (the paths
and trees of a design, `PathAssumption`). Every invariant and action property that
a run checks is the statement of a theorem; what is left to TLC is liveness.

`ConcurrencyLimiter_proofs`, from `LimiterAssumption`. `CountersExact` is not
inductive: that `_waiting` is exact after `notify` needs that the callers in the
condition's queue are exactly the ones in place *queued*, each once. The
invariant `IInv` adds this (`ParkedOK`), writes the counts as cardinalities with
their limits (`Counted`), and says that free slots are matched by callers on
their way (`Served`, under `Renotify`). The lemmas `Num...` say how one caller's
move changes the size of the set at each place; `RemoveAtFacts` and
`NotifyFacts` say what the two list operations leave behind. From them follow
`TypeCorrect`, `CountersAreExact`, `NoWakeupIsLost` and the action property
`QueuedIsNotRejected`: a woken caller cannot find the room full because it has
just left the count it compares. `RefinesAdmissionControl` maps every step to
one of the abstract gate or to a stutter; the step that rejects needs the
invariant, because the code counts where the abstract gate has a set.

`Calls_proofs` is about the calls that share the gate: one module for the breaker,
the executor and the service.

* The breaker alone, from `BreakerAssumption`. The invariant `BreakerInv` is the
  conjunction of the type, `ProbesCounted` and `NoIgnoredEvidence`; the step for
  `RecordFailure` needs the type of the failure count to know that a count below
  the threshold was not yet evidence (`ProbesAreCounted`, `EvidenceIsActedOn`).
  That a closed circuit opens on fresh failures alone (`OnlyFreshFailuresOpen`) needs
  in addition that the failures in a row are the newest outcomes of the window, as
  far as it reaches (`RowInWindow`): it starts anew with the success that closes the
  circuit, so whatever the window still holds from before is older.
* The executor. Each of its steps is a step of the gate, of the breaker, or of
  neither (`GateStep`, `CircuitStep`), so `IInv` and `BreakerInv` carry over
  (`PartsKeepTheirPromises`), and so does the refinement of the abstract gate
  (`CallsAreAdmitted`). `ExecutorInv` adds what the locals of a call have to do
  with each other: at each stage the two attempt counters and the last event
  determine one another (`Consistent`), a call that is between two awaits is the
  one the loop runs (`OneRuns`), and one that has not attempted anything yet
  found the circuit not open (`NewCallsFree`; only the running task can change
  the breaker before it attempts). `SlotsFollowCalls`, `NewCallsAreHeldBack` and
  `EventsAreOrdered` follow.
* Who owns the probe slots. `ProbeSlotsOwned` counts the calls that are at their
  first attempt, and becomes inductive with the fact that no call is past its
  deadline (`SlotsOwned`). A call that is let into a half-open circuit joins the
  owners in the step that counts it (`AdmitOwns`); one that reports leaves them
  in the step that frees a slot or leaves the half-open state (`OutcomeFrees`);
  every other step, retries included, leaves both sides alone (`QuietStep`).
  `ProbeSlotsHaveOwners` has the hypotheses of the property in its statement:
  with a deadline or a cancellation a slot can be lost (section 5).
* The service. The gate's invariant survives the stretches that only the service
  has, the slot taken and given back at once among them, and the flag is
  recomputed in every stretch that changes the count (`SaturationIsTrue`,
  `SlotsFollowWork`, `ServiceCounters`). Of the service as it runs it also proves
  what the gate alone promises: `ServiceStrandsNobody` (under `Renotify`),
  `ServiceKeepsTheQueued`, and, step by step, `ServiceRefinesAdmissionControl`. A
  caller that takes a slot and gives it back in one stretch is never seen to hold
  it; for the abstract gate it abandons its wait, or nothing has happened
  (`PassRefines`).

`ControlPlane_proofs` has two parts.

* The queue, from `JobQueueAssumption`. `Occurrences` counts the entries of a job
  in a list; the lemmas of section 1 say what each list operation does to the
  count, `LREM` of a whole list of ids included (`OccurrencesLremAll`, by
  induction on the list). `NeverLost` alone is not inductive: a crash throws away
  what the worker had in its hands. `QueueInv` adds what a sole worker knows
  (`Sole`): the job it holds has an entry in the processing list, what its scan
  found does too, counted with multiplicity (`ScanFits`), and every unfinished
  job is in a list. Nothing of this holds with two workers, where nothing of it
  is needed, since only a sole worker may die. What is needed there is that an entry
  of the processing list is in somebody's hands (`Handed`): one worker drops an
  entry because its job was cancelled when it looked, and by then the job may have
  been queued again and popped by the other, who holds it. `Exact`
  says for a sole worker that the entries are exactly one. From them `QueueTypes`,
  `EachJobOnce` and `NoJobIsLost`. `ControlPlaneLosesNoJob` carries `QueueInv`
  over to the control plane, whose workers take the queue's steps among others;
  what that needs of the rest is that a worker reports only an outcome it has
  decided (`ReportsReady`).
* Database and queue, for a deployment of one worker (`OneWorker`) and any number
  of runs, handlers, requests and crashes. The lists of the queue play no part.
  `ControlInv` says of each phase of the worker what the rows look like: a job it
  holds is unfinished in the queue (`HeldUnfinished`), a run goes on only in an
  experiment that exists and is not completed (`RunningExperiment`), the plan it
  is about to commit is still right about the rows it was made from (`PlanSound`:
  handlers write the experiment's row but never a run's, and never to
  `COMPLETED`), and what it reports is what it committed (`ReportSound`). From it
  `CompletedExperiments` and `QueueFollowsDatabase`. With two workers `PlanSound`
  fails: another commit can come between the decision and its commit.

`LocalRuntime_proofs`, from `LocalAssumption`: the two invariants of the run with
the type, and that tokens and jobs have executions behind them
(`LiveStatusIsBacked`, `OutcomesBelong`).

`ExperimentRun_proofs`, from `RunAssumption`. That no warm-up row is kept is a
statement about past repetitions; what makes it inductive is `GateMatchesDrive`
(while the warm-up drives the gate is closed, and a request in flight was issued
by the drive under way, so the row of its end belongs to the phase of its start)
with `RowsMeasured`. `OutcomeMatchesRuns` needs `DriveIsNeeded`: a drive runs
only while a repetition is missing, so a cancellation in it leaves one missing.
`ArrivalRepetitionsWhole` needs `ArrivalsUnstopped`. From them follow
`RunTypeCorrect`, `OutcomeIsHonest`, `GateKeepsWarmUpOut` and
`ArrivalsHandInWhole`, with and without a warm-up.

`ArtifactStore_proofs`, from `StoreAssumption`. `ManifestNeverAhead` holds
because the manifest is written last; its invariant `DiskInv` says of the call in
progress that every file it has to write is written or still to come, the
manifest after all others (`WritingDone`), and that nothing on disk is of a later
call (`NothingAhead`). `RequestInv` says what a request may still rely on
(`AnswersFollow`), `VerdictInv` what an invocation has recorded of the items it
has passed (`VerdictsAreTrue`): a later write only touches the item the loop is
at.

`Analysis_proofs` is about what the analysis computes.

* Recovery, from `RecoveryAssumption`, for series of any length and any positive
  windows. The report of a series is a matter of definitions and least elements:
  `DegradedIsLow` and `RecoveredIsFirst` say what the two scans find. Both theorems
  compare the reports of a series and of the series with one bucket more. Nothing
  before the new bucket changes (`BaselineStays`, `DegradationStays`), and a window
  gains the new bucket or, if it was complete, nothing (`WindowGrows`). So a
  recovery whose window was complete stays the first one (`RecoveryStays`), which
  gives `VerdictsAreFinal`. Where the window was not complete the new bucket is in
  the windows of all candidates from the recovery on, so it confirms them all or
  none, and no earlier candidate can pass that did not before
  (`RecoveryIsProvisional`); that is `EarlyRecoveries`.
* Accounts, from `RecordsAssumption`. `ResidualNonNegative` speaks of the rows of
  an answered request, which were written over its whole life by steps that
  overlap with those of others. `AccountInv` says for each request in flight that
  its rows account for no more than the time up to its present attempt, to its
  arrival at the gate, or to the end of the sleep it is in (`FlightsAccounted`), that no row has the id of a
  request yet to come (`NothingBeforeIssue`), and for an answered one what the
  property says (`AnsweredAccounted`). A retry enters its delay before the delay
  has passed, so the account is ahead of the clock while the request sleeps, and
  meets it when it wakes; a wait at the gate, a late wake-up and a late end only
  lengthen the request (`NextAttemptKeeps`, `LastAttemptKeeps`, `RejectKeeps`).
* The timeline, from `RecordsAssumption`. `TimelinesAddUp` needs no more of the
  records than their type and the property's own proviso. `BucketIs` resolves the
  truncation, the cap and the index from the end into one number, `BucketOfTime`
  gives its interval by the rules of division, `AnswerBucket` compares it with
  the other bucketing. Since each row has one bucket, `PartsAddUp` (a sum of the
  sizes of the parts is the size of the whole, proved for `SumFunction` over any
  finite set) makes the counts of the buckets those of the summary.
* Comparisons, from `MatrixAssumption` and `ComparisonAssumption`, for experiments of
  any lengths and names. The invariant is the type of what was read. `EffectIs`
  and `PairedIs` say what each view counts: the runs that recovered among the first
  `n`, and what two such sets have in common, so `LeftOf` bounds one by the other by
  inclusion and exclusion. Both effects are signs of one sum (`DifferencesAre`), to
  which the mean is in an exact ratio (`MeanExact`). `TableRows`: when there are as
  many rows as experiments no two share a name, and each row is its experiment. From
  these `EffectsAlwaysAgree`.
* Effects, from `MatrixAssumption` and `ScaleAssumption`, for any factors with any
  levels. The invariant is the type of the observations. `GroupsAre`: where no two
  levels of a factor share a text, there are as many names as levels, so a name
  belongs to one level and the groups partition the conditions; then the runs of the
  groups add up (`GroupsCount`). A group's mean is a multiple of the number of means
  (`MeanIs`), so the grand mean is exact and what is left of the means cancels
  (`EffectsCancel`); `MeanBetween` bounds a mean by its values. From these
  `EffectsAlwaysAccount`. The provisos on `Scale` say that means are exact and hold for
  suitable `Scale` whatever the factors are.
* Designs, from `MatrixAssumption` and `PathAssumption`, for any base, any factors
  with any levels. `PathAssumption` says that paths are sequences of keys and that
  two levels of a factor with one tree have one canonical form. The code justifies
  both: paths are split at dots (`analysis/design.py`, `_set_path`), and both the tree
  and `json.dumps(level)` are made of the level's value alone. Nothing is assumed of
  which paths lie inside which; the property has the proviso (`Disjoint`) itself. An
  assignment puts the level at and below its path and keeps what is neither above nor
  below it (`SetPathIs`); the path of another factor is apart from all of that
  (`ApartFromBelow`, from the two facts on prefixes `BelowTransitive` and
  `BelowBoth`), so by induction over the assignments (`CourseExists`,
  `SpecDesigned`) the specification has the levels of all factors at once. It tells
  them: equal specifications have equal trees, hence equal assignments
  (`SpecsDiffer`), which `build_design()` has refused. The invariant is that refusal
  and how far the loop is. From these `ConditionsAlwaysAsDesigned`. The trees are
  those handed to the schema, which may still coerce values that it reads.
* Views, from `MatrixAssumption` and `ScaleAssumption`, for every design with four
  conditions, any number of repetitions and any values. That a cell is one condition
  is arithmetic: the numbers of combinations from each factor on divide each other
  (`CombosDivide`), a binary factor has at least two levels (`BinaryLevels`), and four
  is made of two such numbers in one way (`FourIsTwoByTwo`); so the two factors have
  two levels each, the others one, and the level of a condition is a binary digit of
  its index (`TwoByTwo`, `LevelByDigit`). `CellIs` then gives each cell its corner,
  and `SquareExists` the same four conditions whichever factor comes first; the
  interactions are two differences of the same four means (`InteractionsSame`). The
  group of a level is two conditions, the sum over it that of the two (`SumOfTwo`),
  and since means are exact multiples its mean is their average (`GroupOfTwo`); the
  grand mean cancels in the difference (`EffectsAverage`). Beside the type, the
  invariant says that a condition has all its repetitions or none
  (`ObservationLists`). From these `ViewsAlwaysAgree`.
* Sums. That a sum over a finite set does not depend on the order in which
  `SumFunctionOnSet` chooses its members (`SumRemove`) is proved from a smallest set
  on which it would; that sums are linear and bounded follows member by member.

`Configuration_proofs`, from `ConfigurationAssumption`, for any finite set of names
and any specification written with them.

* The graph. `visit` and `place` call themselves; the model makes each a function of
  how deep it may still go, and part of the proof is that it never needs to go
  deeper: a walk has one more service entered at each level (`OneVisit`), and what
  is below a service is less than what is below the one that depends on it
  (`LessBelow`). The contract of a visit (`After`) says that the services it has left
  behind are a closed set none of which reaches itself; when a service is left, what
  it depends on has been left and the service itself has not, so it does not reach
  itself. A walk that raises is inside a cycle because every service it is inside of
  reaches the one it is at (`Inside`). The contract of placing (`Ordered`) keeps the
  order sound and bounds what is placed, so that nothing is placed twice. Loops over
  the declared names and over dependencies are proved once (`LoopOfVisits`,
  `LoopOfPlacings`) and used at every depth. From them `GraphsAreDecided`.
* Policies and routes. `SectionsAsWritten` goes through what an override may say of a
  section; the case without an override of it needs that a validated default is not
  changed by being validated again (`FullIsFilled`, `DefaultsAre`).
  `ServicesAreAsConfigured` adds where failures and links go, and that the backoff of a
  service that is called can be built: it is the policy after the merge that is
  validated, not its parts.

Induction over data. The library's induction rules are stated for a predicate,
which the provers cannot be given; the proofs use the set of the numbers that
have a property instead (`InductiveSet`, from the least element of a set of
naturals). A fold of the community modules is a recursive function on finite
sets: that it exists is proved from the well-foundedness of the subsets of a
finite set (`RemovesExists`, `SumsExist`, `IteratesExist`, `FoldingExists`, `PutsExist`), and then that folding over one row
more adds one row (`LremAllAppend`, `SumForAppend`).

## 7. Only model-checked

* Liveness (the fairness part of `ImplementsAdmissionControl`,
  `HalfOpenResolves`, `SlotsComeBack`, `ClaimedJobsFinish`, `CancelRequestsEnd`,
  `ClosedLoopEnds`) is outside the prover's reach.
* The other properties are theorems of section 6; the runs show on small instances
  that the theorems are about something, with a mutant of the code that breaks each.

## 8. Not modelled

* Random draws, distributions, clocks and arrival shapes decide durations, which
  the models leave open; likewise backoff and jitter, of which `RunRecords` takes
  any delay.
* Confidence intervals, tests, bootstrap, percentiles and scores are arithmetic
  on floating-point numbers.
* Fault injection is modelled by what a fault does to a call; which of several
  injectors strikes is left open.
* The limits of single fields of a specification are declared to the validation
  library and checked there.
* Reports, catalogs, provenance, the HTML dashboard, the command line apart from
  `matrix`, `reproduce` and `compare`, authentication and ownership: text, pure
  input and output, or reads.
* Metrics records, counters of rejections and the `TimeoutTriggered` event are
  left out of the modelled components.
* In the worker, database errors other than the missing parent row; a failing
  commit is covered by `RunFailed` or by a crash at that point. The handler for
  `CancelledError` in `worker.py:253` is not reached, since the runner returns a
  result marked as cancelled. The bundles it writes are those of `ArtifactStore`
  without the verification.
* The chain of calls of one request through several services: each call is one of
  `PolicyExecutor`, and `Configuration` has the order.
* The manifest of an invocation is written in one step, as nothing reads it before
  the program ends; a bundle's files are opened and filled one by one.

## 9. Plan

Done, in this order: the gate and its abstract specification, the breaker, the
executor that composes them, the queue, the control plane, the experiment, the
dependency service, the local runtime, the artifact store, the computations; the
theorems of section 6.

What would come next:

1. `ExperimentRun` composed with `PolicyExecutor`: the probe that is cancelled at
   the end of the warm-up, and the circuit with which the measured phase starts.
2. `ControlPlane` with two workers: what remains of `CompletedMeansRunsDone` when
   a long run is redelivered while its first worker commits.
3. A request that calls several services, where the failure of one meets the
   deadline of the whole.

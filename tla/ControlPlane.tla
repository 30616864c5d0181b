------------------------------ MODULE ControlPlane ------------------------------
(***************************************************************************)
(* The server-mode control plane: API processes (api/app.py), the database *)
(* (controlplane/repositories.py), the Redis queue (JobQueue) and workers  *)
(* with their cancellation poller (controlplane/worker.py), for one        *)
(* experiment whose runs are the jobs of the queue.                        *)
(*                                                                         *)
(* A handler or worker that reads a row and writes it back does so in two  *)
(* steps, and what others commit in between is overwritten: the database   *)
(* is READ COMMITTED, rows carry no version and updates no condition on    *)
(* the status.  Statements whose rows are locked from the first write to   *)
(* the commit are one step.                                                *)
(***************************************************************************)
EXTENDS JobQueue

CONSTANTS Apis,        \* API processes
          MaxRequests  \* bound: handlers that get past their first check

VARIABLES exp,      \* experiments.status, "absent" before the row is committed
          run,      \* run[j]: runs.status, "absent" before the row is committed
          api,      \* api[a]: the handler a executes, and the status it read
          phase,    \* phase[w]: how far _process_job() of w has come
          token,    \* token[w]: the CancellationToken of w's job is set
          plan,     \* plan[w]: what w is about to commit and to report
          requests

dbVars == <<exp, run>>
localVars == <<api, phase, token, plan, requests>>
controlVars == <<jobQueueVars, dbVars, localVars>>

ExpStatus == {"absent", "CREATED", "QUEUED", "RUNNING", "CANCEL_REQUESTED"} \union Finished
RunStatus == {"absent", "RUNNING"} \union Finished

Keep == "keep"  \* a plan leaves the row as it is

NoPlan == [run |-> Keep, exp |-> Keep, report |-> "none"]

Handlers == {"idle", "inserted", "enqueued", "rerunning", "cancelling"}

\* phase: "idle", "check" (before the start), "skip", "start", "run", and then
\* "commit" and "report" of a plan.
ControlPlaneTypeOK ==
  /\ JobQueueTypeOK
  /\ exp \in ExpStatus
  /\ run \in [Jobs -> RunStatus]
  /\ api \in [Apis -> [at : Handlers, seen : ExpStatus]]
  /\ phase \in [Workers -> {"idle", "check", "skip", "start", "run", "commit", "report"}]
  /\ token \in [Workers -> BOOLEAN]
  /\ \A w \in Workers :
       /\ plan[w].run \in RunStatus \union {Keep}
       /\ plan[w].exp \in ExpStatus \union {Keep}
       /\ plan[w].report \in Finished \union {"none"}
  /\ requests \in 0..MaxRequests

ApiStart == [at |-> "idle", seen |-> "absent"]

ControlPlaneInit ==
  /\ JobQueueInit
  /\ exp = "absent"
  /\ run = [j \in Jobs |-> "absent"]
  /\ api = [a \in Apis |-> ApiStart]
  /\ phase = [w \in Workers |-> "idle"]
  /\ token = [w \in Workers |-> FALSE]
  /\ plan = [w \in Workers |-> NoPlan]
  /\ requests = 0

-------------------------------------------------------------------------------
(* API handlers                                                            *)

\* One more handler starts, with the status it has read.
Handle(a, at) ==
  /\ api[a].at = "idle" /\ requests < MaxRequests
  /\ requests' = requests + 1
  /\ api' = [api EXCEPT ![a] = [at |-> at, seen |-> exp]]
  /\ UNCHANGED <<jobQueueVars, dbVars, phase, token, plan>>

\* create_experiment(): the row is inserted and not yet committed; a second insert
\* of the same key waits for the first and fails.
CreateInsert(a) ==
  /\ exp = "absent"
  /\ \A b \in Apis : api[b].at \notin {"inserted", "enqueued"}
  /\ Handle(a, "inserted")

\* run_experiment(): the status allows another run.
RerunRead(a) ==
  /\ exp \in {"CREATED"} \union Finished
  /\ Handle(a, "rerunning")

\* Both put a job for every run on the queue before they commit.
EnqueueRuns(a) ==
  /\ api[a].at \in {"inserted", "rerunning"}
  /\ Enqueue(SetToSeq(Jobs))
  /\ api' = [api EXCEPT ![a].at = "enqueued"]
  /\ UNCHANGED <<dbVars, phase, token, plan, requests>>

\* They set the status to QUEUED, whatever it is by now, and commit.
CommitQueued(a) ==
  /\ api[a].at = "enqueued"
  /\ exp' = "QUEUED"
  /\ api' = [api EXCEPT ![a] = ApiStart]
  /\ UNCHANGED <<jobQueueVars, run, phase, token, plan, requests>>

\* request_cancel(): the status read is not terminal and no request is pending.
CancelRead(a) ==
  /\ exp \in {"CREATED", "QUEUED", "RUNNING"}
  /\ Handle(a, "cancelling")

\* It is overwritten according to what was read.
CancelCommit(a) ==
  /\ api[a].at = "cancelling"
  /\ exp' = IF api[a].seen = "RUNNING" THEN "CANCEL_REQUESTED" ELSE "CANCELLED"
  /\ api' = [api EXCEPT ![a] = ApiStart]
  /\ UNCHANGED <<jobQueueVars, run, phase, token, plan, requests>>

-------------------------------------------------------------------------------
(* Workers                                                                 *)

Enter(w, p) == phase' = [phase EXCEPT ![w] = p]

\* The queue's part of the loop, up to a claimed job.
WorkerLoop(w) ==
  /\ phase[w] = "idle" /\ worker[w].at # "holding"
  /\ QueueStep(w)
  /\ phase' = IF worker'[w].at = "holding" THEN [phase EXCEPT ![w] = "check"] ELSE phase
  /\ UNCHANGED <<dbVars, api, token, plan, requests>>

\* _is_cancelled_before_start().
CheckBeforeStart(w) ==
  /\ phase[w] = "check"
  /\ IF exp \in {"CANCELLED", "CANCEL_REQUESTED"} \/ run[worker[w].job] = "CANCELLED"
     THEN Enter(w, "skip")
     ELSE Enter(w, "start")
  /\ UNCHANGED <<jobQueueVars, dbVars, api, token, plan, requests>>

\* w has decided what to write to the database and what to report to the queue.
Decide(w, runStatus, expStatus, report) ==
  /\ plan' = [plan EXCEPT ![w] = [run |-> runStatus, exp |-> expStatus, report |-> report]]
  /\ Enter(w, "commit")
  /\ UNCHANGED <<jobQueueVars, dbVars, api, token, requests>>

\* _skip_cancelled_job() reads the run; the experiment is left as it is.
Skip(w) ==
  /\ phase[w] = "skip"
  /\ Decide(w, IF run[worker[w].job] = "RUNNING" THEN "CANCELLED" ELSE Keep, Keep, "CANCELLED")

\* The start transaction: the experiment and the run become RUNNING, whatever they
\* were.  Without a committed experiment the insert of the run fails.
Start(w) ==
  /\ phase[w] = "start"
  /\ IF exp = "absent"
     THEN plan' = [plan EXCEPT ![w] = [NoPlan EXCEPT !.report = "FAILED"]]
          /\ Enter(w, "commit") /\ UNCHANGED dbVars
     ELSE exp' = "RUNNING" /\ run' = [run EXCEPT ![worker[w].job] = "RUNNING"]
          /\ Enter(w, "run") /\ UNCHANGED plan
  /\ token' = [token EXCEPT ![w] = FALSE]
  /\ UNCHANGED <<jobQueueVars, api, requests>>

\* The poller thread sees a request and sets the token.
Poll(w) ==
  /\ phase[w] = "run" /\ ~token[w]
  /\ exp = "CANCEL_REQUESTED"
  /\ token' = [token EXCEPT ![w] = TRUE]
  /\ UNCHANGED <<jobQueueVars, dbVars, api, phase, plan, requests>>

\* Plausible slip: the other runs of the experiment are not looked at.
MutRunCompleted(w) ==
  /\ phase[w] = "run"
  /\ Decide(w, "COMPLETED", "COMPLETED", "COMPLETED")

\* The runner finished, with the token set or not.  The run's own status is the one
\* this session wrote (RUNNING), so it is always replaced; the experiment completes
\* if every run that has a row has completed.
RunCompleted(w) ==
  LET others == {run[j] : j \in Jobs \ {worker[w].job}} IN
  /\ phase[w] = "run"
  /\ Decide(w, "COMPLETED",
            IF others \subseteq {"absent", "COMPLETED"} THEN "COMPLETED" ELSE Keep,
            "COMPLETED")

\* The runner stopped because of the token; mark_cancelled() reads the experiment.
RunCancelled(w) ==
  /\ phase[w] = "run" /\ token[w]
  /\ Decide(w, "CANCELLED", IF exp \in Finished THEN Keep ELSE "CANCELLED", "CANCELLED")

\* An exception: after the rollback the run is read again; the experiment is left
\* as it is.
RunFailed(w) ==
  /\ phase[w] = "run"
  /\ Decide(w, IF run[worker[w].job] \in Finished THEN Keep ELSE "FAILED", Keep, "FAILED")

\* The new value of a column, if the transaction gives it one.
Written(old, new) == IF new = Keep THEN old ELSE new

\* Plausible slip: the status of the run is set after the last flush, and lost.
MutCommit(w) ==
  /\ phase[w] = "commit"
  /\ exp' = Written(exp, plan[w].exp)
  /\ Enter(w, "report")
  /\ UNCHANGED <<jobQueueVars, run, api, token, plan, requests>>

\* The transaction commits.
Commit(w) ==
  /\ phase[w] = "commit"
  /\ exp' = Written(exp, plan[w].exp)
  /\ run' = [run EXCEPT ![worker[w].job] = Written(@, plan[w].run)]
  /\ Enter(w, "report")
  /\ UNCHANGED <<jobQueueVars, api, token, plan, requests>>

\* complete_job().
Report(w) ==
  /\ phase[w] = "report"
  /\ CompleteJob(w, plan[w].report)
  /\ Enter(w, "idle")
  /\ plan' = [plan EXCEPT ![w] = NoPlan]
  /\ token' = [token EXCEPT ![w] = FALSE]
  /\ UNCHANGED <<dbVars, api, requests>>

CrashWorker(w) ==
  /\ Crash(w)
  /\ Enter(w, "idle")
  /\ plan' = [plan EXCEPT ![w] = NoPlan]
  /\ token' = [token EXCEPT ![w] = FALSE]
  /\ UNCHANGED <<dbVars, api, requests>>

AgeJob(j) == Age(j) /\ UNCHANGED <<dbVars, localVars>>

Handler(a) == EnqueueRuns(a) \/ CommitQueued(a) \/ CancelCommit(a)

RunEnds(w) == RunCompleted(w) \/ RunCancelled(w) \/ RunFailed(w)

WorkerStep(w) ==
  \/ WorkerLoop(w) \/ CheckBeforeStart(w) \/ Skip(w) \/ Start(w)
  \/ RunEnds(w) \/ Commit(w) \/ Report(w)

ControlPlaneNext ==
  \/ \E a \in Apis : CreateInsert(a) \/ RerunRead(a) \/ CancelRead(a) \/ Handler(a)
  \/ \E w \in Workers : WorkerStep(w) \/ Poll(w) \/ CrashWorker(w)
  \/ \E j \in Jobs : AgeJob(j)

\* Handlers return, workers run their loop and their jobs, the poller polls, and
\* time passes; nobody has to send requests, and nobody has to crash.
ControlPlaneFairness ==
  /\ \A a \in Apis : WF_controlVars(Handler(a))
  /\ \A w \in Workers : WF_controlVars(WorkerStep(w)) /\ WF_controlVars(Poll(w))
  /\ \A j \in Jobs : WF_controlVars(AgeJob(j))

ControlPlaneSpec == ControlPlaneInit /\ [][ControlPlaneNext]_controlVars /\ ControlPlaneFairness

-------------------------------------------------------------------------------
\* An experiment is reported COMPLETED only while every run that has a row is
\* COMPLETED: with one worker, no crash, redelivery, re-run or cancellation leaves an
\* interrupted, failed or cancelled run behind a completed experiment.
CompletedMeansRunsDone ==
  exp = "COMPLETED" => \A j \in Jobs : run[j] \in {"absent", "COMPLETED"}

\* The queue never reports a run as finished in a way the database does not know:
\* whatever the step at which the worker dies, the commit came first.
QueueNeverAheadOfDatabase ==
  \A j \in Jobs :
    /\ job[j].status = "COMPLETED" => run[j] = "COMPLETED"
    /\ job[j].status = "FAILED" => run[j] # "RUNNING"

-------------------------------------------------------------------------------
(* What comments of the repository claim, and the runs refute.             *)

\* "Terminal states cannot be overwritten" (controlplane/repositories.py): only
\* run_experiment() may take a completed experiment out of COMPLETED.
CompletedIsFinal ==
  [][exp = "COMPLETED" => exp' \in {"COMPLETED", "QUEUED"}]_controlVars

\* "If cancellation wins before completion commits, the run is CANCELLED"
\* (controlplane/repositories.py): a committed cancellation is never undone by a worker.
CancelledIsFinal ==
  [][exp = "CANCELLED" => exp' \in {"CANCELLED", "QUEUED"}]_controlVars

\* "worker will observe and complete cancellation" (controlplane/repositories.py).
CancellationCompletes ==
  exp = "CANCEL_REQUESTED" ~> exp # "CANCEL_REQUESTED"
===============================================================================

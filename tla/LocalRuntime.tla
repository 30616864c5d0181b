----------------------------- MODULE LocalRuntime -----------------------------
(***************************************************************************)
(* The API in local mode (api/app.py: LocalRuntime and the local routes):  *)
(* experiments, their jobs, tokens and results live in the memory of one   *)
(* process, and an experiment is executed by a task of its event loop.     *)
(*                                                                         *)
(* No handler awaits, so a handler is one step.  Between them the tasks    *)
(* run: run_async() is reduced to where it looks at its token, before each *)
(* repetition and for the last time before the last one ends.  Nothing     *)
(* keeps an experiment from being run again while it runs, so one id can   *)
(* have several executions at once.                                        *)
(***************************************************************************)
EXTENDS Naturals, FiniteSets

CONSTANTS Ids,         \* experiment ids
          Executions,  \* bound: the executions that can be started
          Reasons,     \* reasons a client may give
          NoReason,    \* the empty reason
          Default,     \* "user requested"
          Nobody       \* stands for None

ASSUME LocalAssumption ==
  /\ NoReason \notin Reasons
  /\ Default \notin Reasons /\ Default # NoReason
  /\ Nobody \notin Executions

VARIABLES specs,    \* registry._specs: ids that are known
          results,  \* registry._results[i]: the execution whose result is kept
          jobs,     \* jobs[i]: status, and the execution and error it was written with
          tokens,   \* _cancellation_tokens[i]: the execution whose token is kept
          exec,     \* exec[x]: the id it runs and where it is
          token     \* token[x]: the CancellationToken passed to x

localVars == <<specs, results, jobs, tokens, exec, token>>

Terminal == {"completed", "failed", "cancelled"}
LiveStatus == {"running", "cancel_requested"}
GivenReasons == Reasons \union {Default}

\* "closing": run_async() has looked at the token for the last time.
Places == {"unused", "scheduled", "running", "closing", "over"}

LocalTypeOK ==
  /\ specs \subseteq Ids
  /\ results \in [Ids -> Executions \union {Nobody}]
  /\ jobs \in [Ids -> [status : Terminal \union LiveStatus \union {"unknown"},
                       by : Executions \union {Nobody},
                       error : GivenReasons \union {NoReason, "exception"}]]
  /\ tokens \in [Ids -> Executions \union {Nobody}]
  /\ exec \in [Executions -> [id : Ids \union {Nobody}, at : Places]]
  /\ token \in [Executions -> [set : BOOLEAN, reason : GivenReasons \union {NoReason}]]

Job(status, x, error) == [status |-> status, by |-> x, error |-> error]

\* LocalRuntime.job() of an id that has none.
NoJob == Job("unknown", Nobody, NoReason)

LocalInit ==
  /\ specs = {}
  /\ results = [i \in Ids |-> Nobody]
  /\ jobs = [i \in Ids |-> NoJob]
  /\ tokens = [i \in Ids |-> Nobody]
  /\ exec = [x \in Executions |-> [id |-> Nobody, at |-> "unused"]]
  /\ token = [x \in Executions |-> [set |-> FALSE, reason |-> NoReason]]

-------------------------------------------------------------------------------
\* POST /experiments: register_spec(), whether the id runs or not.
Create(i) ==
  /\ specs' = specs \union {i}
  /\ UNCHANGED <<results, jobs, tokens, exec, token>>

\* Plausible slip: the token of an earlier execution is kept and passed on.
MutRun(i, x) ==
  /\ i \in specs
  /\ exec[x].at = "unused"
  /\ jobs' = [jobs EXCEPT ![i] = Job("running", x, NoReason)]
  /\ tokens' = [tokens EXCEPT ![i] = IF @ = Nobody THEN x ELSE @]
  /\ exec' = [exec EXCEPT ![x] = [id |-> i, at |-> "scheduled"]]
  /\ UNCHANGED <<specs, results, token>>

\* POST /experiments/{id}/run (and submit()): a new job entry and a new token replace
\* those of an execution that may still run; the task is scheduled.  A spec is never
\* forgotten, so the route's fall-back to the spec of a result is never needed.
Run(i, x) ==
  /\ i \in specs
  /\ exec[x].at = "unused"
  /\ jobs' = [jobs EXCEPT ![i] = Job("running", x, NoReason)]
  /\ tokens' = [tokens EXCEPT ![i] = x]
  /\ exec' = [exec EXCEPT ![x] = [id |-> i, at |-> "scheduled"]]
  /\ UNCHANGED <<specs, results, token>>

\* The event loop starts the task execute_and_store().
Start(x) ==
  /\ exec[x].at = "scheduled"
  /\ exec' = [exec EXCEPT ![x].at = "running"]
  /\ UNCHANGED <<specs, results, jobs, tokens, token>>

\* run_async() looks at the token for the last time and goes on to its end.
LastLook(x) ==
  /\ exec[x].at = "running" /\ ~token[x].set
  /\ exec' = [exec EXCEPT ![x].at = "closing"]
  /\ UNCHANGED <<specs, results, jobs, tokens, token>>

\* execute_and_store() writes the outcome over whatever entry the id has now.
Store(x, status, error) ==
  /\ jobs' = [jobs EXCEPT ![exec[x].id] = Job(status, x, error)]
  /\ exec' = [exec EXCEPT ![x].at = "over"]
  /\ UNCHANGED <<specs, tokens, token>>

\* Plausible slip: the outcome is stored and the result is not registered.
MutComplete(x) ==
  /\ exec[x].at = "closing"
  /\ Store(x, "completed", NoReason)
  /\ UNCHANGED results

Complete(x) ==
  /\ exec[x].at = "closing"
  /\ Store(x, "completed", NoReason)
  /\ results' = [results EXCEPT ![exec[x].id] = x]

\* Plausible slip: a cancelled run leaves the entry as request_cancel() wrote it.
MutStop(x) ==
  /\ exec[x].at = "running" /\ token[x].set
  /\ exec' = [exec EXCEPT ![x].at = "over"]
  /\ UNCHANGED <<specs, results, jobs, tokens, token>>

\* A check of the token ends the run; a cancelled result is not registered.
Stop(x) ==
  /\ exec[x].at = "running" /\ token[x].set
  /\ Store(x, "cancelled", token[x].reason)
  /\ UNCHANGED results

Fail(x) ==
  /\ exec[x].at \in {"running", "closing"}
  /\ Store(x, "failed", "exception")
  /\ UNCHANGED results

\* CancellationToken.request(): the reason of the first request stays.
Request(x, reason) ==
  token' = [token EXCEPT ![x] = IF @.set THEN @ ELSE [set |-> TRUE, reason |-> reason]]

CancelAnswer(i) ==
  CASE jobs[i].status = "unknown" -> IF i \in specs THEN "not_started" ELSE "not_found"
    [] jobs[i].status \in Terminal \union {"cancel_requested"} -> "already"
    [] OTHER -> "cancel_requested"

\* POST /experiments/{id}/cancel.  Any other answer changes nothing.
CancelJob(i, reason) ==
  /\ CancelAnswer(i) = "cancel_requested"
  /\ Request(tokens[i], IF reason = NoReason THEN Default ELSE reason)
  /\ jobs' = [jobs EXCEPT ![i].status = "cancel_requested"]
  /\ UNCHANGED <<specs, results, tokens, exec>>

LocalNext ==
  \/ \E i \in Ids :
       \/ Create(i)
       \/ \E x \in Executions : Run(i, x)
       \/ \E reason \in Reasons \union {NoReason} : CancelJob(i, reason)
  \/ \E x \in Executions :
       Start(x) \/ LastLook(x) \/ Complete(x) \/ Stop(x) \/ Fail(x)

\* The event loop runs the tasks it was given, and runs are finite.
LocalFairness ==
  \A x \in Executions :
    WF_localVars(Start(x) \/ LastLook(x) \/ Complete(x) \/ Stop(x))

LocalSpec == LocalInit /\ [][LocalNext]_localVars /\ LocalFairness

-------------------------------------------------------------------------------
Live(x) == exec[x].at \in {"scheduled", "running", "closing"}

\* What request_cancel() would act on is alive: while an id is shown as running, or
\* as cancel_requested, the token kept for it belongs to an execution of this id that
\* is not over, and cancel_requested means that this token is set.
StatusBacksCancel ==
  \A i \in Ids : jobs[i].status \in LiveStatus =>
    /\ tokens[i] # Nobody /\ tokens[i] = jobs[i].by
    /\ Live(tokens[i]) /\ exec[tokens[i]].id = i
    /\ jobs[i].status = "cancel_requested" <=> token[tokens[i]].set

\* A client that reads a finished status finds what belongs to it, whichever of
\* several executions wrote last: the result of the same execution for completed, the
\* reason given to the same execution's token for cancelled.
OutcomeBelongs ==
  \A i \in Ids :
    /\ jobs[i].status = "completed" => results[i] = jobs[i].by
    /\ jobs[i].status = "cancelled" =>
         /\ token[jobs[i].by].set
         /\ jobs[i].error = token[jobs[i].by].reason /\ jobs[i].error \in GivenReasons
    /\ results[i] # Nobody => ~Live(results[i]) /\ exec[results[i]].id = i

\* A cancellation that was acknowledged ends in a finished status, even when the
\* request came after the last look at the token or the run fails instead.
CancelRequestsEnd ==
  \A i \in Ids : jobs[i].status = "cancel_requested" ~> jobs[i].status \in Terminal

\* core/cancellation.py:15 says "Terminal states are immutable": a finished status
\* changes only when the experiment is run again.
TerminalIsFinal ==
  [][\A i \in Ids : jobs[i].status \in Terminal =>
       jobs'[i] = jobs[i] \/ (jobs'[i].status = "running" /\ tokens'[i] # tokens[i])]_localVars
===============================================================================

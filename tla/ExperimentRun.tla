----------------------------- MODULE ExperimentRun -----------------------------
(***************************************************************************)
(* One experiment: ExperimentRunner.run_async() of experiments/runner.py   *)
(* with its repetitions, WorkloadGenerator of workloads/generator.py with  *)
(* the warm-up and both kinds of traffic, the recording gate of            *)
(* metrics/collector.py, and the CancellationToken that another thread may *)
(* set between any two steps.                                              *)
(*                                                                         *)
(* A drive is one call of _drive(): the warm-up or the measured phase of a *)
(* repetition.  Client loops run between awaits, one loop at a time, and   *)
(* each such stretch is a step; what a request does is left to             *)
(* PolicyExecutor.  Gaps between arrivals are durations and left out.      *)
(***************************************************************************)
EXTENDS Naturals, Sequences, FiniteSets

CONSTANTS Clients,      \* client loops; an arrival process runs a single one
          Modes,        \* workload types: "closed_loop", "arrivals"
          WarmUp,       \* TRUE: spec.warmup > 0
          Repetitions,  \* spec.repetitions.count
          MaxIssues     \* bound: requests issued in one drive

ASSUME RunAssumption ==
  /\ IsFiniteSet(Clients) /\ Clients # {}
  /\ Modes \subseteq {"closed_loop", "arrivals"}
  /\ WarmUp \in BOOLEAN
  /\ Repetitions \in Nat \ {0}
  /\ MaxIssues \in Nat

VARIABLES mode,       \* spec.workload.type
          token,      \* the token is set
          drive,      \* "none" between repetitions, "warmup" or "measured"
          step,       \* "enter", "driving" or "closing" the drive
          over,       \* the drive's duration has passed
          issued,     \* next value of the drive's request counter
          client,     \* client[c]: the client loop's place and its request
          recording,  \* MetricsCollector._recording
          rows,       \* rows of the repetition's collector
          runs,       \* what is kept of each repetition that was appended
          outcome     \* of run_async()

runVars == <<mode, token, drive, step, over, issued, client, recording, rows, runs, outcome>>

Drives == {"warmup", "measured"}
Request == [id : 0..MaxIssues, drive : Drives]

RunTypeOK ==
  /\ mode \in Modes
  /\ {token, over, recording} \subseteq BOOLEAN
  /\ drive \in Drives \union {"none"}
  /\ step \in {"enter", "driving", "closing"}
  /\ issued \in 0..MaxIssues
  /\ client \in [Clients -> {"gone", "stopped", "loop", "sending"} \X Request]
  /\ rows \subseteq ({"started", "ended"} \X Request)
  /\ runs \in Seq([whole : BOOLEAN, loose : Nat, warm : BOOLEAN])
  /\ Len(runs) <= Repetitions
  /\ outcome \in {"running", "completed", "cancelled", "failed"}

NoRequest == [id |-> 0, drive |-> "warmup"]

At(c) == client[c][1]
Sent(c) == client[c][2]
Go(c, place) == client' = [client EXCEPT ![c] = <<place, Sent(c)>>]

RunInit ==
  /\ mode \in Modes
  /\ token = FALSE
  /\ drive = "none" /\ step = "enter" /\ over = FALSE
  /\ issued = 0
  /\ client = [c \in Clients |-> <<"gone", NoRequest>>]
  /\ recording = TRUE
  /\ rows = {} /\ runs = <<>>
  /\ outcome = "running"

-------------------------------------------------------------------------------
Running == outcome = "running"
Between == Running /\ drive = "none"
Driving == Running /\ step = "driving"
Closing == Running /\ step = "closing"

\* CancellationToken.request(), from another thread.
RequestCancellation ==
  /\ Running /\ ~token
  /\ token' = TRUE
  /\ UNCHANGED <<mode, drive, step, over, issued, client, recording, rows, runs, outcome>>

\* CancelledError reaches run_async(): the repetition is dropped, and the gate was
\* opened again on the way.
Cancelled ==
  /\ outcome' = "cancelled"
  /\ recording' = TRUE
  /\ UNCHANGED <<mode, token, drive, step, over, issued, client, rows, runs>>

\* The checks before the first and between two repetitions.
CancelBetween == Between /\ Len(runs) < Repetitions /\ token /\ Cancelled

\* Plausible slip: warm-up traffic is recorded.
MutBeginRepetition ==
  /\ Between /\ Len(runs) < Repetitions /\ ~token
  /\ rows' = {} /\ recording' = TRUE
  /\ drive' = IF WarmUp THEN "warmup" ELSE "measured"
  /\ UNCHANGED <<mode, token, step, over, issued, client, runs, outcome>>

\* _run_once() builds a new collector; run() closes its gate for the warm-up.
BeginRepetition ==
  /\ Between /\ Len(runs) < Repetitions /\ ~token
  /\ rows' = {} /\ recording' = ~WarmUp
  /\ drive' = IF WarmUp THEN "warmup" ELSE "measured"
  /\ UNCHANGED <<mode, token, step, over, issued, client, runs, outcome>>

\* Plausible slip: the token is looked at once more after the last repetition.
MutFinish ==
  /\ Between /\ Len(runs) = Repetitions
  /\ outcome' = IF token THEN "cancelled" ELSE "completed"
  /\ UNCHANGED <<mode, token, drive, step, over, issued, client, recording, rows, runs>>

Finish ==
  /\ Between /\ Len(runs) = Repetitions
  /\ outcome' = "completed"
  /\ UNCHANGED <<mode, token, drive, step, over, issued, client, recording, rows, runs>>

\* _drive() checks the token, then starts the loops.
CancelDrive == Running /\ drive # "none" /\ step = "enter" /\ token /\ Cancelled

Loops == IF mode = "closed_loop" THEN Clients ELSE {CHOOSE c \in Clients : TRUE}

EnterDrive ==
  /\ Running /\ drive # "none" /\ step = "enter" /\ ~token
  /\ step' = "driving" /\ over' = FALSE /\ issued' = 0
  /\ client' = [c \in Clients |-> <<IF c \in Loops THEN "loop" ELSE "gone", NoRequest>>]
  /\ UNCHANGED <<mode, token, drive, recording, rows, runs, outcome>>

TimePasses ==
  /\ Driving /\ ~over
  /\ over' = TRUE
  /\ UNCHANGED <<mode, token, drive, step, issued, client, recording, rows, runs, outcome>>

\* A row, if the gate is open.
Record(kind, request) ==
  rows' = IF recording THEN rows \union {<<kind, request>>} ELSE rows

\* _issue(), up to the await of send().
Issue(c) ==
  LET request == [id |-> issued, drive |-> drive] IN
  /\ issued < MaxIssues
  /\ issued' = issued + 1
  /\ client' = [client EXCEPT ![c] = <<"sending", request>>]
  /\ Record("started", request)
  /\ UNCHANGED <<mode, token, drive, step, over, recording, runs, outcome>>

\* A client loop starts its next turn.  Its CancelledError ends the task and stays
\* in it.
ClientTurn(c) ==
  /\ Driving /\ mode = "closed_loop" /\ At(c) = "loop"
  /\ \/ ~token /\ Issue(c)
     \/ /\ token
        /\ Go(c, "stopped")
        /\ UNCHANGED <<mode, token, drive, step, over, issued, recording, rows, runs, outcome>>

\* Plausible slip: the arrival loop is left by a break when the token is set.
MutArrivalTurn(c) ==
  /\ Driving /\ mode = "arrivals" /\ At(c) = "loop" /\ ~over
  /\ \/ ~token /\ Issue(c)
     \/ /\ token
        /\ Go(c, "stopped")
        /\ UNCHANGED <<mode, token, drive, step, over, issued, recording, rows, runs, outcome>>

\* The arrival loop starts its next turn.  The time is looked at before the token.
ArrivalTurn(c) ==
  /\ Driving /\ mode = "arrivals" /\ At(c) = "loop" /\ ~over
  /\ \/ ~token /\ Issue(c)
     \/ token /\ Cancelled

\* send() returns or raises, and the row of the request is recorded.
Answer(c) ==
  /\ Driving /\ At(c) = "sending"
  /\ Go(c, "loop")
  /\ Record("ended", Sent(c))
  /\ UNCHANGED <<mode, token, drive, step, over, issued, recording, runs, outcome>>

\* Plausible slip: the client loops are told to stop and not cancelled.
MutCloseLoop ==
  /\ Driving /\ mode = "closed_loop" /\ over
  /\ \A c \in Clients : At(c) # "sending"
  /\ step' = "closing"
  /\ UNCHANGED <<mode, token, drive, over, issued, client, recording, rows, runs, outcome>>

\* The closed loop is over: every task is cancelled.
CloseLoop ==
  /\ Driving /\ mode = "closed_loop" /\ over
  /\ step' = "closing"
  /\ UNCHANGED <<mode, token, drive, over, issued, client, recording, rows, runs, outcome>>

\* The cancellation of a task is delivered; a request in flight leaves no row.
Unwind(c) ==
  /\ Closing /\ At(c) \in {"loop", "sending"}
  /\ Go(c, "gone")
  /\ UNCHANGED <<mode, token, drive, step, over, issued, recording, rows, runs, outcome>>

\* gather() has collected the tasks and dropped their exceptions, or the arrival
\* loop has found its time passed.
DriveIsOver ==
  \/ Closing /\ \A c \in Clients : At(c) \in {"stopped", "gone"}
  \/ Driving /\ mode = "arrivals" /\ over /\ \A c \in Loops : At(c) # "sending"

EndWarmUp ==
  /\ DriveIsOver /\ drive = "warmup"
  /\ drive' = "measured" /\ step' = "enter" /\ recording' = TRUE
  /\ UNCHANGED <<mode, token, over, issued, client, rows, runs, outcome>>

\* What is kept of a repetition: whether a loop was stopped by the token, how many
\* requests were started and not ended, and whether rows stem from the warm-up.
Kept ==
  [whole |-> \A c \in Clients : At(c) # "stopped",
   loose |-> Cardinality({r \in Request : <<"started", r>> \in rows /\ <<"ended", r>> \notin rows}),
   warm  |-> \E row \in rows : row[2].drive = "warmup"]

\* The repetition is analysed and appended, or the analysis raises.
EndRepetition ==
  /\ DriveIsOver /\ drive = "measured"
  /\ drive' = "none" /\ step' = "enter"
  /\ \/ runs' = Append(runs, Kept) /\ UNCHANGED outcome
     \/ outcome' = "failed" /\ UNCHANGED runs
  /\ UNCHANGED <<mode, token, over, issued, client, recording, rows>>

Proceed ==
  \/ CancelBetween \/ BeginRepetition \/ Finish \/ CancelDrive \/ EnterDrive
  \/ TimePasses \/ CloseLoop \/ EndWarmUp \/ EndRepetition

Turn(c) == ClientTurn(c) \/ ArrivalTurn(c) \/ Unwind(c)

\* run_async() has returned.
Stay == ~Running /\ UNCHANGED runVars

RunNext ==
  \/ RequestCancellation \/ Proceed \/ Stay
  \/ \E c \in Clients : Turn(c) \/ Answer(c)

\* Time passes and ready tasks run; nobody has to cancel, and no answer has to come.
RunFairness ==
  /\ WF_runVars(Proceed)
  /\ \A c \in Clients : WF_runVars(Turn(c))

RunSpec == RunInit /\ [][RunNext]_runVars /\ RunFairness

-------------------------------------------------------------------------------
\* The result says what happened: a completed experiment has all its repetitions,
\* and a cancelled one lacks at least one, whenever the token was set.
OutcomeMatchesRuns ==
  /\ outcome = "completed" => Len(runs) = Repetitions
  /\ outcome = "cancelled" => Len(runs) < Repetitions

\* A repetition keeps no row of its warm-up, though both phases share one collector
\* and the gate is moved while loops come and go.
WarmUpUnrecorded == \A i \in DOMAIN runs : ~runs[i].warm

\* An arrival process never hands in a repetition that the token cut short.
ArrivalRepetitionsWhole ==
  mode = "arrivals" => \A i \in DOMAIN runs : runs[i].whole

\* A closed-loop experiment ends whatever the dependency does: a request that never
\* returns holds up neither the end of a phase nor a cancellation.
ClosedLoopEnds == mode = "closed_loop" ~> ~Running

-------------------------------------------------------------------------------
(* What documents of the repository claim, and the runs refute.            *)

\* "partial repetitions are never silently treated as complete"
\* (core/cancellation.py).
PartialNeverComplete == \A i \in DOMAIN runs : runs[i].whole

\* "Arrivals independent of completions" (docs/workloads.md): while an arrival
\* process drives, the next request is issued however long an answer takes.
ArrivalsIndependent ==
  mode = "arrivals" /\ Driving /\ issued = 1 ~> issued > 1 \/ ~Driving
===============================================================================

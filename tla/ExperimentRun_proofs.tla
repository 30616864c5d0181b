-------------------------- MODULE ExperimentRun_proofs --------------------------
(***************************************************************************)
(* What holds of ExperimentRun for every set of clients, any number of     *)
(* repetitions, with and without a warm-up, whenever the token is set.     *)
(***************************************************************************)
EXTENDS ExperimentRun, FiniteSetTheorems, TLAPS

\* While the warm-up drives, the gate is closed, a request in flight was issued by
\* the drive that runs, and a drive that was entered has a name.
GateMatchesDrive ==
  Running =>
    /\ drive = "warmup" => ~recording
    /\ step # "enter" => drive # "none"
    /\ step = "driving" => \A c \in Clients : At(c) = "sending" => Sent(c).drive = drive

RowsMeasured == \A row \in rows : row[2].drive = "measured"

\* A drive belongs to a repetition that is missing.
DriveIsNeeded == Running /\ drive # "none" => Len(runs) < Repetitions

\* The token stops no loop of an arrival process; it raises out of the drive.
ArrivalsUnstopped == mode = "arrivals" => \A c \in Clients : At(c) # "stopped"

RunInv ==
  /\ RunTypeOK
  /\ GateMatchesDrive /\ RowsMeasured /\ DriveIsNeeded /\ ArrivalsUnstopped
  /\ WarmUpUnrecorded /\ OutcomeMatchesRuns /\ ArrivalRepetitionsWhole

-------------------------------------------------------------------------------
\* There are finitely many requests, so the loose ones can be counted.
LEMMA RequestsFinite == IsFiniteSet(Request)
<1> DEFINE Pairs == (0..MaxIssues) \X Drives
           f == [p \in Pairs |-> [id |-> p[1], drive |-> p[2]]]
<1>1. IsFiniteSet(0..MaxIssues) /\ IsFiniteSet(Drives)
  <2>1. IsFiniteSet(0..MaxIssues)
    BY RunAssumption, FS_Interval
  <2>2. Drives = {"warmup"} \union {"measured"}
    BY DEF Drives
  <2>3. IsFiniteSet({"warmup"})
    BY FS_Singleton
  <2>4. IsFiniteSet(Drives)
    BY <2>2, <2>3, FS_AddElement
  <2>5. QED
    BY <2>1, <2>4
<1>2. IsFiniteSet(Pairs)
  BY <1>1, FS_Product
<1>3. f \in [Pairs -> Request]
  BY DEF Request
<1>4. \A r \in Request : <<r.id, r.drive>> \in Pairs /\ f[<<r.id, r.drive>>] = r
  BY DEF Request
<1>5. f \in Surjection(Pairs, Request)
  BY <1>3, <1>4 DEF Surjection
<1>6. QED
  BY <1>2, <1>5, FS_Surjection

\* What is kept of a repetition has its type, and is free of the warm-up.
LEMMA KeptType ==
  ASSUME RunTypeOK, RowsMeasured
  PROVE  Kept \in [whole : BOOLEAN, loose : Nat, warm : BOOLEAN] /\ ~Kept.warm
<1> DEFINE loose == {r \in Request : <<"started", r>> \in rows /\ <<"ended", r>> \notin rows}
<1>1. IsFiniteSet(loose)
  BY RequestsFinite, FS_Subset
<1>2. Cardinality(loose) \in Nat
  BY <1>1, FS_CardinalityType
<1>3. ~(\E row \in rows : row[2].drive = "warmup")
  BY DEF RowsMeasured
<1> HIDE DEF loose
<1>4. Kept = [whole |-> \A c \in Clients : At(c) # "stopped",
              loose |-> Cardinality(loose),
              warm  |-> \E row \in rows : row[2].drive = "warmup"]
  BY DEF Kept, loose
<1>5. QED
  BY <1>2, <1>3, <1>4

-------------------------------------------------------------------------------
LEMMA RunInitHolds == RunInit => RunInv
<1> SUFFICES ASSUME RunInit PROVE RunInv
  OBVIOUS
<1>1. MaxIssues \in Nat /\ NoRequest \in Request
  BY RunAssumption DEF NoRequest, Request, Drives
<1>2. client \in [Clients -> {"gone", "stopped", "loop", "sending"} \X Request]
  BY <1>1 DEF RunInit
<1>3. runs \in Seq([whole : BOOLEAN, loose : Nat, warm : BOOLEAN]) /\ Len(runs) = 0
  BY DEF RunInit
<1>4. RunTypeOK
  <2>1. 0 \in 0..MaxIssues /\ 0 <= Repetitions
    BY RunAssumption
  <2>2. issued \in 0..MaxIssues /\ Len(runs) <= Repetitions
    BY <1>3, <2>1 DEF RunInit
  <2>3. /\ mode \in Modes /\ {token, over, recording} \subseteq BOOLEAN
        /\ drive \in Drives \union {"none"} /\ step \in {"enter", "driving", "closing"}
        /\ rows \subseteq ({"started", "ended"} \X Request)
        /\ outcome \in {"running", "completed", "cancelled", "failed"}
    BY DEF RunInit
  <2>4. QED
    BY <1>2, <1>3, <2>2, <2>3 DEF RunTypeOK
<1>5. GateMatchesDrive /\ RowsMeasured /\ OutcomeMatchesRuns /\ DriveIsNeeded /\ ArrivalsUnstopped
  BY DEF RunInit, GateMatchesDrive, RowsMeasured, OutcomeMatchesRuns, Running,
         DriveIsNeeded, ArrivalsUnstopped, At
<1>6. WarmUpUnrecorded /\ ArrivalRepetitionsWhole
  BY <1>3 DEF RunInit, WarmUpUnrecorded, ArrivalRepetitionsWhole
<1>7. QED
  BY <1>4, <1>5, <1>6 DEF RunInv

\* A row that is recorded while a drive runs stems from that drive.
LEMMA RecordPreserves ==
  ASSUME RunInv, Running, drive \in Drives, NEW kind \in {"started", "ended"},
         NEW request \in Request, request.drive = drive, Record(kind, request)
  PROVE  rows' \subseteq ({"started", "ended"} \X Request) /\ RowsMeasured'
<1>1. recording => drive = "measured"
  BY DEF RunInv, GateMatchesDrive, Drives
<1>2. CASE recording
  <2>1. rows' = rows \union {<<kind, request>>}
    BY <1>2 DEF Record
  <2>2. rows' \subseteq ({"started", "ended"} \X Request)
    BY <2>1 DEF RunInv, RunTypeOK
  <2>3. \A row \in rows' : row[2].drive = "measured"
    BY <1>1, <1>2, <2>1 DEF RunInv, RowsMeasured
  <2>4. QED
    BY <2>2, <2>3 DEF RowsMeasured
<1>3. CASE ~recording
  BY <1>3 DEF Record, RunInv, RunTypeOK, RowsMeasured
<1>4. QED
  BY <1>2, <1>3

\* A request is issued by the drive that runs.
LEMMA IssuePreserves ==
  ASSUME RunInv, Driving, NEW c \in Clients, Issue(c)
  PROVE  RunInv'
<1> DEFINE request == [id |-> issued, drive |-> drive]
<1> USE DEF RunInv
<1>1. Running /\ drive \in Drives
  BY DEF Driving, GateMatchesDrive, RunTypeOK
<1>2. /\ MaxIssues \in Nat /\ issued' = issued + 1 /\ issued \in 0..MaxIssues /\ issued < MaxIssues
      /\ client' = [client EXCEPT ![c] = <<"sending", request>>]
      /\ Record("started", request)
      /\ UNCHANGED <<mode, token, drive, step, over, recording, runs, outcome>>
  BY RunAssumption DEF Issue, RunTypeOK
<1>3. request \in Request /\ request.drive = drive
  BY <1>1, <1>2 DEF Request
<1> HIDE DEF request
<1>4. rows' \subseteq ({"started", "ended"} \X Request) /\ RowsMeasured'
  BY <1>1, <1>2, <1>3, RecordPreserves
<1>5. client' \in [Clients -> {"gone", "stopped", "loop", "sending"} \X Request]
  BY <1>2, <1>3 DEF RunTypeOK
<1>6. issued' \in 0..MaxIssues
  BY <1>2
<1>7. RunTypeOK'
  BY <1>2, <1>4, <1>5, <1>6 DEF RunTypeOK
<1>8. \A d \in Clients : client'[d][1] = "sending" /\ step = "driving" => client'[d][2].drive = drive
  BY <1>1, <1>2, <1>3 DEF GateMatchesDrive, RunTypeOK, At, Sent
<1>9. GateMatchesDrive'
  BY <1>1, <1>2, <1>8 DEF GateMatchesDrive, Running, At, Sent
<1>10. /\ WarmUpUnrecorded' /\ OutcomeMatchesRuns' /\ ArrivalRepetitionsWhole'
       /\ DriveIsNeeded'
  BY <1>2 DEF WarmUpUnrecorded, OutcomeMatchesRuns, ArrivalRepetitionsWhole, DriveIsNeeded, Running
<1>11. ArrivalsUnstopped'
  BY <1>2 DEF ArrivalsUnstopped, At, RunTypeOK
<1>12. QED
  BY <1>4, <1>7, <1>9, <1>10, <1>11

\* A client loop that moves on without a new request.
LEMMA GoPreserves ==
  ASSUME RunInv, NEW c \in Clients, NEW place \in {"gone", "stopped", "loop"}, Go(c, place),
         place = "stopped" => mode = "closed_loop",
         UNCHANGED <<mode, token, drive, step, over, issued, recording, runs, outcome>>,
         rows' \subseteq ({"started", "ended"} \X Request) /\ RowsMeasured'
  PROVE  RunInv'
<1> USE DEF RunInv
<1>1. /\ client' \in [Clients -> {"gone", "stopped", "loop", "sending"} \X Request]
      /\ client'[c] = <<place, Sent(c)>>
      /\ \A d \in Clients : d # c => client'[d] = client[d]
  BY DEF Go, RunTypeOK, Sent
<1>2. RunTypeOK'
  BY <1>1 DEF RunTypeOK
<1>3. \A d \in Clients : client'[d][1] = "sending" => client'[d] = client[d]
  BY <1>1
<1>4. GateMatchesDrive'
  BY <1>3 DEF GateMatchesDrive, Running, At, Sent
<1>5. /\ WarmUpUnrecorded' /\ OutcomeMatchesRuns' /\ ArrivalRepetitionsWhole'
      /\ DriveIsNeeded'
  BY DEF WarmUpUnrecorded, OutcomeMatchesRuns, ArrivalRepetitionsWhole, DriveIsNeeded, Running
<1>6. ArrivalsUnstopped'
  BY <1>1 DEF ArrivalsUnstopped, At
<1>7. QED
  BY <1>2, <1>4, <1>5, <1>6

\* An answer records a row of the drive that issued the request.
LEMMA AnswerPreserves ==
  ASSUME RunInv, NEW c \in Clients, Answer(c)
  PROVE  RunInv'
<1>1. /\ Running /\ drive \in Drives
      /\ Sent(c) \in Request /\ Sent(c).drive = drive
  BY DEF Answer, Driving, RunInv, GateMatchesDrive, RunTypeOK, Sent, At
<1>2. rows' \subseteq ({"started", "ended"} \X Request) /\ RowsMeasured'
  BY <1>1, RecordPreserves DEF Answer
<1>3. QED
  BY <1>2, GoPreserves DEF Answer

\* A step that keeps the kept repetitions, the outcome and the rows, and leaves every
\* loop where it is.
LEMMA PhasePreserves ==
  ASSUME RunInv, Running,
         UNCHANGED <<mode, token, issued, client, rows, runs, outcome>>,
         drive' \in Drives \union {"none"}, step' \in {"enter", "driving", "closing"},
         over' \in BOOLEAN, recording' \in BOOLEAN,
         GateMatchesDrive', DriveIsNeeded'
  PROVE  RunInv'
<1>1. RunTypeOK'
  BY DEF RunInv, RunTypeOK
<1>2. RowsMeasured' /\ ArrivalsUnstopped'
  BY DEF RunInv, RowsMeasured, ArrivalsUnstopped, At
<1>3. WarmUpUnrecorded' /\ OutcomeMatchesRuns' /\ ArrivalRepetitionsWhole'
  BY DEF RunInv, WarmUpUnrecorded, OutcomeMatchesRuns, ArrivalRepetitionsWhole
<1>4. QED
  BY <1>1, <1>2, <1>3 DEF RunInv

\* A cancelled experiment lacks the repetition that was dropped.
LEMMA CancelledPreserves ==
  ASSUME RunInv, Cancelled, Len(runs) < Repetitions
  PROVE  RunInv'
<1>1. RunTypeOK'
  BY DEF RunInv, RunTypeOK, Cancelled
<1>2. GateMatchesDrive' /\ DriveIsNeeded' /\ OutcomeMatchesRuns'
  BY DEF Cancelled, GateMatchesDrive, DriveIsNeeded, OutcomeMatchesRuns, Running
<1>3. RowsMeasured' /\ ArrivalsUnstopped' /\ WarmUpUnrecorded' /\ ArrivalRepetitionsWhole'
  BY DEF RunInv, Cancelled, RowsMeasured, ArrivalsUnstopped, At, WarmUpUnrecorded,
         ArrivalRepetitionsWhole
<1>4. QED
  BY <1>1, <1>2, <1>3 DEF RunInv

LEMMA BeginRepetitionPreserves ==
  ASSUME RunInv, BeginRepetition
  PROVE  RunInv'
<1>1. /\ Len(runs) < Repetitions
      /\ rows' = {} /\ recording' = ~WarmUp
      /\ drive' = IF WarmUp THEN "warmup" ELSE "measured"
      /\ UNCHANGED <<mode, token, step, over, issued, client, runs, outcome>>
  BY DEF BeginRepetition, Between
<1>2. Running /\ drive = "none"
  BY DEF BeginRepetition, Between
<1>3. step = "enter"
  BY <1>2 DEF RunInv, GateMatchesDrive, RunTypeOK
<1>4. recording' \in BOOLEAN /\ drive' \in Drives
  BY <1>1, RunAssumption DEF Drives
<1>5. RunTypeOK'
  BY <1>1, <1>4 DEF RunInv, RunTypeOK
<1>6. GateMatchesDrive'
  BY <1>1, <1>3, RunAssumption DEF GateMatchesDrive, Running
<1>7. RowsMeasured' /\ DriveIsNeeded'
  BY <1>1 DEF RowsMeasured, DriveIsNeeded
<1>8. ArrivalsUnstopped' /\ WarmUpUnrecorded' /\ OutcomeMatchesRuns' /\ ArrivalRepetitionsWhole'
  BY <1>1 DEF RunInv, ArrivalsUnstopped, At, WarmUpUnrecorded, OutcomeMatchesRuns,
              ArrivalRepetitionsWhole
<1>9. QED
  BY <1>5, <1>6, <1>7, <1>8 DEF RunInv

LEMMA EnterDrivePreserves ==
  ASSUME RunInv, EnterDrive
  PROVE  RunInv'
<1>1. /\ Running /\ drive # "none"
      /\ step' = "driving" /\ over' = FALSE /\ issued' = 0
      /\ UNCHANGED <<mode, token, drive, recording, rows, runs, outcome>>
  BY DEF EnterDrive
<1>2. 0 \in 0..MaxIssues /\ NoRequest \in Request
  BY RunAssumption DEF NoRequest, Request, Drives
<1>3. /\ client' \in [Clients -> {"gone", "stopped", "loop", "sending"} \X Request]
      /\ \A c \in Clients : client'[c][1] \in {"loop", "gone"}
  BY <1>2 DEF EnterDrive
<1>4. RunTypeOK'
  BY <1>1, <1>2, <1>3 DEF RunInv, RunTypeOK
<1>5. GateMatchesDrive' /\ DriveIsNeeded'
  BY <1>1, <1>3 DEF RunInv, GateMatchesDrive, DriveIsNeeded, Running, At
<1>6. ArrivalsUnstopped'
  BY <1>3 DEF ArrivalsUnstopped, At
<1>7. RowsMeasured' /\ WarmUpUnrecorded' /\ OutcomeMatchesRuns' /\ ArrivalRepetitionsWhole'
  BY <1>1 DEF RunInv, RowsMeasured, WarmUpUnrecorded, OutcomeMatchesRuns, ArrivalRepetitionsWhole
<1>8. QED
  BY <1>4, <1>5, <1>6, <1>7 DEF RunInv

\* The repetition is appended while one is missing.
LEMMA EndRepetitionPreserves ==
  ASSUME RunInv, EndRepetition
  PROVE  RunInv'
<1> USE DEF RunInv
<1> DEFINE Row == [whole : BOOLEAN, loose : Nat, warm : BOOLEAN]
<1>1. /\ Kept \in Row /\ ~Kept.warm
      /\ mode = "arrivals" => Kept.whole
  BY KeptType DEF ArrivalsUnstopped, Kept
<1>2. /\ runs \in Seq(Row) /\ Repetitions \in Nat /\ Len(runs) \in Nat
      /\ Len(runs) < Repetitions
  BY RunAssumption DEF RunTypeOK, EndRepetition, DriveIsOver, Closing, Driving, DriveIsNeeded
<1>3. /\ Running
      /\ drive' = "none" /\ step' = "enter"
      /\ UNCHANGED <<mode, token, over, issued, client, recording, rows>>
      /\ \/ runs' = Append(runs, Kept) /\ outcome' = outcome
         \/ outcome' = "failed" /\ runs' = runs
  BY DEF EndRepetition, DriveIsOver, Closing, Driving
<1>4. CASE runs' = Append(runs, Kept) /\ outcome' = outcome
  <2>1. /\ runs' \in Seq(Row) /\ Len(runs') = Len(runs) + 1
        /\ runs'[Len(runs) + 1] = Kept
        /\ \A i \in 1..Len(runs) : runs'[i] = runs[i]
    BY <1>1, <1>2, <1>4
  <2>2. Len(runs') <= Repetitions
    BY <1>2, <2>1
  <2>3. RunTypeOK'
    BY <1>3, <1>4, <2>1, <2>2 DEF RunTypeOK
  <2>4. GateMatchesDrive' /\ RowsMeasured' /\ DriveIsNeeded' /\ ArrivalsUnstopped'
    BY <1>3 DEF GateMatchesDrive, RowsMeasured, DriveIsNeeded, ArrivalsUnstopped, At
  <2>5. \A i \in 1..Len(runs') : ~runs'[i].warm /\ (mode' = "arrivals" => runs'[i].whole)
    <3> SUFFICES ASSUME NEW i \in 1..Len(runs')
                 PROVE  ~runs'[i].warm /\ (mode' = "arrivals" => runs'[i].whole)
      OBVIOUS
    <3>1. i \in 1..Len(runs) \/ i = Len(runs) + 1
      BY <1>2, <2>1
    <3>2. CASE i \in 1..Len(runs)
      BY <1>2, <1>3, <2>1, <3>2 DEF WarmUpUnrecorded, ArrivalRepetitionsWhole
    <3>3. CASE i = Len(runs) + 1
      BY <1>1, <1>3, <2>1, <3>3
    <3>4. QED
      BY <3>1, <3>2, <3>3
  <2>6. OutcomeMatchesRuns'
    BY <1>3, <1>4 DEF OutcomeMatchesRuns, Running
  <2>7. WarmUpUnrecorded' /\ ArrivalRepetitionsWhole'
    BY <2>1, <2>5 DEF WarmUpUnrecorded, ArrivalRepetitionsWhole
  <2>8. QED
    BY <2>3, <2>4, <2>6, <2>7
<1>5. CASE outcome' = "failed" /\ runs' = runs
  <2>1. RunTypeOK'
    BY <1>3, <1>5 DEF RunTypeOK
  <2>2. GateMatchesDrive' /\ DriveIsNeeded' /\ OutcomeMatchesRuns'
    BY <1>3, <1>5 DEF GateMatchesDrive, DriveIsNeeded, OutcomeMatchesRuns, Running
  <2>3. RowsMeasured' /\ ArrivalsUnstopped' /\ WarmUpUnrecorded' /\ ArrivalRepetitionsWhole'
    BY <1>3, <1>5 DEF RowsMeasured, ArrivalsUnstopped, At, WarmUpUnrecorded, ArrivalRepetitionsWhole
  <2>4. QED
    BY <2>1, <2>2, <2>3
<1>6. QED
  BY <1>3, <1>4, <1>5

-------------------------------------------------------------------------------
LEMMA ProceedPreserves ==
  ASSUME RunInv, Proceed
  PROVE  RunInv'
<1>1. CASE CancelBetween
  BY <1>1, CancelledPreserves DEF CancelBetween
<1>2. CASE BeginRepetition
  BY <1>2, BeginRepetitionPreserves
<1>3. CASE Finish
  <2>1. /\ outcome' = "completed" /\ Len(runs) = Repetitions
        /\ UNCHANGED <<mode, token, drive, step, over, issued, client, recording, rows, runs>>
    BY <1>3 DEF Finish
  <2>2. RunTypeOK'
    BY <2>1 DEF RunInv, RunTypeOK
  <2>3. GateMatchesDrive' /\ DriveIsNeeded' /\ OutcomeMatchesRuns'
    BY <2>1 DEF GateMatchesDrive, DriveIsNeeded, OutcomeMatchesRuns, Running
  <2>4. RowsMeasured' /\ ArrivalsUnstopped' /\ WarmUpUnrecorded' /\ ArrivalRepetitionsWhole'
    BY <2>1 DEF RunInv, RowsMeasured, ArrivalsUnstopped, At, WarmUpUnrecorded,
                ArrivalRepetitionsWhole
  <2>5. QED
    BY <2>2, <2>3, <2>4 DEF RunInv
<1>4. CASE CancelDrive
  BY <1>4, CancelledPreserves DEF CancelDrive, RunInv, DriveIsNeeded
<1>5. CASE EnterDrive
  BY <1>5, EnterDrivePreserves
<1>6. CASE TimePasses
  <2>1. /\ Running /\ over' = TRUE
        /\ UNCHANGED <<mode, token, drive, step, issued, client, recording, rows, runs, outcome>>
    BY <1>6 DEF TimePasses, Driving
  <2>2. GateMatchesDrive' /\ DriveIsNeeded'
    BY <2>1 DEF RunInv, GateMatchesDrive, DriveIsNeeded, Running, At, Sent
  <2>3. QED
    BY <2>1, <2>2, PhasePreserves DEF RunInv, RunTypeOK
<1>7. CASE CloseLoop
  <2>1. /\ Running /\ step = "driving" /\ step' = "closing"
        /\ UNCHANGED <<mode, token, drive, over, issued, client, recording, rows, runs, outcome>>
    BY <1>7 DEF CloseLoop, Driving
  <2>2. GateMatchesDrive' /\ DriveIsNeeded'
    BY <2>1 DEF RunInv, GateMatchesDrive, DriveIsNeeded, Running
  <2>3. QED
    BY <2>1, <2>2, PhasePreserves DEF RunInv, RunTypeOK
<1>8. CASE EndWarmUp
  <2>1. /\ Running /\ drive = "warmup"
        /\ drive' = "measured" /\ step' = "enter" /\ recording' = TRUE
        /\ UNCHANGED <<mode, token, over, issued, client, rows, runs, outcome>>
    BY <1>8 DEF EndWarmUp, DriveIsOver, Closing, Driving
  <2>2. GateMatchesDrive' /\ DriveIsNeeded'
    BY <2>1 DEF RunInv, GateMatchesDrive, DriveIsNeeded, Running
  <2>3. QED
    BY <2>1, <2>2, PhasePreserves DEF RunInv, RunTypeOK, Drives
<1>9. CASE EndRepetition
  BY <1>9, EndRepetitionPreserves
<1>10. QED
  BY <1>1, <1>2, <1>3, <1>4, <1>5, <1>6, <1>7, <1>8, <1>9 DEF Proceed

LEMMA TurnPreserves ==
  ASSUME RunInv, NEW c \in Clients, Turn(c)
  PROVE  RunInv'
<1> DEFINE Stands == UNCHANGED <<mode, token, drive, step, over, issued, recording, rows, runs, outcome>>
<1>1. Stands => rows' \subseteq ({"started", "ended"} \X Request) /\ RowsMeasured'
  BY DEF RunInv, RunTypeOK, RowsMeasured
<1>2. CASE ClientTurn(c)
  <2>1. Driving /\ mode = "closed_loop" /\ (Issue(c) \/ (Go(c, "stopped") /\ Stands))
    BY <1>2 DEF ClientTurn
  <2>2. QED
    BY <1>1, <2>1, IssuePreserves, GoPreserves
<1>3. CASE ArrivalTurn(c)
  <2>1. Driving /\ (Issue(c) \/ Cancelled)
    BY <1>3 DEF ArrivalTurn
  <2>2. Len(runs) < Repetitions
    BY <2>1 DEF RunInv, GateMatchesDrive, DriveIsNeeded, Driving
  <2>3. QED
    BY <2>1, <2>2, IssuePreserves, CancelledPreserves
<1>4. CASE Unwind(c)
  <2>1. Go(c, "gone") /\ Stands
    BY <1>4 DEF Unwind
  <2>2. QED
    BY <1>1, <2>1, GoPreserves
<1>5. QED
  BY <1>2, <1>3, <1>4 DEF Turn

\* The step lemma: one case per kind of step.
LEMMA RunStep ==
  ASSUME RunInv, [RunNext]_runVars
  PROVE  RunInv'
<1>1. CASE RequestCancellation
  <2>1. /\ token' = TRUE
        /\ UNCHANGED <<mode, drive, step, over, issued, client, recording, rows, runs, outcome>>
    BY <1>1 DEF RequestCancellation
  <2>2. RunTypeOK'
    BY <2>1 DEF RunInv, RunTypeOK
  <2>3. GateMatchesDrive' /\ DriveIsNeeded' /\ ArrivalsUnstopped'
    BY <2>1 DEF RunInv, GateMatchesDrive, DriveIsNeeded, ArrivalsUnstopped, Running, At, Sent
  <2>4. RowsMeasured' /\ WarmUpUnrecorded' /\ OutcomeMatchesRuns' /\ ArrivalRepetitionsWhole'
    BY <2>1 DEF RunInv, RowsMeasured, WarmUpUnrecorded, OutcomeMatchesRuns, ArrivalRepetitionsWhole
  <2>5. QED
    BY <2>2, <2>3, <2>4 DEF RunInv
<1>2. CASE Proceed
  BY <1>2, ProceedPreserves
<1>3. ASSUME NEW c \in Clients, Turn(c) PROVE RunInv'
  BY <1>3, TurnPreserves
<1>4. ASSUME NEW c \in Clients, Answer(c) PROVE RunInv'
  BY <1>4, AnswerPreserves
<1>5. CASE UNCHANGED runVars
  <2>1. RunTypeOK'
    BY <1>5 DEF RunInv, RunTypeOK, runVars
  <2>2. GateMatchesDrive' /\ DriveIsNeeded' /\ ArrivalsUnstopped'
    BY <1>5 DEF RunInv, GateMatchesDrive, DriveIsNeeded, ArrivalsUnstopped, Running, At, Sent, runVars
  <2>3. RowsMeasured' /\ WarmUpUnrecorded' /\ OutcomeMatchesRuns' /\ ArrivalRepetitionsWhole'
    BY <1>5 DEF RunInv, RowsMeasured, WarmUpUnrecorded, OutcomeMatchesRuns,
                ArrivalRepetitionsWhole, runVars
  <2>4. QED
    BY <2>1, <2>2, <2>3 DEF RunInv
<1>6. QED
  BY <1>1, <1>2, <1>3, <1>4, <1>5 DEF RunNext, Stay

LEMMA RunInvAlways == RunSpec => []RunInv
<1>1. RunInit => RunInv
  BY RunInitHolds
<1>2. RunInv /\ [RunNext]_runVars => RunInv'
  BY RunStep
<1>3. QED
  BY <1>1, <1>2, PTL DEF RunSpec

-------------------------------------------------------------------------------
\* The runner's state has its type throughout, whatever the number of clients and
\* repetitions; in particular what is kept of a repetition can be counted.
THEOREM RunTypeCorrect == RunSpec => []RunTypeOK
<1>1. RunInv => RunTypeOK
  BY DEF RunInv
<1>2. QED
  BY <1>1, RunInvAlways, PTL

\* The result of run_async() is honest: completed only with every repetition,
\* cancelled only with one missing, at whatever moment the token is set.
THEOREM OutcomeIsHonest == RunSpec => []OutcomeMatchesRuns
<1>1. RunInv => OutcomeMatchesRuns
  BY DEF RunInv
<1>2. QED
  BY <1>1, RunInvAlways, PTL

\* The recording gate keeps every row of the warm-up out of every repetition.
THEOREM GateKeepsWarmUpOut == RunSpec => []WarmUpUnrecorded
<1>1. RunInv => WarmUpUnrecorded
  BY DEF RunInv
<1>2. QED
  BY <1>1, RunInvAlways, PTL

\* A repetition that an arrival process hands in was not cut short by the token.
THEOREM ArrivalsHandInWhole == RunSpec => []ArrivalRepetitionsWhole
<1>1. RunInv => ArrivalRepetitionsWhole
  BY DEF RunInv
<1>2. QED
  BY <1>1, RunInvAlways, PTL
===============================================================================

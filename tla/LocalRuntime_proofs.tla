-------------------------- MODULE LocalRuntime_proofs --------------------------
(***************************************************************************)
(* What holds of LocalRuntime for every set of ids, executions and         *)
(* reasons: the type, StatusBacksCancel and OutcomeBelongs.                *)
(***************************************************************************)
EXTENDS LocalRuntime, TLAPS

\* An execution that was scheduled runs a known id.
PlacesHaveIds == \A x \in Executions : exec[x].at # "unused" => exec[x].id \in Ids

\* Only tokens that were handed out are set, each with a reason.
TokensGiven ==
  \A x \in Executions : token[x].set =>
    exec[x].at # "unused" /\ token[x].reason \in GivenReasons

\* A job was written by an execution, and a result is that of one that is over.
JobsHaveWriters ==
  \A i \in Ids :
    /\ jobs[i].status # "unknown" => jobs[i].by \in Executions
    /\ results[i] # Nobody => exec[results[i]].at = "over"

LocalInv ==
  /\ LocalTypeOK
  /\ PlacesHaveIds /\ TokensGiven /\ JobsHaveWriters
  /\ StatusBacksCancel /\ OutcomeBelongs

-------------------------------------------------------------------------------
LEMMA LocalInitHolds == LocalInit => LocalInv
<1> SUFFICES ASSUME LocalInit PROVE LocalInv
  OBVIOUS
<1>1. LocalTypeOK
  BY DEF LocalInit, LocalTypeOK, NoJob, Job, Places
<1>2. PlacesHaveIds /\ TokensGiven
  BY DEF LocalInit, PlacesHaveIds, TokensGiven
<1>3. JobsHaveWriters /\ StatusBacksCancel /\ OutcomeBelongs
  BY DEF LocalInit, JobsHaveWriters, StatusBacksCancel, OutcomeBelongs, NoJob, Job, LiveStatus
<1>4. QED
  BY <1>1, <1>2, <1>3 DEF LocalInv

LEMMA CreatePreserves ==
  ASSUME LocalInv, NEW i \in Ids, Create(i)
  PROVE  LocalInv'
BY DEF LocalInv, Create, LocalTypeOK, PlacesHaveIds, TokensGiven, JobsHaveWriters,
       StatusBacksCancel, OutcomeBelongs, Live

\* A new execution of an id takes over the id's job and token.
LEMMA RunPreserves ==
  ASSUME LocalInv, NEW i \in Ids, NEW x \in Executions, Run(i, x)
  PROVE  LocalInv'
<1> USE LocalAssumption DEF LocalInv
<1>1. /\ exec[x].at = "unused" /\ exec'[x] = [id |-> i, at |-> "scheduled"]
      /\ \A y \in Executions : y # x => exec'[y] = exec[y]
      /\ jobs'[i] = Job("running", x, NoReason) /\ tokens'[i] = x
      /\ \A j \in Ids : j # i => jobs'[j] = jobs[j] /\ tokens'[j] = tokens[j]
      /\ token' = token /\ results' = results /\ specs' = specs
  BY DEF Run, LocalTypeOK
<1>2. LocalTypeOK'
  BY DEF Run, LocalTypeOK, Job, LiveStatus, Places
<1>3. PlacesHaveIds' /\ TokensGiven'
  BY <1>1 DEF PlacesHaveIds, TokensGiven
<1>4. JobsHaveWriters'
  <2>1. \A j \in Ids : results[j] # Nobody => results[j] # x /\ results[j] \in Executions
    BY <1>1 DEF JobsHaveWriters, LocalTypeOK
  <2>2. jobs'[i].by = x
    BY <1>1 DEF Job
  <2>3. \A j \in Ids : results[j] # Nobody => exec'[results[j]].at = "over"
    BY <1>1, <2>1 DEF JobsHaveWriters
  <2>4. \A j \in Ids : jobs'[j].status # "unknown" => jobs'[j].by \in Executions
    BY <1>1, <2>2 DEF JobsHaveWriters
  <2>5. QED
    BY <1>1, <2>3, <2>4 DEF JobsHaveWriters
<1>5. StatusBacksCancel'
  <2>1. ~token[x].set
    BY <1>1 DEF TokensGiven
  <2>2. \A j \in Ids : j # i /\ jobs[j].status \in LiveStatus => tokens[j] # x /\ tokens[j] \in Executions
    BY <1>1 DEF StatusBacksCancel, Live, LocalTypeOK
  <2>3. QED
    BY <1>1, <2>1, <2>2 DEF StatusBacksCancel, Live, Job, LiveStatus
<1>6. OutcomeBelongs'
  <2>1. \A j \in Ids : results[j] # Nobody => results[j] # x /\ results[j] \in Executions
    BY <1>1 DEF JobsHaveWriters, LocalTypeOK
  <2>2. QED
    BY <1>1, <2>1 DEF OutcomeBelongs, Live, Job
<1>7. QED
  BY <1>2, <1>3, <1>4, <1>5, <1>6

\* An execution moves on without writing anything.
LEMMA MovePreserves ==
  ASSUME LocalInv, NEW x \in Executions, NEW place \in {"running", "closing"},
         exec[x].at \in {"scheduled", "running"},
         exec' = [exec EXCEPT ![x].at = place],
         UNCHANGED <<specs, results, jobs, tokens, token>>
  PROVE  LocalInv'
<1> USE DEF LocalInv
<1>1. /\ exec'[x] = [id |-> exec[x].id, at |-> place]
      /\ \A y \in Executions : y # x => exec'[y] = exec[y]
  BY DEF LocalTypeOK
<1>2. LocalTypeOK'
  BY DEF LocalTypeOK, Places
<1>3. PlacesHaveIds' /\ TokensGiven'
  BY <1>1 DEF PlacesHaveIds, TokensGiven
<1>4. \A y \in Executions : exec'[y].id = exec[y].id /\ (Live(y)' <=> Live(y))
                            /\ (exec'[y].at = "over" <=> exec[y].at = "over")
  BY <1>1 DEF Live
<1>5. JobsHaveWriters'
  BY <1>4 DEF JobsHaveWriters, LocalTypeOK
<1>6. StatusBacksCancel'
  BY <1>4 DEF StatusBacksCancel, LocalTypeOK
<1>7. OutcomeBelongs'
  BY <1>4 DEF OutcomeBelongs, LocalTypeOK
<1>8. QED
  BY <1>2, <1>3, <1>5, <1>6, <1>7

\* An execution ends and writes its outcome; a result is kept only of a completed one.
LEMMA StorePreserves ==
  ASSUME LocalInv, NEW x \in Executions, NEW status \in Terminal,
         NEW error \in GivenReasons \union {NoReason, "exception"},
         exec[x].at \in {"running", "closing"}, Store(x, status, error),
         status = "completed" => results' = [results EXCEPT ![exec[x].id] = x],
         status # "completed" => results' = results,
         status = "cancelled" => token[x].set /\ error = token[x].reason
  PROVE  LocalInv'
<1> DEFINE i == exec[x].id
<1> USE LocalAssumption DEF LocalInv
<1>1. i \in Ids
  BY DEF PlacesHaveIds
<1>2. /\ exec'[x] = [id |-> i, at |-> "over"]
      /\ \A y \in Executions : y # x => exec'[y] = exec[y]
      /\ jobs'[i] = Job(status, x, error)
      /\ \A j \in Ids : j # i => jobs'[j] = jobs[j]
      /\ token' = token /\ tokens' = tokens /\ specs' = specs
  BY <1>1 DEF Store, LocalTypeOK
<1>3. /\ \A j \in Ids : j # i => results'[j] = results[j]
      /\ results'[i] = IF status = "completed" THEN x ELSE results[i]
      /\ results' \in [Ids -> Executions \union {Nobody}]
  BY <1>1 DEF LocalTypeOK
<1>4. exec[x].id = i
  OBVIOUS
<1> HIDE DEF i
<1>5. LocalTypeOK'
  <2>1. jobs' \in [Ids -> [status : Terminal \union LiveStatus \union {"unknown"},
                           by : Executions \union {Nobody},
                           error : GivenReasons \union {NoReason, "exception"}]]
    BY <1>1, <1>4 DEF Store, Job, LocalTypeOK
  <2>2. exec' \in [Executions -> [id : Ids \union {Nobody}, at : Places]]
    BY DEF Store, LocalTypeOK, Places
  <2>3. QED
    BY <1>2, <1>3, <2>1, <2>2 DEF LocalTypeOK
<1>6. PlacesHaveIds' /\ TokensGiven'
  BY <1>1, <1>2 DEF PlacesHaveIds, TokensGiven
<1>7. \A y \in Executions : exec'[y].id = exec[y].id
                            /\ (y # x => (Live(y)' <=> Live(y)))
                            /\ (exec[y].at = "over" => exec'[y].at = "over")
  BY <1>2, <1>4 DEF Live
<1>8. JobsHaveWriters'
  BY <1>2, <1>3, <1>7 DEF JobsHaveWriters, LocalTypeOK, Job
<1>9. StatusBacksCancel'
  <2>1. SUFFICES ASSUME NEW j \in Ids, jobs'[j].status \in LiveStatus
                 PROVE  /\ tokens'[j] # Nobody /\ tokens'[j] = jobs'[j].by
                        /\ Live(tokens[j])' /\ exec'[tokens'[j]].id = j
                        /\ jobs'[j].status = "cancel_requested" <=> token'[tokens'[j]].set
    BY <1>2 DEF StatusBacksCancel
  <2>2. j # i
    BY <1>2, <2>1 DEF Job, Terminal, LiveStatus
  <2>3. tokens[j] \in Executions /\ exec[tokens[j]].id = j /\ Live(tokens[j])
    BY <1>2, <2>1, <2>2 DEF StatusBacksCancel, LocalTypeOK
  <2>4. tokens[j] # x
    BY <1>4, <2>2, <2>3
  <2>5. QED
    BY <1>2, <1>7, <2>1, <2>2, <2>3, <2>4 DEF StatusBacksCancel
<1>10. OutcomeBelongs'
  <2>1. \A j \in Ids : results[j] # Nobody => results[j] \in Executions /\ results[j] # x
    BY DEF JobsHaveWriters, LocalTypeOK
  <2>2. ~Live(x)'
    BY <1>2 DEF Live
  <2>3. \A j \in Ids : results'[j] # Nobody => ~Live(results[j])' /\ exec'[results'[j]].id = j
    BY <1>2, <1>3, <1>4, <1>7, <2>1, <2>2 DEF OutcomeBelongs
  <2>4. \A j \in Ids : jobs'[j].status = "completed" => results'[j] = jobs'[j].by
    BY <1>2, <1>3 DEF OutcomeBelongs, Job
  <2>5. \A j \in Ids : jobs'[j].status = "cancelled" =>
          token'[jobs'[j].by].set /\ jobs'[j].error = token'[jobs'[j].by].reason
            /\ jobs'[j].error \in GivenReasons
    BY <1>2 DEF OutcomeBelongs, Job, TokensGiven
  <2>6. QED
    BY <2>3, <2>4, <2>5 DEF OutcomeBelongs
<1>11. QED
  BY <1>5, <1>6, <1>8, <1>9, <1>10

LEMMA CancelPreserves ==
  ASSUME LocalInv, NEW i \in Ids, NEW reason \in Reasons \union {NoReason}, CancelJob(i, reason)
  PROVE  LocalInv'
<1> DEFINE x == tokens[i]
           given == IF reason = NoReason THEN Default ELSE reason
<1> USE LocalAssumption DEF LocalInv
<1>1. jobs[i].status = "running" /\ given \in GivenReasons
  <2>1. jobs[i].status \in Terminal \union LiveStatus \union {"unknown"}
    BY DEF LocalTypeOK
  <2>2. jobs[i].status = "running"
    BY <2>1 DEF CancelJob, CancelAnswer, Terminal, LiveStatus
  <2>3. QED
    BY <2>2 DEF GivenReasons
<1>2. /\ x \in Executions /\ x = jobs[i].by /\ Live(x) /\ exec[x].id = i /\ ~token[x].set
  BY <1>1 DEF StatusBacksCancel, LiveStatus, LocalTypeOK
<1>3. /\ token'[x] = [set |-> TRUE, reason |-> given]
      /\ \A y \in Executions : y # x => token'[y] = token[y]
      /\ token' \in [Executions -> [set : BOOLEAN, reason : GivenReasons \union {NoReason}]]
  BY <1>1, <1>2 DEF CancelJob, Request, LocalTypeOK
<1> HIDE DEF x, given
<1>4. /\ jobs'[i] = [jobs[i] EXCEPT !.status = "cancel_requested"]
      /\ \A j \in Ids : j # i => jobs'[j] = jobs[j]
      /\ specs' = specs /\ results' = results /\ tokens' = tokens /\ exec' = exec
  BY DEF CancelJob, LocalTypeOK
<1>5. LocalTypeOK'
  <2>1. [jobs[i] EXCEPT !.status = "cancel_requested"] \in
          [status : Terminal \union LiveStatus \union {"unknown"},
           by : Executions \union {Nobody},
           error : GivenReasons \union {NoReason, "exception"}]
    BY DEF LocalTypeOK, LiveStatus
  <2>2. jobs' = [jobs EXCEPT ![i] = [jobs[i] EXCEPT !.status = "cancel_requested"]]
    BY DEF CancelJob
  <2>3. jobs' \in [Ids -> [status : Terminal \union LiveStatus \union {"unknown"},
                           by : Executions \union {Nobody},
                           error : GivenReasons \union {NoReason, "exception"}]]
    BY <2>1, <2>2 DEF LocalTypeOK
  <2>4. QED
    BY <1>3, <1>4, <2>3 DEF LocalTypeOK
<1>6. PlacesHaveIds' /\ TokensGiven'
  BY <1>1, <1>2, <1>3, <1>4 DEF PlacesHaveIds, TokensGiven, Live
<1>7. jobs'[i].status = "cancel_requested" /\ jobs'[i].by = jobs[i].by
  BY <1>4 DEF LocalTypeOK
<1>8. JobsHaveWriters'
  BY <1>1, <1>4, <1>7 DEF JobsHaveWriters
<1>9. StatusBacksCancel'
  <2>1. \A j \in Ids : j # i /\ jobs[j].status \in LiveStatus => tokens[j] \in Executions /\ tokens[j] # x
    BY <1>2 DEF StatusBacksCancel, LocalTypeOK
  <2>2. x = tokens[i]
    BY DEF x
  <2>3. SUFFICES ASSUME NEW j \in Ids, jobs'[j].status \in LiveStatus
                 PROVE  /\ tokens'[j] # Nobody /\ tokens'[j] = jobs'[j].by
                        /\ Live(tokens[j])' /\ exec'[tokens'[j]].id = j
                        /\ jobs'[j].status = "cancel_requested" <=> token'[tokens'[j]].set
    BY <1>4 DEF StatusBacksCancel
  <2>4. CASE j = i
    <3>1. tokens'[j] = x /\ tokens[j] = x /\ x # Nobody /\ jobs'[j].by = x
      BY LocalAssumption, <1>2, <1>4, <1>7, <2>2, <2>4
    <3>2. Live(tokens[j])' /\ exec'[x].id = j
      BY <1>2, <1>4, <2>4, <3>1 DEF Live
    <3>3. token'[x].set
      BY <1>3
    <3>4. QED
      BY <1>7, <2>4, <3>1, <3>2, <3>3
  <2>5. CASE j # i
    <3>1. jobs'[j] = jobs[j] /\ jobs[j].status \in LiveStatus
      BY <1>4, <2>3, <2>5
    <3>2. token'[tokens[j]] = token[tokens[j]]
      BY <1>3, <2>1, <2>5, <3>1
    <3>3. QED
      BY <1>4, <3>1, <3>2 DEF StatusBacksCancel, Live
  <2>6. QED
    BY <2>4, <2>5
<1>10. OutcomeBelongs'
  <2>1. \A j \in Ids : jobs[j].status = "cancelled" => jobs[j].by \in Executions /\ jobs[j].by # x
    BY <1>2 DEF OutcomeBelongs, JobsHaveWriters
  <2>2. \A j \in Ids : jobs'[j].status \in {"completed", "cancelled"} => j # i /\ jobs'[j] = jobs[j]
    BY <1>4, <1>7
  <2>3. \A j \in Ids : jobs'[j].status = "cancelled" => token'[jobs'[j].by] = token[jobs[j].by]
    BY <1>3, <2>1, <2>2
  <2>4. \A j \in Ids : results'[j] # Nobody => ~Live(results[j])' /\ exec'[results'[j]].id = j
    BY <1>4 DEF OutcomeBelongs, Live
  <2>5. QED
    BY <1>4, <2>2, <2>3, <2>4 DEF OutcomeBelongs
<1>11. QED
  BY <1>5, <1>6, <1>8, <1>9, <1>10

LEMMA LocalStep == LocalInv /\ [LocalNext]_localVars => LocalInv'
<1> SUFFICES ASSUME LocalInv, [LocalNext]_localVars PROVE LocalInv'
  OBVIOUS
<1>1. CASE UNCHANGED localVars
  BY <1>1 DEF localVars, LocalInv, LocalTypeOK, PlacesHaveIds, TokensGiven, JobsHaveWriters,
              StatusBacksCancel, OutcomeBelongs, Live
<1>2. ASSUME NEW i \in Ids, Create(i) PROVE LocalInv'
  BY <1>2, CreatePreserves
<1>3. ASSUME NEW i \in Ids, NEW x \in Executions, Run(i, x) PROVE LocalInv'
  BY <1>3, RunPreserves
<1>4. ASSUME NEW i \in Ids, NEW reason \in Reasons \union {NoReason}, CancelJob(i, reason)
      PROVE  LocalInv'
  BY <1>4, CancelPreserves
<1>5. ASSUME NEW x \in Executions, Start(x) \/ LastLook(x) PROVE LocalInv'
  BY <1>5, MovePreserves DEF Start, LastLook
<1>6. ASSUME NEW x \in Executions, Complete(x) PROVE LocalInv'
  BY <1>6, StorePreserves DEF Complete, Terminal
<1>7. ASSUME NEW x \in Executions, Stop(x) PROVE LocalInv'
  <2>1. token[x].reason \in GivenReasons
    BY <1>7 DEF Stop, LocalInv, TokensGiven
  <2>2. QED
    BY <1>7, <2>1, StorePreserves DEF Stop, Terminal
<1>8. ASSUME NEW x \in Executions, Fail(x) PROVE LocalInv'
  BY <1>8, StorePreserves DEF Fail, Terminal
<1>9. QED
  BY <1>1, <1>2, <1>3, <1>4, <1>5, <1>6, <1>7, <1>8 DEF LocalNext

LEMMA LocalInvariant == LocalSpec => []LocalInv
BY LocalInitHolds, LocalStep, PTL DEF LocalSpec

-------------------------------------------------------------------------------
\* For any number of ids and executions, of one id or of several at once, a status that
\* says an experiment runs has a live execution and its token behind it.
THEOREM LiveStatusIsBacked == LocalSpec => []StatusBacksCancel
<1>1. LocalInv => StatusBacksCancel
  BY DEF LocalInv
<1>2. QED
  BY <1>1, LocalInvariant, PTL

\* For any number of ids and executions, a finished status shows the result and the
\* reason of the execution that wrote it.
THEOREM OutcomesBelong == LocalSpec => []OutcomeBelongs
<1>1. LocalInv => OutcomeBelongs
  BY DEF LocalInv
<1>2. QED
  BY <1>1, LocalInvariant, PTL
===============================================================================

-------------------------------- MODULE JobQueue --------------------------------
(***************************************************************************)
(* The Redis job queue of controlplane/queue.py and the part of the        *)
(* worker's loop that talks to it: a list of queued job ids, a list of the *)
(* ids being processed, and one hash per job.  Every Redis command that    *)
(* changes the queue or whose answer matters, and every pipeline           *)
(* (MULTI/EXEC), is one step; a worker may crash between any two of its    *)
(* commands and be restarted.                                              *)
(*                                                                         *)
(* A payload is abstracted to its claimed_at, and that to what the scan    *)
(* for stuck jobs asks of it.  The hashes are never deleted, so the code   *)
(* for a missing payload is never reached and is left out.                 *)
(***************************************************************************)
EXTENDS Naturals, Sequences, FiniteSets, SequencesExt

CONSTANTS Jobs,        \* job ids
          Workers,     \* worker processes
          NoJob,       \* a worker that holds no job
          MaxEnqueues, \* bound: calls of enqueue_experiment()
          MaxCrashes   \* bound: crashes of workers

ASSUME JobQueueAssumption ==
  /\ IsFiniteSet(Jobs) /\ IsFiniteSet(Workers)
  /\ NoJob \notin Jobs
  /\ MaxEnqueues \in Nat
  /\ MaxCrashes \in Nat

VARIABLES queue,       \* the list of queued ids, the next one to be popped first
          processing,  \* the list of ids in processing, the newest first
          job,         \* job[j]: status and claimed_at in the hash of j
          worker,      \* worker[w]: program counter and locals of run_worker()
          up,          \* the worker processes that are deployed
          enqueues, crashes

jobQueueVars == <<queue, processing, job, worker, up, enqueues, crashes>>

Finished == {"COMPLETED", "FAILED", "CANCELLED"}

JobStatus == {"absent", "QUEUED", "RUNNING"} \union Finished

Claims == {"never", "fresh", "aged"}

\* at: "top" of the loop; in a scan of the processing list "scanning", "judging" (the
\* payload of the next id was read, with the claim seen) or "dropping" (and its job was
\* cancelled); "claiming"; "popped" (an id was moved to the processing list);
\* "holding" a claimed job.
InScan == {"scanning", "judging", "dropping"}

WorkerStart ==
  [at |-> "top", job |-> NoJob, scan |-> <<>>, seen |-> "never", stuck |-> <<>>]

JobQueueTypeOK ==
  /\ queue \in Seq(Jobs)
  /\ processing \in Seq(Jobs)
  /\ job \in [Jobs -> [status : JobStatus, claimed : Claims]]
  /\ \A w \in Workers :
       /\ worker[w].at \in {"top", "claiming", "popped", "holding"} \union InScan
       /\ worker[w].seen \in Claims
       /\ worker[w].job \in Jobs \union {NoJob}
       /\ worker[w].scan \in Seq(Jobs) /\ worker[w].stuck \in Seq(Jobs)
  /\ up \subseteq Workers
  /\ enqueues \in 0..MaxEnqueues
  /\ crashes \in 0..MaxCrashes

JobQueueInit ==
  /\ queue = <<>>
  /\ processing = <<>>
  /\ job = [j \in Jobs |-> [status |-> "absent", claimed |-> "never"]]
  /\ worker = [w \in Workers |-> WorkerStart]
  /\ up \in SUBSET Workers \ {{}}
  /\ enqueues = 0
  /\ crashes = 0

-------------------------------------------------------------------------------
\* LREM list 1 id.
Lrem(list, j) == RemoveFirst(list, j)

\* LREM, for each id of a sequence in turn.
LremAll(list, ids) == FoldLeft(Lrem, list, ids)

\* enqueue_experiment(): hset and lpush for every run of the experiment.
Enqueue(ids) ==
  /\ enqueues < MaxEnqueues
  /\ enqueues' = enqueues + 1
  /\ queue' = queue \o ids
  /\ job' = [j \in Jobs |-> IF Contains(ids, j)
                            THEN [status |-> "QUEUED", claimed |-> "never"]
                            ELSE job[j]]
  /\ UNCHANGED <<processing, worker, crashes, up>>

\* requeue_stuck_jobs() reads the processing list.
BeginScan(w) ==
  /\ worker[w].at = "top"
  /\ worker' = [worker EXCEPT ![w].at = "scanning", ![w].scan = processing,
                              ![w].stuck = <<>>]
  /\ UNCHANGED <<queue, processing, job, enqueues, crashes, up>>

\* The payload of the next id.
ReadPayload(w) ==
  /\ worker[w].at = "scanning" /\ worker[w].scan # <<>>
  /\ worker' = [worker EXCEPT ![w].at = "judging",
                              ![w].seen = job[Head(worker[w].scan)].claimed]
  /\ UNCHANGED <<queue, processing, job, enqueues, crashes, up>>

\* The scan is done with its next id, which is added to the stuck ones or not.
NextId(w, stuck) ==
  worker' = [worker EXCEPT ![w].at = "scanning", ![w].scan = Tail(@),
                           ![w].seen = "never", ![w].stuck = @ \o stuck]

\* Plausible slip: an id whose job is not running is taken for a leftover.
MutJudgeItem(w) ==
  LET j == Head(worker[w].scan) IN
  /\ worker[w].at = "judging"
  /\ \/ job[j].status # "RUNNING" /\ worker' = [worker EXCEPT ![w].at = "dropping"]
     \/ job[j].status = "RUNNING" /\ worker[w].seen # "never" /\ NextId(w, <<j>>)
     \/ job[j].status = "RUNNING" /\ worker[w].seen # "aged" /\ NextId(w, <<>>)
  /\ UNCHANGED <<queue, processing, job, enqueues, crashes, up>>

\* Its status: a cancelled job is to be dropped, and one whose claim, as it was read, is
\* too old is stuck.  (A claim that was fresh when it was read may have come of age.)
JudgeItem(w) ==
  LET j == Head(worker[w].scan) IN
  /\ worker[w].at = "judging"
  /\ \/ job[j].status = "CANCELLED" /\ worker' = [worker EXCEPT ![w].at = "dropping"]
     \/ job[j].status # "CANCELLED" /\ worker[w].seen # "never" /\ NextId(w, <<j>>)
     \/ job[j].status # "CANCELLED" /\ worker[w].seen # "aged" /\ NextId(w, <<>>)
  /\ UNCHANGED <<queue, processing, job, enqueues, crashes, up>>

\* The cancelled job leaves the processing list, whatever its status is by now.
DropItem(w) ==
  /\ worker[w].at = "dropping"
  /\ processing' = Lrem(processing, Head(worker[w].scan))
  /\ NextId(w, <<>>)
  /\ UNCHANGED <<queue, job, enqueues, crashes, up>>

\* Plausible slip: the stuck ids are queued again and stay in the processing list.
MutRequeue(w) ==
  LET stuck == worker[w].stuck IN
  /\ worker[w].at = "scanning" /\ worker[w].scan = <<>>
  /\ queue' = queue \o stuck
  /\ job' = [j \in Jobs |-> IF Contains(stuck, j)
                            THEN [job[j] EXCEPT !.status = "QUEUED"] ELSE job[j]]
  /\ worker' = [worker EXCEPT ![w].at = "claiming", ![w].stuck = <<>>]
  /\ UNCHANGED <<processing, enqueues, crashes, up>>

\* The pipeline that requeues the stuck ids, if there are any; claimed_at keeps its old
\* value.
Requeue(w) ==
  LET stuck == worker[w].stuck IN
  /\ worker[w].at = "scanning" /\ worker[w].scan = <<>>
  /\ processing' = LremAll(processing, stuck)
  /\ queue' = queue \o stuck
  /\ job' = [j \in Jobs |-> IF Contains(stuck, j)
                            THEN [job[j] EXCEPT !.status = "QUEUED"] ELSE job[j]]
  /\ worker' = [worker EXCEPT ![w].at = "claiming", ![w].stuck = <<>>]
  /\ UNCHANGED <<enqueues, crashes, up>>

\* BRPOPLPUSH, or its timeout.
Pop(w) ==
  /\ worker[w].at = "claiming" /\ queue # <<>>
  /\ queue' = Tail(queue)
  /\ processing' = <<Head(queue)>> \o processing
  /\ worker' = [worker EXCEPT ![w].at = "popped", ![w].job = Head(queue)]
  /\ UNCHANGED <<job, enqueues, crashes, up>>

PopTimeout(w) ==
  /\ worker[w].at = "claiming" /\ queue = <<>>
  /\ worker' = [worker EXCEPT ![w].at = "top"]
  /\ UNCHANGED <<queue, processing, job, enqueues, crashes, up>>

\* Plausible slip: the claim does not store claimed_at.
MutMarkClaimed(w) ==
  /\ worker[w].at = "popped"
  /\ job' = [job EXCEPT ![worker[w].job].status = "RUNNING"]
  /\ worker' = [worker EXCEPT ![w].at = "holding"]
  /\ UNCHANGED <<queue, processing, enqueues, crashes, up>>

\* The rest of claim_job(): the payload is stored with a new claimed_at.  (It was read
\* just before, for what the model leaves out of it.)
MarkClaimed(w) ==
  /\ worker[w].at = "popped"
  /\ job' = [job EXCEPT ![worker[w].job] = [status |-> "RUNNING", claimed |-> "fresh"]]
  /\ worker' = [worker EXCEPT ![w].at = "holding"]
  /\ UNCHANGED <<queue, processing, enqueues, crashes, up>>

\* complete_job().
CompleteJob(w, status) ==
  /\ worker[w].at = "holding"
  /\ job' = [job EXCEPT ![worker[w].job].status = status]
  /\ processing' = Lrem(processing, worker[w].job)
  /\ worker' = [worker EXCEPT ![w] = WorkerStart]
  /\ UNCHANGED <<queue, enqueues, crashes, up>>

\* More than max_age_seconds pass after a claim, whether the worker lives or not.
Age(j) ==
  /\ job[j].claimed = "fresh"
  /\ job' = [job EXCEPT ![j].claimed = "aged"]
  /\ UNCHANGED <<queue, processing, worker, enqueues, crashes, up>>

\* A worker dies and is started again: what it knew is lost.  Crashes are left to
\* deployments of one worker (deployment/kubernetes/worker-deployment.yaml).
Crash(w) ==
  /\ up = {w}
  /\ crashes < MaxCrashes
  /\ crashes' = crashes + 1
  /\ worker' = [worker EXCEPT ![w] = WorkerStart]
  /\ UNCHANGED <<queue, processing, job, enqueues, up>>

QueueStep(w) ==
  /\ w \in up
  /\ \/ BeginScan(w) \/ ReadPayload(w) \/ JudgeItem(w) \/ DropItem(w) \/ Requeue(w)
     \/ Pop(w) \/ PopTimeout(w) \/ MarkClaimed(w)

\* On its own the queue is fed with one job at a time, and never with one that is
\* still queued or running.
EnqueueIdle(j) == job[j].status \in {"absent"} \union Finished /\ Enqueue(<<j>>)

JobQueueNext ==
  \/ \E j \in Jobs : EnqueueIdle(j) \/ Age(j)
  \/ \E w \in Workers :
       \/ QueueStep(w) \/ Crash(w)
       \/ \E status \in Finished : CompleteJob(w, status)

\* A worker keeps running its loop and finishes its jobs; time passes.
JobQueueFairness ==
  /\ \A w \in Workers :
       WF_jobQueueVars(QueueStep(w) \/ \E status \in Finished : CompleteJob(w, status))
  /\ \A j \in Jobs : WF_jobQueueVars(Age(j))

JobQueueSpec == JobQueueInit /\ [][JobQueueNext]_jobQueueVars /\ JobQueueFairness

-------------------------------------------------------------------------------
Occurrences(list, j) == Cardinality({i \in DOMAIN list : list[i] = j})

\* With one worker, crashes and all, and jobs that are not queued again before they are
\* finished, a job that is queued or running has exactly one entry in the two lists, and
\* a finished one has none: no job is lost and none is delivered twice at a time.
OneEntryPerJob ==
  Cardinality(up) = 1 => \A j \in Jobs :
    Occurrences(queue, j) + Occurrences(processing, j) =
      IF job[j].status \in {"QUEUED", "RUNNING"} THEN 1 ELSE 0

\* However workers overtake each other - a job requeued under a worker that still has
\* it, requeued twice by two scans, or completed by another worker than the one its
\* entry is for - an unfinished job is on a list, or in the hands of a worker that has
\* popped it, holds it or is about to requeue it.
NeverLost ==
  \A j \in Jobs : job[j].status \in {"QUEUED", "RUNNING"} =>
    \/ Contains(queue, j) \/ Contains(processing, j)
    \/ \E w \in Workers : worker[w].job = j \/ Contains(worker[w].stuck, j)

\* A job that was claimed once is finished in the end, however often its worker
\* crashes while it holds the job, has popped it again, or is requeueing it.  (A crash
\* between a job's first BRPOPLPUSH and the hset that follows leaves no claimed_at,
\* and no scan finds the job again.)
ClaimedJobsFinish ==
  \A j \in Jobs : job[j].status = "RUNNING" ~> job[j].status \in Finished
===============================================================================

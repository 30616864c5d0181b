----------------------------- MODULE ArtifactStore -----------------------------
(***************************************************************************)
(* The artifact bundles on disk: write_artifacts() and verify_artifacts()  *)
(* of experiments/artifacts.py, the programs that call them (matrix and    *)
(* reproduce --all of the CLI) and the API that serves single files of a   *)
(* bundle.                                                                 *)
(*                                                                         *)
(* A file holds the number of the write_artifacts() call that wrote it, or *)
(* for the configuration the repetitions asked for, in which alone the     *)
(* calls of one item differ (reproduce --repetitions).  Opening a file to  *)
(* write truncates it, so each file takes two steps, and the program may   *)
(* fail, be interrupted or be killed between any two.  An item is one      *)
(* condition of a matrix or one benchmark: its directory is reused by      *)
(* every later invocation and never cleaned.  The worker of the control    *)
(* plane writes its bundles as reproduce does, without the verification.   *)
(***************************************************************************)
EXTENDS Integers, Sequences, FiniteSets, SequencesExt

CONSTANTS Items,           \* number of items of an invocation
          MaxReps,         \* bound: repetitions of an experiment
          MaxInvocations   \* bound: times a program is started

ASSUME StoreAssumption ==
  /\ Items \in Nat \ {0}
  /\ MaxReps \in Nat \ {0}
  /\ MaxInvocations \in Nat

VARIABLES disk,     \* disk[i][f]: the file f in the directory of item i
          reps,     \* reps[v]: repetitions of the result written by call v
          program,  \* kind, where it is, its item, repetitions and files to write
          status,   \* condition_manifests / results: what was recorded per item
          rows,     \* matrix: the items whose entry is in the comparison
          published,\* the statuses in matrix_manifest / reproduction_manifest
          started,  \* invocations so far
          reader    \* one request for a file to the API

storeVars == <<disk, reps, program, status, rows, published, started, reader>>

Kinds == {"matrix", "reproduce"}
Statuses == {"pending", "ok", "failed", "missing", "corrupt"}

Absent == 0
Torn   == -1

Config     == <<"configuration", 0>>
Statistics == <<"statistics", 0>>
Report     == <<"report", 0>>
Manifest   == <<"manifest", 0>>

\* The records, timeline and events of one repetition, which are written alike.
Raw(n) == <<"raw", n>>

Files == {Config, Statistics, Report, Manifest} \union {Raw(n) : n \in 1..MaxReps}

\* Plausible slip: the manifest is written before the report.
MutWriteOrder(n) ==
  <<Config>> \o [k \in 1..n |-> Raw(k)] \o <<Statistics, Statistics, Manifest, Report>>

\* The order of the writes; statistics.json is written twice.
WriteOrder(n) ==
  <<Config>> \o [k \in 1..n |-> Raw(k)] \o <<Statistics, Statistics, Report, Manifest>>

\* The files the manifest of call v records.
Tracked(v) == {Config, Statistics, Report} \union {Raw(n) : n \in 1..reps[v]}

\* What call v writes, and the content whose hash its manifest records.  (The numbers
\* of configurations are below those of calls.)
Content(f, v) == IF f = Config THEN Torn - reps[v] ELSE v

\* What may be found of a file that call v has written.
LeftSince(f, v) == {Torn} \union {Content(f, u) : u \in v..Len(reps)}

Readable(i) == disk[i][Manifest] \notin {Absent, Torn}

FileIntact(i, f) == Readable(i) /\ f \in Tracked(disk[i][Manifest])
                    /\ disk[i][f] = Content(f, disk[i][Manifest])

\* verify_artifacts().valid; a manifest that cannot be parsed raises instead.
Intact(i) == Readable(i) /\ \A f \in Tracked(disk[i][Manifest]) : FileIntact(i, f)

\* A matrix_manifest / reproduction_manifest that cannot be parsed.
TornManifest == [i \in 1..Items |-> "torn"]

Idle == [kind |-> "matrix", at |-> "idle", item |-> 1, count |-> 1,
         todo |-> <<>>, torn |-> FALSE, ended |-> "never"]

NoRequest == [at |-> "idle", item |-> 1, file |-> Config, seen |-> Absent,
              disturbed |-> FALSE]

StoreTypeOK ==
  /\ disk \in [1..Items -> [Files -> (Torn - MaxReps)..Len(reps)]]
  /\ reps \in Seq(1..MaxReps)
  /\ program.kind \in Kinds
  /\ program.at \in {"idle", "preparing", "writing", "recorded"}
  /\ program.item \in 1..(Items + 1) /\ program.count \in 1..MaxReps
  /\ program.todo \in Seq(Files) /\ program.torn \in BOOLEAN
  /\ program.ended \in {"never", "finished", "interrupted", "unpublished"}
  /\ status \in [1..Items -> Statuses]
  /\ rows \subseteq 1..Items
  /\ published \in [1..Items -> Statuses] \union {TornManifest}
  /\ started \in 0..MaxInvocations
  /\ reader.at \in {"idle", "hashing", "reading"}
  /\ reader.item \in 1..Items /\ reader.file \in Files
  /\ reader.seen \in 0..Len(reps) /\ reader.disturbed \in BOOLEAN

StoreInit ==
  /\ disk = [i \in 1..Items |-> [f \in Files |-> Absent]]
  /\ reps = <<>>
  /\ program \in {[Idle EXCEPT !.kind = kind] : kind \in Kinds}
  /\ status = [i \in 1..Items |-> "pending"]
  /\ rows = {}
  /\ published = [i \in 1..Items |-> "pending"]
  /\ started = 0
  /\ reader = NoRequest

-------------------------------------------------------------------------------
\* A process starts, or ends, with nothing recorded.
NothingRecorded == status' = [i \in 1..Items |-> "pending"] /\ rows' = {}

\* The program is started, or started again with another number of repetitions perhaps.
Begin(n) ==
  /\ program.at = "idle" /\ started < MaxInvocations
  /\ started' = started + 1
  /\ program' = [Idle EXCEPT !.kind = program.kind, !.count = n, !.at = "preparing"]
  /\ NothingRecorded
  /\ UNCHANGED <<disk, reps, published, reader>>

Item == program.item

\* The next item, or the end of the loop.
Advance == program' = [program EXCEPT !.item = @ + 1, !.at = "preparing",
                                      !.todo = <<>>, !.torn = FALSE]

Record(verdict) == status' = [status EXCEPT ![Item] = verdict]

\* The benchmark has no file, its configuration is invalid, or the run raises.
SkipItem ==
  /\ program.at = "preparing" /\ Item <= Items
  /\ \/ program.kind = "reproduce" /\ Record("missing")
     \/ Record("failed")
  /\ Advance
  /\ UNCHANGED <<disk, reps, rows, published, started, reader>>

\* The run returns a result and write_artifacts() is called.
RunItem ==
  /\ program.at = "preparing" /\ Item <= Items
  /\ reps' = Append(reps, program.count)
  /\ program' = [program EXCEPT !.at = "writing", !.todo = WriteOrder(program.count)]
  /\ UNCHANGED <<disk, status, rows, published, started, reader>>

\* A write to the directory a request is looking at.
Disturb == reader' = IF reader.at # "idle" /\ reader.item = Item
                     THEN [reader EXCEPT !.disturbed = TRUE] ELSE reader

OpenFile ==
  /\ program.at = "writing" /\ program.todo # <<>> /\ ~program.torn
  /\ disk' = [disk EXCEPT ![Item][Head(program.todo)] = Torn]
  /\ program' = [program EXCEPT !.torn = TRUE]
  /\ Disturb
  /\ UNCHANGED <<reps, status, rows, published, started>>

FillFile ==
  /\ program.at = "writing" /\ program.torn
  /\ disk' = [disk EXCEPT ![Item][Head(program.todo)] =
                 Content(Head(program.todo), Len(reps))]
  /\ program' = [program EXCEPT !.torn = FALSE, !.todo = Tail(@)]
  /\ Disturb
  /\ UNCHANGED <<reps, status, rows, published, started>>

\* Plausible slip: the except branch does not set the status it found.
MutWriteFails ==
  /\ program.at = "writing" /\ program.todo # <<>>
  /\ Record("ok")
  /\ Advance
  /\ UNCHANGED <<disk, reps, rows, published, started, reader>>

\* A write raises (the disk is full): the item failed, its directory stays as it is.
WriteFails ==
  /\ program.at = "writing" /\ program.todo # <<>>
  /\ Record("failed")
  /\ Advance
  /\ UNCHANGED <<disk, reps, rows, published, started, reader>>

\* write_artifacts() has returned; reproduce verifies the bundle it just wrote.
BundleWritten ==
  /\ program.at = "writing" /\ program.todo = <<>>
  /\ IF program.kind = "reproduce"
     THEN Record(IF Intact(Item) THEN "ok" ELSE "corrupt")
     ELSE Record("ok")
  /\ IF program.kind = "matrix"
     THEN program' = [program EXCEPT !.at = "recorded"]
     ELSE Advance
  /\ UNCHANGED <<disk, reps, rows, published, started, reader>>

\* matrix adds the entry and the observations after the status.
AddRow ==
  /\ program.at = "recorded"
  /\ rows' = rows \union {Item}
  /\ Advance
  /\ UNCHANGED <<disk, reps, status, published, started, reader>>

\* The program is over, and the variables of its loop matter no more.
Stop(how) == program' = [Idle EXCEPT !.kind = program.kind, !.ended = how]

\* The manifest of the invocation is written, or a write raises (or the process dies in
\* one): then the manifest of an earlier invocation stays, or a torn one.  Nothing looks
\* at it in between.
Finalize(how) ==
  /\ \/ published' = status /\ Stop(how) /\ UNCHANGED <<status, rows>>
     \/ published' \in {published, TornManifest} /\ Stop("unpublished") /\ NothingRecorded
  /\ UNCHANGED <<disk, reps, started, reader>>

\* The loop is over.
Finish == program.at = "preparing" /\ Item > Items /\ Finalize("finished")

\* Any exception in the loop of matrix, KeyboardInterrupt above all: the manifest is
\* written with what there is, and an exception of that is suppressed.
Interrupt ==
  /\ program.at # "idle" /\ program.kind = "matrix" /\ Item <= Items
  /\ Finalize("interrupted")

\* The process dies; an interrupt does the same to reproduce, whose old manifest stays.
Kill ==
  /\ program.at # "idle"
  /\ Stop("unpublished") /\ NothingRecorded
  /\ UNCHANGED <<disk, reps, published, started, reader>>

-------------------------------------------------------------------------------
\* _artifact_file_or_404(): the file and the manifest exist, and the manifest, read
\* once, tracks the file.  Otherwise the answer is 404 and nothing is kept.
Ask(i, f) ==
  /\ reader.at = "idle"
  /\ disk[i][f] # Absent /\ Readable(i)
  /\ f \in Tracked(disk[i][Manifest])
  /\ reader' = [NoRequest EXCEPT !.at = "hashing", !.item = i, !.file = f,
                                 !.seen = disk[i][Manifest]]
  /\ UNCHANGED <<disk, reps, program, status, rows, published, started>>

\* Plausible slip: the hash is computed and not compared.
MutCompareHash ==
  /\ reader.at = "hashing"
  /\ reader' = [reader EXCEPT !.at = "reading"]
  /\ UNCHANGED <<disk, reps, program, status, rows, published, started>>

\* The hash of the file on disk is compared with the one of the manifest that was
\* read: 404, or on to the route.
CompareHash ==
  /\ reader.at = "hashing"
  /\ reader' = IF disk[reader.item][reader.file] = Content(reader.file, reader.seen)
               THEN [reader EXCEPT !.at = "reading"] ELSE NoRequest
  /\ UNCHANGED <<disk, reps, program, status, rows, published, started>>

\* The route reads the file again and sends what it finds.
Serve ==
  /\ reader.at = "reading"
  /\ reader' = NoRequest
  /\ UNCHANGED <<disk, reps, program, status, rows, published, started>>

StoreNext ==
  \/ \E n \in 1..MaxReps : Begin(n)
  \/ SkipItem \/ RunItem \/ OpenFile \/ FillFile \/ WriteFails
  \/ BundleWritten \/ AddRow \/ Finish \/ Interrupt \/ Kill
  \/ \E i \in 1..Items, f \in Files \ {Manifest} : Ask(i, f)
  \/ CompareHash \/ Serve

StoreSpec == StoreInit /\ [][StoreNext]_storeVars

-------------------------------------------------------------------------------
\* No manifest runs ahead of its files: every file a readable manifest tracks is
\* there, as the same call of write_artifacts() wrote it or as a later one left it,
\* whatever failed, was interrupted or killed in between and however often the
\* directory was reused.
ManifestNeverAhead ==
  \A i \in 1..Items : Readable(i) =>
    \A f \in Tracked(disk[i][Manifest]) :
      disk[i][f] \in LeftSince(f, disk[i][Manifest])

\* The manifest that an invocation has written tells the truth about the disk: what it
\* calls ok is a bundle that verifies, though earlier invocations left torn files and
\* files of more repetitions there; a bundle just written never verifies as corrupt; and
\* the comparison has the rows of exactly the ok conditions, but for the last one when
\* an interrupt came between the two.  (The manifest that is left when the process is
\* killed or cannot write its own is an earlier one, or torn.)
VerdictsTrue ==
  LET final == program.at = "idle" /\ program.ended \in {"finished", "interrupted"} IN
  /\ "corrupt" \notin {status[i] : i \in 1..Items}
  /\ final =>
       \A i \in 1..Items : published[i] = "ok" => Intact(i)
  /\ final /\ program.kind = "matrix" =>
       /\ \A i \in rows : published[i] = "ok"
       /\ program.ended = "finished" => \A i \in 1..Items : published[i] = "ok" => i \in rows

\* What the API answers follows the bundle, be it old, half written or abandoned: a
\* file whose request no write came between is served only if the manifest vouches
\* for it and refused only if it does not; and a write in between can let a later
\* content or a torn file through, never one older than the manifest that was read.
AnswersFollowBundle ==
  [][LET i == reader.item  f == reader.file IN
     reader.at # "idle" /\ reader'.at = "idle" =>
       /\ ~reader.disturbed => (reader.at = "reading" <=> FileIntact(i, f))
       /\ disk[i][f] \in LeftSince(f, reader.seen)]_storeVars
===============================================================================

-------------------------- MODULE ArtifactStore_proofs --------------------------
(***************************************************************************)
(* Proofs about ArtifactStore, for any number of items, repetitions and    *)
(* invocations.  The order in which write_artifacts() writes its files is  *)
(* the heart of them: whatever a call has still to write is pending, and   *)
(* the manifest is the last of it, so a manifest on disk speaks of files   *)
(* that are there.                                                         *)
(***************************************************************************)
EXTENDS ArtifactStore, SequenceTheorems, TLAPS

Places == {"idle", "preparing", "writing", "recorded"}
Endings == {"never", "finished", "interrupted", "unpublished"}

Programs ==
  [kind : Kinds, at : Places, item : 1..(Items + 1), count : 1..MaxReps,
   todo : Seq(Files), torn : BOOLEAN, ended : Endings]

Requests ==
  [at : {"idle", "hashing", "reading"}, item : 1..Items, file : Files, seen : Nat,
   disturbed : BOOLEAN]

StoreTyped ==
  /\ disk \in [1..Items -> [Files -> Int]]
  /\ reps \in Seq(1..MaxReps)
  /\ program \in Programs
  /\ status \in [1..Items -> Statuses]
  /\ rows \subseteq 1..Items
  /\ reader \in Requests

\* The call of write_artifacts() that is being made, or was made last.
Call == Len(reps)

PendingIn(f, todo) == \E k \in 1..Len(todo) : todo[k] = f

\* The manifest is written once, after everything else.
ManifestLast(todo) == \A k \in 1..Len(todo) : todo[k] = Manifest <=> k = Len(todo)

\* A file on disk was left by a call that was made; so was a manifest.
NothingAhead ==
  \A i \in 1..Items, f \in Files : disk[i][f] \in {Absent} \union LeftSince(f, 1)

\* A file that the call in progress has to write is written as it will be, or pending.
WritingDone ==
  program.at = "writing" =>
    /\ Item \in 1..Items /\ Call \in 1..Call /\ reps[Call] = program.count
    /\ ManifestLast(program.todo)
    /\ program.torn => program.todo # <<>>
    /\ \A f \in Tracked(Call) \union {Manifest} :
         disk[Item][f] = Content(f, Call) \/ PendingIn(f, program.todo)

RecordedItem == program.at = "recorded" => Item \in 1..Items

DiskInv == StoreTyped /\ NothingAhead /\ ManifestNeverAhead /\ WritingDone /\ RecordedItem

-------------------------------------------------------------------------------
\* The names of the files differ.
LEMMA FilesDiffer ==
  /\ Config \in Files /\ Statistics \in Files /\ Report \in Files /\ Manifest \in Files
  /\ Config # Manifest /\ Statistics # Manifest /\ Report # Manifest
  /\ \A n \in Nat : Raw(n) # Manifest
BY DEF Files, Config, Statistics, Report, Manifest, Raw

LEMMA TrackedFiles ==
  ASSUME NEW v \in 1..Len(reps), reps \in Seq(1..MaxReps)
  PROVE  Tracked(v) \subseteq Files /\ Manifest \notin Tracked(v)
<1>1. reps[v] \in 1..MaxReps /\ MaxReps \in Nat
  BY StoreAssumption
<1>2. \A n \in 1..reps[v] : Raw(n) \in Files /\ Raw(n) # Manifest
  BY <1>1, FilesDiffer DEF Files
<1>3. QED
  BY <1>2, FilesDiffer DEF Tracked

\* The order of the writes: every tracked file is in it, and the manifest at the end.
LEMMA WriteOrderFacts ==
  ASSUME NEW n \in 1..MaxReps
  PROVE  /\ WriteOrder(n) \in Seq(Files)
         /\ ManifestLast(WriteOrder(n))
         /\ \A f \in {Config, Statistics, Report, Manifest} \union {Raw(k) : k \in 1..n} :
              PendingIn(f, WriteOrder(n))
<1> DEFINE a == <<Config>>
           b == [k \in 1..n |-> Raw(k)]
           c == <<Statistics, Statistics, Report, Manifest>>
<1>1. n \in Nat /\ \A k \in 1..n : Raw(k) \in Files /\ Raw(k) # Manifest
  BY StoreAssumption, FilesDiffer DEF Files
<1>2. a \in Seq(Files) /\ Len(a) = 1 /\ a[1] = Config
  BY FilesDiffer
<1>3. b \in Seq(Files) /\ Len(b) = n /\ \A k \in 1..n : b[k] = Raw(k)
  BY <1>1
<1>4. c \in Seq(Files) /\ Len(c) = 4 /\ c[1] = Statistics /\ c[2] = Statistics
      /\ c[3] = Report /\ c[4] = Manifest
  BY FilesDiffer
<1>5. WriteOrder(n) = (a \o b) \o c
  BY DEF WriteOrder
<1> HIDE DEF a, b, c
<1>6. /\ a \o b \in Seq(Files) /\ Len(a \o b) = n + 1 /\ (a \o b)[1] = Config
      /\ \A k \in 1..n : (a \o b)[k + 1] = Raw(k)
  <2>1. /\ a \o b \in Seq(Files) /\ Len(a \o b) = Len(a) + Len(b)
        /\ \A i \in 1..Len(a) + Len(b) :
             (a \o b)[i] = IF i <= Len(a) THEN a[i] ELSE b[i - Len(a)]
    BY <1>2, <1>3, ConcatProperties
  <2>2. Len(a \o b) = n + 1 /\ 1 \in 1..Len(a) + Len(b)
    BY <1>1, <1>2, <1>3, <2>1
  <2>3. ASSUME NEW k \in 1..n PROVE (a \o b)[k + 1] = Raw(k)
    <3>1. k + 1 \in 1..Len(a) + Len(b) /\ ~(k + 1 <= Len(a)) /\ (k + 1) - Len(a) = k
      BY <1>1, <1>2, <1>3
    <3>2. QED
      BY <1>3, <2>1, <3>1
  <2>4. QED
    BY <1>2, <2>1, <2>2, <2>3
<1>7. /\ WriteOrder(n) \in Seq(Files) /\ Len(WriteOrder(n)) = n + 5
      /\ \A k \in 1..n+1 : WriteOrder(n)[k] = (a \o b)[k]
      /\ \A k \in 1..4 : WriteOrder(n)[n + 1 + k] = c[k]
  <2> DEFINE ab == a \o b
  <2>1. ab \in Seq(Files) /\ Len(ab) = n + 1
    BY <1>6
  <2> HIDE DEF ab
  <2>2. /\ ab \o c \in Seq(Files) /\ Len(ab \o c) = Len(ab) + Len(c)
        /\ \A i \in 1..Len(ab) + Len(c) :
             (ab \o c)[i] = IF i <= Len(ab) THEN ab[i] ELSE c[i - Len(ab)]
    BY <1>4, <2>1, ConcatProperties
  <2>3. Len(ab \o c) = n + 5
    BY <1>1, <1>4, <2>1, <2>2
  <2>4. ASSUME NEW k \in 1..n+1 PROVE (ab \o c)[k] = ab[k]
    <3>1. k \in 1..Len(ab) + Len(c) /\ k <= Len(ab)
      BY <1>1, <1>4, <2>1
    <3>2. QED
      BY <2>2, <3>1
  <2>5. ASSUME NEW k \in 1..4 PROVE (ab \o c)[n + 1 + k] = c[k]
    <3>1. n + 1 + k \in 1..Len(ab) + Len(c) /\ ~(n + 1 + k <= Len(ab)) /\ n + 1 + k - Len(ab) = k
      BY <1>1, <1>4, <2>1
    <3>2. QED
      BY <2>2, <3>1
  <2>6. WriteOrder(n) = ab \o c
    BY <1>5 DEF ab
  <2>7. QED
    BY <2>2, <2>3, <2>4, <2>5, <2>6 DEF ab
<1>8. /\ WriteOrder(n)[1] = Config /\ \A k \in 1..n : WriteOrder(n)[k + 1] = Raw(k)
      /\ WriteOrder(n)[n + 2] = Statistics /\ WriteOrder(n)[n + 3] = Statistics
      /\ WriteOrder(n)[n + 4] = Report /\ WriteOrder(n)[n + 5] = Manifest
  <2>1. 1 \in 1..n+1 /\ \A k \in 1..n : k + 1 \in 1..n+1
    BY <1>1
  <2>2. WriteOrder(n)[1] = Config /\ \A k \in 1..n : WriteOrder(n)[k + 1] = Raw(k)
    BY <1>6, <1>7, <2>1
  <2>3. n + 1 + 1 = n + 2 /\ n + 1 + 2 = n + 3 /\ n + 1 + 3 = n + 4 /\ n + 1 + 4 = n + 5
        /\ 1 \in 1..4 /\ 2 \in 1..4 /\ 3 \in 1..4 /\ 4 \in 1..4
    BY <1>1
  <2>4. QED
    BY <1>4, <1>7, <2>2, <2>3
<1>9. ManifestLast(WriteOrder(n))
  <2> SUFFICES ASSUME NEW k \in 1..Len(WriteOrder(n))
               PROVE  WriteOrder(n)[k] = Manifest <=> k = Len(WriteOrder(n))
    BY DEF ManifestLast
  <2>1. k = 1 \/ (k - 1 \in 1..n /\ k = (k - 1) + 1)
        \/ k = n + 2 \/ k = n + 3 \/ k = n + 4 \/ k = n + 5
    BY <1>1, <1>7
  <2>2. CASE k - 1 \in 1..n
    <3>1. WriteOrder(n)[(k - 1) + 1] = Raw(k - 1) /\ (k - 1) + 1 = k
      BY <1>8, <2>2
    <3>2. QED
      BY <1>1, <1>7, <2>2, <3>1
  <2>3. CASE k - 1 \notin 1..n
    BY <1>1, <1>7, <1>8, <2>1, <2>3, FilesDiffer
  <2>4. QED
    BY <2>2, <2>3
<1>10. ASSUME NEW f \in {Config, Statistics, Report, Manifest} \union {Raw(k) : k \in 1..n}
       PROVE  PendingIn(f, WriteOrder(n))
  <2>1. CASE f \in {Config, Statistics, Report, Manifest}
    <3>1. 1 \in 1..Len(WriteOrder(n)) /\ n + 2 \in 1..Len(WriteOrder(n))
          /\ n + 4 \in 1..Len(WriteOrder(n)) /\ n + 5 \in 1..Len(WriteOrder(n))
      BY <1>1, <1>7
    <3>2. QED
      BY <1>8, <2>1, <3>1 DEF PendingIn
  <2>2. CASE f \in {Raw(k) : k \in 1..n}
    <3>1. PICK k \in 1..n : f = Raw(k)
      BY <2>2
    <3>2. k + 1 \in 1..Len(WriteOrder(n)) /\ WriteOrder(n)[k + 1] = f
      BY <1>1, <1>7, <1>8, <3>1
    <3>3. QED
      BY <3>2 DEF PendingIn
  <2>3. QED
    BY <2>1, <2>2
<1>11. QED
  BY <1>7, <1>9, <1>10

-------------------------------------------------------------------------------
LEMMA DiskInitHolds == StoreInit => DiskInv
<1> SUFFICES ASSUME StoreInit PROVE DiskInv
  OBVIOUS
<1>1. program \in Programs /\ program.at = "idle"
  <2>1. PICK kind \in Kinds : program = [Idle EXCEPT !.kind = kind]
    BY DEF StoreInit
  <2>2. 1 \in 1..(Items + 1) /\ 1 \in 1..MaxReps /\ <<>> \in Seq(Files)
    BY StoreAssumption
  <2>3. QED
    BY <2>1, <2>2 DEF Idle, Programs, Places, Endings
<1>2. reader \in Requests
  <2>1. 1 \in 1..Items /\ Config \in Files /\ Absent \in Nat
    BY StoreAssumption, FilesDiffer DEF Absent
  <2>2. QED
    BY <2>1 DEF StoreInit, NoRequest, Requests
<1>3. StoreTyped
  BY <1>1, <1>2 DEF StoreInit, StoreTyped, Absent, Statuses
<1>4. \A i \in 1..Items : \A f \in Files : disk[i][f] = Absent
  BY DEF StoreInit
<1>5. NothingAhead /\ ManifestNeverAhead
  BY <1>4, FilesDiffer DEF NothingAhead, ManifestNeverAhead, Readable, Absent
<1>6. QED
  BY <1>1, <1>3, <1>5 DEF DiskInv, WritingDone, RecordedItem

\* A readable manifest is that of a call that was made.
LEMMA ManifestOfCall ==
  ASSUME StoreTyped, NothingAhead, NEW i \in 1..Items, Readable(i)
  PROVE  disk[i][Manifest] \in 1..Call /\ Tracked(disk[i][Manifest]) \subseteq Files
         /\ Manifest \notin Tracked(disk[i][Manifest])
<1>1. disk[i][Manifest] \in 1..Call
  BY FilesDiffer DEF NothingAhead, Readable, LeftSince, Content, Call
<1>2. QED
  BY <1>1, TrackedFiles DEF StoreTyped, Call

\* Steps that neither write a file nor make a call.
LEMMA QuietPreserves ==
  ASSUME DiskInv, disk' = disk, reps' = reps, StoreTyped', RecordedItem',
         program' = program \/ program'.at # "writing"
  PROVE  DiskInv'
<1>1. NothingAhead' /\ ManifestNeverAhead'
  BY DEF DiskInv, NothingAhead, ManifestNeverAhead, Readable, Tracked, LeftSince, Content
<1>2. WritingDone'
  BY DEF DiskInv, WritingDone, Item, Call, Tracked, Content
<1>3. QED
  BY <1>1, <1>2 DEF DiskInv

\* One more call: what the manifests of the earlier ones speak of is the same.
LEMMA NextCall ==
  ASSUME DiskInv, RunItem
  PROVE  /\ reps' \in Seq(1..MaxReps) /\ Call \in Nat /\ Call' = Call + 1
         /\ reps'[Call + 1] = program.count
         /\ \A v \in 1..Call : /\ Tracked(v)' = Tracked(v)
                               /\ \A f : Content(f, v)' = Content(f, v)
                               /\ \A f : LeftSince(f, v) \subseteq LeftSince(f, v)'
<1>1. /\ reps' = Append(reps, program.count)
      /\ program.count \in 1..MaxReps /\ reps \in Seq(1..MaxReps)
  BY DEF RunItem, DiskInv, StoreTyped, Programs
<1>2. /\ reps' \in Seq(1..MaxReps) /\ Call' = Call + 1 /\ Call \in Nat
      /\ reps'[Call + 1] = program.count
      /\ \A v \in 1..Call : reps'[v] = reps[v]
  BY <1>1, AppendProperties DEF Call
<1>3. \A v \in 1..Call : Tracked(v)' = Tracked(v) /\ \A f : Content(f, v)' = Content(f, v)
  BY <1>2 DEF Tracked, Content
<1>4. ASSUME NEW v \in 1..Call, NEW f PROVE LeftSince(f, v) \subseteq LeftSince(f, v)'
  <2>1. v..Call \subseteq v..Call' /\ v..Call \subseteq 1..Call
    BY <1>2
  <2>2. {Content(f, u) : u \in v..Call} \subseteq {Content(f, u)' : u \in v..Call'}
    BY <1>3, <2>1
  <2>3. QED
    BY <2>2 DEF LeftSince, Call
<1>5. QED
  BY <1>2, <1>3, <1>4

\* What the earlier calls left stays as it is.
LEMMA CallPreserves ==
  ASSUME DiskInv, RunItem
  PROVE  DiskInv'
<1>1. /\ program.at = "preparing" /\ Item \in 1..Items /\ disk' = disk
      /\ reps' = Append(reps, program.count)
      /\ program.count \in 1..MaxReps /\ reps \in Seq(1..MaxReps) /\ program \in Programs
      /\ status' = status /\ rows' = rows /\ reader' = reader
  BY StoreAssumption DEF RunItem, DiskInv, StoreTyped, Programs, Item
<1>2. /\ reps' \in Seq(1..MaxReps) /\ Call \in Nat /\ Call' = Call + 1
      /\ reps'[Call + 1] = program.count
      /\ \A v \in 1..Call : /\ Tracked(v)' = Tracked(v)
                            /\ \A f : LeftSince(f, v) \subseteq LeftSince(f, v)'
  BY NextCall
<1>3. /\ program' \in Programs /\ program'.at = "writing" /\ program'.item = program.item
      /\ program'.count = program.count /\ program'.todo = WriteOrder(program.count)
      /\ program'.torn = program.torn
  <2>1. program' = [program EXCEPT !.at = "writing", !.todo = WriteOrder(program.count)]
    BY DEF RunItem
  <2>2. WriteOrder(program.count) \in Seq(Files)
    BY <1>1, WriteOrderFacts
  <2>3. QED
    BY <1>1, <2>1, <2>2 DEF Programs, Places
<1>4. StoreTyped'
  BY <1>1, <1>2, <1>3 DEF DiskInv, StoreTyped
<1>5. NothingAhead'
  <2>1. ASSUME NEW i \in 1..Items, NEW f \in Files
        PROVE  disk[i][f] \in {Absent} \union LeftSince(f, 1)'
    <3>1. disk[i][f] \in {Absent} \union LeftSince(f, 1)
      BY DEF DiskInv, NothingAhead
    <3>2. CASE Call = 0
      BY <3>1, <3>2 DEF LeftSince, Call
    <3>3. CASE Call # 0
      BY <1>2, <3>1, <3>3
    <3>4. QED
      BY <3>2, <3>3
  <2>2. QED
    BY <1>1, <2>1 DEF NothingAhead
<1>6. ManifestNeverAhead'
  <2> SUFFICES ASSUME NEW i \in 1..Items, Readable(i)',
                      NEW f \in Tracked(disk[i][Manifest])'
               PROVE  disk'[i][f] \in LeftSince(f, disk[i][Manifest])'
    BY DEF ManifestNeverAhead
  <2> DEFINE m == disk[i][Manifest]
  <2>1. Readable(i) /\ disk'[i] = disk[i]
    BY <1>1 DEF Readable
  <2>2. m \in 1..Call
    BY <2>1, ManifestOfCall DEF DiskInv
  <2>3. /\ Tracked(disk[i][Manifest])' = Tracked(m)
        /\ LeftSince(f, m) \subseteq LeftSince(f, disk[i][Manifest])'
    <3> DEFINE n == disk'[i][Manifest]
    <3>1. n = m
      BY <2>1
    <3> HIDE DEF m
    <3>2. \A v \in 1..Call : /\ Tracked(v)' = Tracked(v)
                             /\ LeftSince(f, v) \subseteq LeftSince(f, v)'
      BY <1>2
    <3>3. QED
      BY <2>2, <3>1, <3>2 DEF Tracked, LeftSince, Content
  <2>4. m \in 1..Call /\ disk[i][f] \in LeftSince(f, m)
    BY <2>1, <2>2, <2>3 DEF DiskInv, ManifestNeverAhead
  <2>5. QED
    BY <2>1, <2>3, <2>4
<1>7. WritingDone'
  <2>1. Call' \in 1..Call' /\ reps'[Call'] = program'.count
    BY <1>2, <1>3
  <2>2. /\ ManifestLast(program'.todo) /\ program'.todo # <<>>
        /\ \A f \in Tracked(Call)' \union {Manifest} : PendingIn(f, program'.todo)
    <3>1. Tracked(Call)' = {Config, Statistics, Report} \union {Raw(k) : k \in 1..program.count}
      BY <1>2 DEF Tracked
    <3>2. /\ ManifestLast(WriteOrder(program.count))
          /\ \A f \in Tracked(Call)' \union {Manifest} : PendingIn(f, WriteOrder(program.count))
      BY <1>1, <3>1, WriteOrderFacts
    <3>3. PendingIn(Manifest, WriteOrder(program.count))
      BY <3>2
    <3>4. WriteOrder(program.count) # <<>>
      BY <3>3 DEF PendingIn
    <3>5. QED
      BY <1>3, <3>2, <3>4
  <2>3. QED
    BY <1>1, <1>3, <2>1, <2>2 DEF WritingDone, Item
<1>8. RecordedItem'
  BY <1>3 DEF RecordedItem
<1>9. QED
  BY <1>8, <1>4, <1>5, <1>6, <1>7 DEF DiskInv

\* What the program is about to write.
LEMMA HeadFacts ==
  ASSUME DiskInv, program.at = "writing", program.todo # <<>>
  PROVE  /\ Head(program.todo) \in Files
         /\ Tail(program.todo) \in Seq(Files)
         /\ ManifestLast(Tail(program.todo))
         /\ \A f : PendingIn(f, program.todo) <=> f = Head(program.todo) \/ PendingIn(f, Tail(program.todo))
         /\ Head(program.todo) = Manifest => Tail(program.todo) = <<>>
<1> DEFINE q == program.todo
<1>1. q \in Seq(Files) /\ q # <<>> /\ ManifestLast(q) /\ Len(q) \in Nat
  BY DEF DiskInv, StoreTyped, Programs, WritingDone
<1> HIDE DEF q
<1>2. /\ Tail(q) \in Seq(Files) /\ Len(Tail(q)) = Len(q) - 1
      /\ \A k \in 1..Len(q)-1 : Tail(q)[k] = q[k+1]
      /\ Head(q) = q[1] /\ 1 \in 1..Len(q) /\ q[1] \in Files
  BY <1>1, HeadTailProperties
<1>3. ManifestLast(Tail(q))
  <2> SUFFICES ASSUME NEW k \in 1..Len(Tail(q))
               PROVE  Tail(q)[k] = Manifest <=> k = Len(Tail(q))
    BY DEF ManifestLast
  <2>1. k + 1 \in 1..Len(q) /\ Tail(q)[k] = q[k + 1] /\ (k + 1 = Len(q) <=> k = Len(Tail(q)))
    BY <1>1, <1>2
  <2>2. QED
    BY <1>1, <2>1 DEF ManifestLast
<1>4. ASSUME NEW f PROVE PendingIn(f, q) <=> f = Head(q) \/ PendingIn(f, Tail(q))
  <2>1. ASSUME NEW k \in 1..Len(q), q[k] = f PROVE f = Head(q) \/ PendingIn(f, Tail(q))
    <3>1. CASE k = 1
      BY <1>2, <2>1, <3>1
    <3>2. CASE k # 1
      <4>1. k - 1 \in 1..Len(Tail(q)) /\ k - 1 \in 1..Len(q)-1 /\ (k - 1) + 1 = k
        BY <1>1, <1>2, <3>2
      <4>2. Tail(q)[k - 1] = f
        BY <1>2, <2>1, <4>1
      <4>3. QED
        BY <4>1, <4>2 DEF PendingIn
    <3>3. QED
      BY <3>1, <3>2
  <2>2. ASSUME NEW k \in 1..Len(Tail(q)), Tail(q)[k] = f PROVE PendingIn(f, q)
    <3>1. k + 1 \in 1..Len(q) /\ k \in 1..Len(q)-1
      BY <1>1, <1>2
    <3>2. q[k + 1] = f
      BY <1>2, <2>2, <3>1
    <3>3. QED
      BY <3>1, <3>2 DEF PendingIn
  <2>3. f = Head(q) => PendingIn(f, q)
    BY <1>2 DEF PendingIn
  <2>4. QED
    BY <2>1, <2>2, <2>3 DEF PendingIn
<1>5. Head(q) = Manifest => Tail(q) = <<>>
  <2>1. Head(q) = Manifest => Len(q) = 1
    BY <1>1, <1>2 DEF ManifestLast
  <2>2. QED
    BY <1>1, <1>2, <2>1
<1>6. QED
  BY <1>2, <1>3, <1>4, <1>5 DEF q

\* One file of the current item gets other contents: the manifests stay behind.
LEMMA WriteKeepsOrder ==
  ASSUME DiskInv, program.at = "writing", program.todo # <<>>, reps' = reps,
         NEW h \in Files, h = Head(program.todo), NEW x \in {Torn, Content(h, Call)},
         disk' = [disk EXCEPT ![Item][h] = x]
  PROVE  /\ disk' \in [1..Items -> [Files -> Int]]
         /\ NothingAhead' /\ ManifestNeverAhead'
         /\ disk'[Item][h] = x
         /\ \A f \in Files : f # h => disk'[Item][f] = disk[Item][f]
         /\ \A i \in 1..Items : i # Item => disk'[i] = disk[i]
<1>1. /\ Item \in 1..Items /\ Call \in 1..Call /\ Call \in Nat
      /\ disk \in [1..Items -> [Files -> Int]] /\ reps \in Seq(1..MaxReps)
  BY DEF DiskInv, StoreTyped, WritingDone, Call
<1>2. /\ x \in Int /\ (h = Manifest => x \in {Torn, Call})
      /\ \A v \in 1..Call : x \in LeftSince(h, v)
  <2>1. reps[Call] \in Int /\ Torn \in Int /\ Len(reps) = Call
    BY <1>1, StoreAssumption DEF Torn, Call
  <2>2. \A v \in 1..Call : Call \in v..Len(reps)
    BY <1>1, <2>1
  <2>3. Content(h, Call) \in Int /\ (h = Manifest => Content(h, Call) = Call)
    BY <1>1, <2>1, FilesDiffer DEF Content
  <2>4. x = Torn \/ x = Content(h, Call)
    OBVIOUS
  <2>5. \A v \in 1..Call : x \in LeftSince(h, v)
    BY <2>2, <2>4 DEF LeftSince
  <2>6. QED
    BY <2>1, <2>3, <2>4, <2>5
<1>3. /\ disk' \in [1..Items -> [Files -> Int]]
      /\ disk'[Item][h] = x
      /\ \A f \in Files : f # h => disk'[Item][f] = disk[Item][f]
      /\ \A i \in 1..Items : i # Item => disk'[i] = disk[i]
  BY <1>1, <1>2
<1>4. \A f, v : LeftSince(f, v)' = LeftSince(f, v) /\ Tracked(v)' = Tracked(v)
  BY DEF LeftSince, Content, Tracked
<1>5. NothingAhead'
  <2> SUFFICES ASSUME NEW i \in 1..Items, NEW f \in Files
               PROVE  disk'[i][f] \in {Absent} \union LeftSince(f, 1)
    BY <1>4 DEF NothingAhead
  <2>1. CASE i = Item /\ f = h
    BY <1>1, <1>2, <1>3, <2>1
  <2>2. CASE i # Item \/ f # h
    BY <1>3, <2>2 DEF DiskInv, NothingAhead
  <2>3. QED
    BY <2>1, <2>2
<1>6. ManifestNeverAhead'
  <2> SUFFICES ASSUME NEW i \in 1..Items, Readable(i)', NEW f \in Tracked(disk[i][Manifest])'
               PROVE  disk'[i][f] \in LeftSince(f, disk[i][Manifest])'
    BY DEF ManifestNeverAhead
  <2> DEFINE m == disk'[i][Manifest]
  <2>1. f \in Tracked(m) /\ LeftSince(f, disk[i][Manifest])' = LeftSince(f, m)
    BY DEF Tracked, LeftSince, Content
  <2>2. CASE i # Item \/ h # Manifest
    <3>1. m = disk[i][Manifest] /\ Readable(i)
      BY <1>3, <2>2, FilesDiffer DEF Readable
    <3>2. m \in 1..Call /\ f \in Files
      BY <2>1, <3>1, ManifestOfCall DEF DiskInv
    <3>3. disk[i][f] \in LeftSince(f, m)
      BY <2>1, <3>1 DEF DiskInv, ManifestNeverAhead
    <3>4. CASE i = Item /\ f = h
      BY <1>1, <1>2, <1>3, <2>1, <3>2, <3>4
    <3>5. CASE i # Item \/ f # h
      BY <1>3, <2>1, <3>2, <3>3, <3>5
    <3>6. QED
      BY <3>4, <3>5
  <2>3. CASE i = Item /\ h = Manifest
    <3>1. m = x /\ x \notin {Absent, Torn}
      BY <1>3, <2>3 DEF Readable
    <3>2. m = Call
      BY <1>2, <2>3, <3>1
    <3>3. f \in Files /\ f # Manifest
      BY <1>1, <2>1, <3>2, TrackedFiles DEF Call
    <3>4. ~PendingIn(f, program.todo)
      <4>1. Tail(program.todo) = <<>>
        BY <2>3, HeadFacts
      <4>2. ~PendingIn(f, Tail(program.todo))
        BY <4>1 DEF PendingIn
      <4>3. QED
        BY <2>3, <3>3, <4>2, HeadFacts
    <3>5. disk[Item][f] = Content(f, Call)
      BY <2>1, <3>2, <3>4 DEF DiskInv, WritingDone
    <3>6. disk'[i][f] = Content(f, Call)
      BY <1>3, <2>3, <3>3, <3>5
    <3>7. Content(f, Call) \in LeftSince(f, Call)
      BY <1>1 DEF LeftSince, Call
    <3>8. QED
      BY <2>1, <3>2, <3>6, <3>7
  <2>4. QED
    BY <2>2, <2>3
<1>7. QED
  BY <1>3, <1>5, <1>6

LEMMA OpenPreserves ==
  ASSUME DiskInv, OpenFile, reader' \in Requests
  PROVE  DiskInv'
<1> DEFINE h == Head(program.todo)
<1>1. /\ program.at = "writing" /\ program.todo # <<>> /\ h \in Files /\ reps' = reps
      /\ disk' = [disk EXCEPT ![Item][h] = Torn] /\ status' = status /\ rows' = rows
      /\ program' = [program EXCEPT !.torn = TRUE] /\ program \in Programs
  BY HeadFacts DEF OpenFile, DiskInv, StoreTyped
<1>2. /\ program' \in Programs /\ program'.at = program.at /\ program'.item = program.item
      /\ program'.count = program.count /\ program'.todo = program.todo
  BY <1>1 DEF Programs
<1> HIDE DEF h
<1>3. /\ disk' \in [1..Items -> [Files -> Int]] /\ NothingAhead' /\ ManifestNeverAhead'
      /\ \A f \in Files : f # h => disk'[Item][f] = disk[Item][f]
  BY <1>1, WriteKeepsOrder DEF h
<1>4. StoreTyped'
  BY <1>1, <1>2, <1>3 DEF DiskInv, StoreTyped
<1>5. WritingDone'
  <2>1. /\ Call' = Call /\ Item' = Item /\ Tracked(Call)' = Tracked(Call)
        /\ \A f : Content(f, Call)' = Content(f, Call)
    BY <1>1, <1>2 DEF Call, Item, Tracked, Content
  <2>2. Tracked(Call) \union {Manifest} \subseteq Files
    BY <1>1, TrackedFiles, FilesDiffer DEF DiskInv, StoreTyped, WritingDone, Call
  <2>3. PendingIn(h, program.todo)
    BY <1>1, HeadFacts DEF h
  <2>4. ASSUME NEW f \in Tracked(Call) \union {Manifest}
        PROVE  disk'[Item][f] = Content(f, Call) \/ PendingIn(f, program'.todo)
    BY <1>1, <1>2, <1>3, <2>2, <2>3 DEF DiskInv, WritingDone
  <2>5. QED
    BY <1>1, <1>2, <2>1, <2>4 DEF DiskInv, WritingDone
<1>6. RecordedItem'
  BY <1>1, <1>2 DEF RecordedItem
<1>7. QED
  BY <1>6, <1>3, <1>4, <1>5 DEF DiskInv

LEMMA FillPreserves ==
  ASSUME DiskInv, FillFile, reader' \in Requests
  PROVE  DiskInv'
<1> DEFINE h == Head(program.todo)
<1>1. program.at = "writing" /\ program.todo # <<>>
  BY DEF FillFile, DiskInv, WritingDone
<1>2. /\ h \in Files /\ reps' = reps /\ status' = status /\ rows' = rows
      /\ disk' = [disk EXCEPT ![Item][h] = Content(h, Call)]
      /\ program' = [program EXCEPT !.torn = FALSE, !.todo = Tail(@)] /\ program \in Programs
  BY <1>1, HeadFacts DEF FillFile, DiskInv, StoreTyped, Call
<1>3. Tail(program.todo) \in Seq(Files) /\ ManifestLast(Tail(program.todo))
  BY <1>1, HeadFacts
<1>4. /\ program' \in Programs /\ program'.at = program.at /\ program'.item = program.item
      /\ program'.count = program.count /\ program'.todo = Tail(program.todo) /\ program'.torn = FALSE
  BY <1>2, <1>3 DEF Programs
<1> HIDE DEF h
<1>5. /\ disk' \in [1..Items -> [Files -> Int]] /\ NothingAhead' /\ ManifestNeverAhead'
      /\ disk'[Item][h] = Content(h, Call)
      /\ \A f \in Files : f # h => disk'[Item][f] = disk[Item][f]
  BY <1>1, <1>2, WriteKeepsOrder DEF h
<1>6. StoreTyped'
  BY <1>2, <1>4, <1>5 DEF DiskInv, StoreTyped
<1>7. WritingDone'
  <2>1. /\ Call' = Call /\ Item' = Item /\ Tracked(Call)' = Tracked(Call)
        /\ \A f : Content(f, Call)' = Content(f, Call)
    BY <1>2, <1>4 DEF Call, Item, Tracked, Content
  <2>2. Tracked(Call) \union {Manifest} \subseteq Files
    BY <1>1, TrackedFiles, FilesDiffer DEF DiskInv, StoreTyped, WritingDone, Call
  <2>3. ASSUME NEW f \in Tracked(Call) \union {Manifest}
        PROVE  disk'[Item][f] = Content(f, Call) \/ PendingIn(f, program'.todo)
    <3>1. f \in Files
      BY <2>2
    <3>2. disk[Item][f] = Content(f, Call) \/ PendingIn(f, program.todo)
      BY <1>1 DEF DiskInv, WritingDone
    <3>3. PendingIn(f, program.todo) => f = h \/ PendingIn(f, program'.todo)
      BY <1>1, <1>4, HeadFacts DEF h
    <3>4. QED
      BY <1>5, <3>1, <3>2, <3>3
  <2>4. Item \in 1..Items /\ Call \in 1..Call /\ reps[Call] = program.count
    BY <1>1 DEF DiskInv, WritingDone
  <2>5. reps'[Call'] = program'.count
    BY <1>2, <1>4, <2>1, <2>4
  <2>6. QED
    BY <1>3, <1>4, <2>1, <2>3, <2>4, <2>5 DEF WritingDone
<1>8. RecordedItem'
  BY <1>1, <1>4 DEF RecordedItem
<1>9. QED
  BY <1>8, <1>5, <1>6, <1>7 DEF DiskInv

-------------------------------------------------------------------------------
\* The steps of a program that write no file, and what they do to the item they are at.
Quiet ==
  \/ \E n \in 1..MaxReps : Begin(n)
  \/ SkipItem \/ WriteFails \/ BundleWritten \/ AddRow \/ Finish \/ Interrupt \/ Kill

LEMMA QuietFacts ==
  ASSUME DiskInv, Quiet
  PROVE  /\ disk' = disk /\ reps' = reps /\ reader' = reader
         /\ program' \in Programs /\ program'.at \in {"idle", "preparing", "recorded"}
         /\ program'.kind = program.kind
         /\ status' \in [1..Items -> Statuses] /\ rows' \subseteq 1..Items
         /\ RecordedItem'
<1>1. /\ program \in Programs /\ status \in [1..Items -> Statuses] /\ rows \subseteq 1..Items
      /\ Items \in Nat /\ program.item \in Nat
  BY StoreAssumption DEF DiskInv, StoreTyped, Programs
<1>2. <<>> \in Seq(Files) /\ 1 \in 1..(Items + 1)
  BY <1>1
<1>3. ASSUME NEW n \in 1..MaxReps, Begin(n)
      PROVE  /\ program' \in Programs /\ program'.at = "preparing" /\ program'.kind = program.kind
             /\ status' \in [1..Items -> Statuses] /\ rows' \subseteq 1..Items
  <2>1. program' = [Idle EXCEPT !.kind = program.kind, !.count = n, !.at = "preparing"]
    BY <1>3 DEF Begin
  <2>2. program' \in Programs /\ program'.at = "preparing" /\ program'.kind = program.kind
    BY <1>1, <1>2, <2>1 DEF Idle, Programs, Places, Endings
  <2>3. QED
    BY <1>3, <2>2 DEF Begin, NothingRecorded, Statuses
<1>4. ASSUME Item \in 1..Items, Advance
      PROVE  program' \in Programs /\ program'.at = "preparing" /\ program'.kind = program.kind
  <2>1. program' = [program EXCEPT !.item = program.item + 1, !.at = "preparing",
                                   !.todo = <<>>, !.torn = FALSE]
    BY <1>4 DEF Advance
  <2>2. program.item + 1 \in 1..(Items + 1)
    BY <1>1, <1>4 DEF Item
  <2>3. QED
    BY <1>1, <1>2, <2>1, <2>2 DEF Programs, Places
<1>5. ASSUME NEW how \in Endings, Stop(how)
      PROVE  program' \in Programs /\ program'.at = "idle" /\ program'.kind = program.kind
  <2>1. program' = [Idle EXCEPT !.kind = program.kind, !.ended = how]
    BY <1>5 DEF Stop
  <2>2. 1 \in 1..MaxReps /\ program.kind \in Kinds
    BY <1>1, StoreAssumption DEF Programs
  <2>3. QED
    BY <1>2, <1>5, <2>1, <2>2 DEF Idle, Programs, Places
<1>6. ASSUME NEW verdict \in Statuses, Record(verdict)
      PROVE  status' \in [1..Items -> Statuses]
  BY <1>1, <1>6 DEF Record
<1>7. CASE \E n \in 1..MaxReps : Begin(n)
  BY <1>3, <1>7 DEF Begin, RecordedItem
<1>8. CASE SkipItem \/ WriteFails
  <2>1. Item \in 1..Items
    BY <1>1, <1>8 DEF SkipItem, WriteFails, DiskInv, WritingDone, StoreTyped, Programs, Item
  <2>2. "missing" \in Statuses /\ "failed" \in Statuses
    BY DEF Statuses
  <2>3. status' \in [1..Items -> Statuses]
    BY <1>6, <1>8, <2>2 DEF SkipItem, WriteFails
  <2>4. Advance /\ disk' = disk /\ reps' = reps /\ reader' = reader /\ rows' = rows
    BY <1>8 DEF SkipItem, WriteFails
  <2>5. QED
    BY <1>1, <1>4, <2>1, <2>3, <2>4 DEF RecordedItem
<1>9. CASE BundleWritten
  <2>1. Item \in 1..Items
    BY <1>9 DEF BundleWritten, DiskInv, WritingDone
  <2>2. status' \in [1..Items -> Statuses]
    <3>1. "ok" \in Statuses /\ "corrupt" \in Statuses
      BY DEF Statuses
    <3>2. QED
      BY <1>6, <1>9, <3>1 DEF BundleWritten
  <2>3. CASE program.kind = "matrix"
    <3>1. program' = [program EXCEPT !.at = "recorded"]
      BY <1>9, <2>3 DEF BundleWritten
    <3>2. /\ program' \in Programs /\ program'.at = "recorded" /\ program'.kind = program.kind
          /\ program'.item = program.item
      BY <1>1, <3>1 DEF Programs, Places
    <3>3. QED
      BY <1>1, <1>9, <2>1, <2>2, <3>2 DEF BundleWritten, RecordedItem, Item
  <2>4. CASE program.kind # "matrix"
    <3>1. Advance
      BY <1>9, <2>4 DEF BundleWritten
    <3>2. QED
      BY <1>1, <1>4, <1>9, <2>1, <2>2, <3>1 DEF BundleWritten, RecordedItem
  <2>5. QED
    BY <2>3, <2>4
<1>10. CASE AddRow
  <2>1. Item \in 1..Items /\ Advance
    BY <1>10 DEF AddRow, DiskInv, RecordedItem
  <2>2. QED
    BY <1>1, <1>4, <1>10, <2>1 DEF AddRow, RecordedItem
<1>11. CASE Finish \/ Interrupt \/ Kill
  <2>1. \E how \in Endings : Stop(how)
    BY <1>11 DEF Finish, Interrupt, Finalize, Kill, Endings
  <2>2. status' \in [1..Items -> Statuses] /\ rows' \subseteq 1..Items
    BY <1>1, <1>11 DEF Finish, Interrupt, Finalize, Kill, NothingRecorded, Statuses
  <2>3. disk' = disk /\ reps' = reps /\ reader' = reader
    BY <1>11 DEF Finish, Interrupt, Finalize, Kill
  <2>4. QED
    BY <1>5, <2>1, <2>2, <2>3 DEF RecordedItem
<1>12. QED
  BY <1>7, <1>8, <1>9, <1>10, <1>11 DEF Quiet

-------------------------------------------------------------------------------
\* What a request has in hand: a file that the manifest it read tracks, no older than
\* that manifest, and unless a write disturbed it the very bundle it looked at.
RequestInv ==
  reader.at # "idle" =>
    /\ reader.seen \in 1..Call /\ reader.file \in Tracked(reader.seen)
    /\ disk[reader.item][reader.file] \in LeftSince(reader.file, reader.seen)
    /\ ~reader.disturbed =>
         /\ disk[reader.item][Manifest] = reader.seen
         /\ reader.at = "reading" =>
              disk[reader.item][reader.file] = Content(reader.file, reader.seen)

\* What the API's last step must have answered.
Answered ==
  reader.at # "idle" /\ reader'.at = "idle" =>
    /\ ~reader.disturbed => (reader.at = "reading" <=> FileIntact(reader.item, reader.file))
    /\ disk[reader.item][reader.file] \in LeftSince(reader.file, reader.seen)

Asks == \E i \in 1..Items, f \in Files \ {Manifest} : Ask(i, f)

LEMMA RequestTyped ==
  ASSUME DiskInv
  PROVE  /\ reader \in Requests /\ reader.item \in 1..Items /\ reader.file \in Files
         /\ reader.seen \in Nat /\ Call \in Nat
         /\ disk \in [1..Items -> [Files -> Int]]
BY DEF DiskInv, StoreTyped, Requests, Call

\* Steps of a program that neither write nor look at the reader.
LEMMA QuietKeepsRequest ==
  ASSUME DiskInv, RequestInv, disk' = disk, reader' = reader,
         reps' = reps \/ RunItem
  PROVE  RequestInv' /\ Answered
<1>1. CASE reps' = reps
  BY <1>1 DEF RequestInv, Call, Tracked, LeftSince, Content, Answered
<1>2. CASE RunItem
  <2>1. /\ Call \in Nat /\ Call' = Call + 1
        /\ \A v \in 1..Call : /\ Tracked(v)' = Tracked(v)
                              /\ \A f : Content(f, v)' = Content(f, v)
                              /\ \A f : LeftSince(f, v) \subseteq LeftSince(f, v)'
    BY <1>2, NextCall
  <2>2. CASE reader.at = "idle"
    BY <2>2 DEF RequestInv, Answered
  <2>3. CASE reader.at # "idle"
    <3> DEFINE v == reader.seen
               f == reader.file
    <3>1. /\ v \in 1..Call /\ f \in Tracked(v) /\ disk[reader.item][f] \in LeftSince(f, v)
          /\ ~reader.disturbed =>
               /\ disk[reader.item][Manifest] = v
               /\ reader.at = "reading" => disk[reader.item][f] = Content(f, v)
      BY <2>3 DEF RequestInv
    <3>2. /\ Tracked(reader.seen)' = Tracked(v)
          /\ Content(reader.file, reader.seen)' = Content(f, v)
          /\ LeftSince(f, v) \subseteq LeftSince(reader.file, reader.seen)'
      <4>1. ASSUME NEW w \in 1..Call, NEW g, reader'.seen = w, reader'.file = g
            PROVE  /\ Tracked(reader.seen)' = Tracked(w)
                   /\ Content(reader.file, reader.seen)' = Content(g, w)
                   /\ LeftSince(g, w) \subseteq LeftSince(reader.file, reader.seen)'
        <5>1. /\ Tracked(w)' = Tracked(w) /\ Content(g, w)' = Content(g, w)
              /\ LeftSince(g, w) \subseteq LeftSince(g, w)'
          BY <2>1
        <5>2. /\ Tracked(reader.seen)' = Tracked(w)'
              /\ Content(reader.file, reader.seen)' = Content(g, w)'
              /\ LeftSince(reader.file, reader.seen)' = LeftSince(g, w)'
          BY <4>1 DEF Tracked, Content, LeftSince
        <5>3. QED
          BY <5>1, <5>2
      <4>2. QED
        BY <3>1, <4>1
    <3>3. v \in 1..Call'
      BY <2>1, <3>1
    <3>4. RequestInv'
      BY <2>3, <3>1, <3>2, <3>3 DEF RequestInv
    <3>5. QED
      BY <2>3, <3>4 DEF Answered
  <2>4. QED
    BY <2>2, <2>3
<1>3. QED
  BY <1>1, <1>2

\* A write disturbs a request for the directory that is written.
LEMMA WriteKeepsRequest ==
  ASSUME DiskInv, RequestInv, program.at = "writing", program.todo # <<>>, Disturb, reps' = reps,
         NEW h \in Files, h = Head(program.todo), NEW x \in {Torn, Content(h, Call)},
         disk' = [disk EXCEPT ![Item][h] = x]
  PROVE  RequestInv' /\ Answered /\ reader' \in Requests
<1>1. /\ disk'[Item][h] = x
      /\ \A f \in Files : f # h => disk'[Item][f] = disk[Item][f]
      /\ \A i \in 1..Items : i # Item => disk'[i] = disk[i]
  BY WriteKeepsOrder
<1>2. /\ reader' \in Requests /\ reader'.at = reader.at /\ reader'.item = reader.item
      /\ reader'.file = reader.file /\ reader'.seen = reader.seen
      /\ (reader.at # "idle" /\ reader.item = Item => reader'.disturbed)
      /\ (~(reader.at # "idle" /\ reader.item = Item) => reader'.disturbed = reader.disturbed)
  BY RequestTyped DEF Disturb, Requests
<1>3. /\ Call' = Call /\ Call \in 1..Call /\ Tracked(reader.seen)' = Tracked(reader.seen)
      /\ LeftSince(reader.file, reader.seen)' = LeftSince(reader.file, reader.seen)
      /\ Content(reader.file, reader.seen)' = Content(reader.file, reader.seen)
  BY <1>2 DEF Call, Tracked, LeftSince, Content, DiskInv, WritingDone
<1>4. ASSUME reader.at # "idle" PROVE RequestInv'
  <2>1. /\ reader.seen \in 1..Call /\ reader.file \in Tracked(reader.seen)
        /\ disk[reader.item][reader.file] \in LeftSince(reader.file, reader.seen)
    BY <1>4 DEF RequestInv
  <2>2. x \in LeftSince(h, reader.seen)
    <3>1. Call \in reader.seen..Call
      BY <1>3, <2>1, RequestTyped
    <3>2. QED
      BY <3>1 DEF LeftSince, Call
  <2>3. disk'[reader.item][reader.file] \in LeftSince(reader.file, reader.seen)
    <3>1. CASE reader.item = Item /\ reader.file = h
      BY <1>1, <2>2, <3>1
    <3>2. CASE ~(reader.item = Item /\ reader.file = h)
      BY <1>1, <2>1, <3>2, RequestTyped
    <3>3. QED
      BY <3>1, <3>2
  <2>4. ~reader'.disturbed => reader.item # Item /\ ~reader.disturbed
    BY <1>2, <1>4
  <2>5. ~reader'.disturbed => disk'[reader.item] = disk[reader.item]
    BY <1>1, <2>4, RequestTyped
  <2>6. ~reader'.disturbed =>
          /\ disk[reader.item][Manifest] = reader.seen
          /\ reader.at = "reading" =>
               disk[reader.item][reader.file] = Content(reader.file, reader.seen)
    BY <1>4, <2>4 DEF RequestInv
  <2>7. QED
    BY <1>2, <1>3, <2>1, <2>3, <2>5, <2>6 DEF RequestInv
<1>5. ASSUME reader.at = "idle" PROVE RequestInv'
  BY <1>2, <1>5 DEF RequestInv
<1>6. QED
  BY <1>2, <1>4, <1>5 DEF Answered

\* The steps of the request itself.
LEMMA RequestSteps ==
  ASSUME DiskInv, RequestInv, Asks \/ CompareHash \/ Serve
  PROVE  RequestInv' /\ Answered /\ reader' \in Requests /\ UNCHANGED <<disk, reps, program, status, rows>>
<1> NoRequest \in Requests /\ NoRequest.at = "idle"
  <2>1. 1 \in 1..Items /\ Config \in Files /\ Absent \in Nat
    BY StoreAssumption, FilesDiffer DEF Absent
  <2>2. QED
    BY <2>1 DEF NoRequest, Requests
<1>1. UNCHANGED <<disk, reps, program, status, rows>>
  BY DEF Asks, Ask, CompareHash, Serve
<1>2. CASE Asks
  <2>1. PICK i \in 1..Items, f \in Files \ {Manifest} : Ask(i, f)
    BY <1>2 DEF Asks
  <2>2. reader' = [NoRequest EXCEPT !.at = "hashing", !.item = i, !.file = f, !.seen = disk[i][Manifest]]
        /\ Readable(i) /\ f \in Tracked(disk[i][Manifest]) /\ reader.at = "idle"
    BY <2>1 DEF Ask
  <2>3. disk[i][Manifest] \in 1..Call /\ Call \in Nat
    BY <2>2, ManifestOfCall, RequestTyped DEF DiskInv
  <2>4. /\ reader' \in Requests /\ reader'.at = "hashing" /\ reader'.item = i /\ reader'.file = f
        /\ reader'.seen = disk[i][Manifest]
    <3>1. disk[i][Manifest] \in Nat
      BY <2>3
    <3>2. reader' = [at |-> "hashing", item |-> i, file |-> f, seen |-> disk[i][Manifest],
                     disturbed |-> FALSE]
      BY <2>2 DEF NoRequest
    <3>3. QED
      BY <3>1, <3>2 DEF Requests
  <2>5. disk[i][f] \in LeftSince(f, disk[i][Manifest])
    BY <2>2 DEF DiskInv, ManifestNeverAhead
  <2>6. RequestInv'
    BY <1>1, <2>2, <2>3, <2>4, <2>5 DEF RequestInv, Call, Tracked, LeftSince, Content
  <2>7. Answered
    BY <2>2 DEF Answered
  <2>8. QED
    BY <1>1, <2>4, <2>6, <2>7
<1>3. CASE CompareHash
  <2>1. reader.at = "hashing"
    BY <1>3 DEF CompareHash
  <2>2. CASE disk[reader.item][reader.file] = Content(reader.file, reader.seen)
    <3>1. reader' = [reader EXCEPT !.at = "reading"]
      BY <1>3, <2>2 DEF CompareHash
    <3>2. /\ reader' \in Requests /\ reader'.at = "reading" /\ reader'.item = reader.item
          /\ reader'.file = reader.file /\ reader'.seen = reader.seen
          /\ reader'.disturbed = reader.disturbed
      BY <3>1, RequestTyped DEF Requests
    <3>3. RequestInv'
      BY <1>1, <2>1, <2>2, <3>2 DEF RequestInv, Call, Tracked, LeftSince, Content
    <3>4. QED
      BY <1>1, <3>2, <3>3 DEF Answered
  <2>3. CASE disk[reader.item][reader.file] # Content(reader.file, reader.seen)
    <3>1. reader' = NoRequest
      BY <1>3, <2>3 DEF CompareHash
    <3>2. ~reader.disturbed => ~FileIntact(reader.item, reader.file)
      BY <2>1, <2>3 DEF RequestInv, FileIntact
    <3>3. Answered
      BY <2>1, <3>2 DEF Answered, RequestInv
    <3>4. RequestInv'
      BY <3>1 DEF RequestInv
    <3>5. QED
      BY <1>1, <3>1, <3>3, <3>4
  <2>4. QED
    BY <2>2, <2>3
<1>4. CASE Serve
  <2>1. reader.at = "reading" /\ reader' = NoRequest
    BY <1>4 DEF Serve
  <2>2. ~reader.disturbed => FileIntact(reader.item, reader.file)
    <3>1. reader.seen \notin {Absent, Torn} 
      BY <2>1, RequestTyped DEF RequestInv, Absent, Torn
    <3>2. QED
      BY <2>1, <3>1 DEF RequestInv, FileIntact, Readable
  <2>3. Answered
    BY <2>1, <2>2 DEF Answered, RequestInv
  <2>4. RequestInv'
    BY <2>1 DEF RequestInv
  <2>5. QED
    BY <1>1, <2>1, <2>3, <2>4
<1>5. QED
  BY <1>2, <1>3, <1>4

StoreInv == DiskInv /\ RequestInv

\* Every step keeps the invariant, and the answers given by a step are right.
LEMMA StoreStep ==
  ASSUME StoreInv, [StoreNext]_storeVars
  PROVE  StoreInv' /\ Answered
<1> USE DEF StoreInv
<1>1. CASE Quiet
  <2>1. /\ disk' = disk /\ reps' = reps /\ reader' = reader
        /\ program' \in Programs /\ program'.at \in {"idle", "preparing", "recorded"}
        /\ status' \in [1..Items -> Statuses] /\ rows' \subseteq 1..Items
        /\ RecordedItem'
    BY <1>1, QuietFacts
  <2>2. StoreTyped'
    BY <2>1 DEF DiskInv, StoreTyped
  <2>3. DiskInv'
    BY <2>1, <2>2, QuietPreserves
  <2>4. RequestInv' /\ Answered
    BY <2>1, QuietKeepsRequest
  <2>5. QED
    BY <2>3, <2>4
<1>2. CASE RunItem
  <2>1. disk' = disk /\ reader' = reader
    BY <1>2 DEF RunItem
  <2>2. QED
    BY <1>2, <2>1, CallPreserves, QuietKeepsRequest
<1>3. CASE OpenFile
  <2>1. /\ program.at = "writing" /\ program.todo # <<>> /\ Disturb /\ reps' = reps
        /\ disk' = [disk EXCEPT ![Item][Head(program.todo)] = Torn]
    BY <1>3 DEF OpenFile
  <2>2. Head(program.todo) \in Files
    BY <2>1, HeadFacts
  <2>3. RequestInv' /\ Answered /\ reader' \in Requests
    BY <2>1, <2>2, WriteKeepsRequest
  <2>4. QED
    BY <1>3, <2>3, OpenPreserves
<1>4. CASE FillFile
  <2>1. program.at = "writing" /\ program.todo # <<>>
    BY <1>4 DEF FillFile, DiskInv, WritingDone
  <2>2. /\ Disturb /\ reps' = reps
        /\ disk' = [disk EXCEPT ![Item][Head(program.todo)] = Content(Head(program.todo), Call)]
    BY <1>4 DEF FillFile, Call
  <2>3. Head(program.todo) \in Files
    BY <2>1, HeadFacts
  <2>4. RequestInv' /\ Answered /\ reader' \in Requests
    BY <2>1, <2>2, <2>3, WriteKeepsRequest
  <2>5. QED
    BY <1>4, <2>4, FillPreserves
<1>5. CASE Asks \/ CompareHash \/ Serve
  <2>1. RequestInv' /\ Answered /\ reader' \in Requests /\ UNCHANGED <<disk, reps, program, status, rows>>
    BY <1>5, RequestSteps
  <2>2. StoreTyped' /\ RecordedItem'
    BY <2>1 DEF DiskInv, StoreTyped, RecordedItem, Item
  <2>3. QED
    BY <2>1, <2>2, QuietPreserves
<1>6. CASE UNCHANGED storeVars
  <2>1. UNCHANGED <<disk, reps, program, status, rows, reader>>
    BY <1>6 DEF storeVars
  <2>2. StoreTyped' /\ RecordedItem'
    BY <2>1 DEF DiskInv, StoreTyped, RecordedItem, Item
  <2>3. QED
    BY <2>1, <2>2, QuietPreserves, QuietKeepsRequest
<1>7. QED
  BY <1>1, <1>2, <1>3, <1>4, <1>5, <1>6 DEF StoreNext, Quiet, Asks

\* The inductive invariant of the store, for every number of items, repetitions and
\* invocations.
THEOREM StoreInvariant == StoreSpec => []StoreInv
<1>1. StoreInit => StoreInv
  <2>1. StoreInit => RequestInv
    BY DEF StoreInit, RequestInv, NoRequest
  <2>2. QED
    BY <2>1, DiskInitHolds DEF StoreInv
<1>2. StoreInv /\ [StoreNext]_storeVars => StoreInv'
  BY StoreStep
<1>3. QED
  BY <1>1, <1>2, PTL DEF StoreSpec

\* A manifest that can be read never vouches for a file that is missing or older than
\* itself, after any failures, kills and reuse of the directory.
THEOREM ManifestsNeverAhead == StoreSpec => []ManifestNeverAhead
<1>1. StoreInv => ManifestNeverAhead
  BY DEF StoreInv, DiskInv
<1>2. QED
  BY <1>1, StoreInvariant, PTL

\* The API's answers follow the bundle, whatever the programs write in between.
THEOREM AnswersFollow == StoreSpec => AnswersFollowBundle
<1>1. ASSUME StoreInv, [StoreNext]_storeVars
      PROVE  [LET i == reader.item  f == reader.file IN
              reader.at # "idle" /\ reader'.at = "idle" =>
                /\ ~reader.disturbed => (reader.at = "reading" <=> FileIntact(i, f))
                /\ disk[i][f] \in LeftSince(f, reader.seen)]_storeVars
  BY <1>1, StoreStep DEF Answered
<1>2. QED
  BY <1>1, StoreInvariant, PTL DEF StoreSpec, AnswersFollowBundle

-------------------------------------------------------------------------------
\* The verdicts: what a program believes of the items it has passed.
Ok == {i \in 1..Items : status[i] = "ok"}

RowsFollow ==
  /\ rows \subseteq Ok
  /\ program.at # "idle" =>
       \A i \in Ok : i \in rows \/ (program.at = "recorded" /\ i = Item)
  /\ program.at = "idle" /\ program.ended = "finished" => Ok \subseteq rows

VerdictInv ==
  /\ \A i \in 1..Items : status[i] # "corrupt"
  /\ \A i \in Ok : Intact(i)
  /\ program.at # "idle" => \A i \in Ok : i < Item \/ (i = Item /\ program.at = "recorded")
  /\ program.at = "recorded" => Item \in Ok /\ program.kind = "matrix"
  /\ program.kind = "matrix" => RowsFollow
  /\ program.at = "idle" /\ program.ended \in {"finished", "interrupted"} => published = status

\* A bundle whose directory is not written keeps verifying.
LEMMA IntactKept ==
  ASSUME DiskInv, NEW i \in 1..Items, Intact(i), disk'[i] = disk[i], reps' = reps \/ RunItem
  PROVE  Intact(i)'
<1>1. disk[i][Manifest] \in 1..Call
  BY ManifestOfCall DEF DiskInv, Intact
<1>2. reps'[disk[i][Manifest]] = reps[disk[i][Manifest]]
  <2>1. CASE RunItem
    <3>1. reps \in Seq(1..MaxReps) /\ program.count \in 1..MaxReps
          /\ reps' = Append(reps, program.count)
      BY <2>1 DEF RunItem, DiskInv, StoreTyped, Programs
    <3>2. QED
      BY <1>1, <3>1, AppendProperties DEF Call
  <2>2. QED
    BY <2>1
<1>3. Tracked(disk[i][Manifest])' = Tracked(disk[i][Manifest])
  <2>1. Tracked(disk[i][Manifest])'
          = {Config, Statistics, Report} \union {Raw(n) : n \in 1..reps'[disk'[i][Manifest]]}
    BY DEF Tracked
  <2>2. QED
    BY <1>2, <2>1 DEF Tracked
<1>4. \A f : Content(f, disk[i][Manifest])' = Content(f, disk[i][Manifest])
  BY <1>2 DEF Content
<1>5. QED
  BY <1>3, <1>4 DEF Intact, FileIntact, Readable

\* When nothing is left to write, the bundle verifies.
LEMMA WrittenIsIntact ==
  ASSUME DiskInv, program.at = "writing", program.todo = <<>>
  PROVE  Item \in 1..Items /\ Intact(Item)
<1>1. /\ Item \in 1..Items /\ Call \in 1..Call
      /\ \A f \in Tracked(Call) \union {Manifest} : disk[Item][f] = Content(f, Call)
  BY DEF DiskInv, WritingDone, PendingIn
<1>2. disk[Item][Manifest] = Call
  BY <1>1, FilesDiffer DEF Content
<1>3. Readable(Item)
  BY <1>1, <1>2 DEF Readable, Absent, Torn
<1>4. QED
  BY <1>1, <1>2, <1>3 DEF Intact, FileIntact

\* The verdict of an item is recorded and the loop goes on: the verdicts stay true.
LEMMA RecordKeepsVerdicts ==
  ASSUME DiskInv, VerdictInv, program.at \in {"preparing", "writing"}, Item \in 1..Items,
         NEW verdict \in {"missing", "failed", "ok"}, Record(verdict),
         verdict = "ok" => Intact(Item),
         UNCHANGED <<disk, reps, rows>>,
         \/ Advance /\ (verdict = "ok" => program.kind # "matrix")
         \/ program' = [program EXCEPT !.at = "recorded"] /\ verdict = "ok" /\ program.kind = "matrix"
  PROVE  VerdictInv'
<1>1. /\ program \in Programs /\ status \in [1..Items -> Statuses] /\ Items \in Nat
      /\ program.item \in Int
  BY StoreAssumption DEF DiskInv, StoreTyped, Programs
<1>2. /\ status'[Item] = verdict
      /\ \A i \in 1..Items : i # Item => status'[i] = status[i]
  BY <1>1 DEF Record
<1>3. Item \notin Ok
  BY DEF VerdictInv
<1>4. Ok' = IF verdict = "ok" THEN Ok \union {Item} ELSE Ok
  BY <1>2, <1>3 DEF Ok
<1>5. \A i \in 1..Items : status'[i] # "corrupt"
  BY <1>2 DEF VerdictInv
<1>6. \A i \in Ok' : Intact(i)'
  BY <1>4, IntactKept DEF VerdictInv, Ok
<1>7. program'.kind = program.kind
  BY <1>1 DEF Advance, Programs
<1>8. CASE Advance /\ (verdict = "ok" => program.kind # "matrix")
  <2>1. program'.at = "preparing" /\ program'.item = program.item + 1
    BY <1>1, <1>8 DEF Advance, Programs
  <2>2. \A i \in Ok' : i < Item'
    BY <1>1, <1>4, <2>1 DEF VerdictInv, Item, Ok
  <2>3. program.kind = "matrix" => RowsFollow'
    BY <1>4, <1>8, <2>1 DEF VerdictInv, RowsFollow, Item
  <2>4. QED
    BY <1>5, <1>6, <1>7, <2>1, <2>2, <2>3 DEF VerdictInv
<1>9. CASE program' = [program EXCEPT !.at = "recorded"] /\ verdict = "ok" /\ program.kind = "matrix"
  <2>1. program'.at = "recorded" /\ program'.item = program.item
    BY <1>1, <1>9 DEF Programs
  <2>2. \A i \in Ok' : i < Item' \/ i = Item'
    BY <1>4, <2>1 DEF VerdictInv, Item, Ok
  <2>3. Item' \in Ok'
    BY <1>4, <1>9, <2>1 DEF Item
  <2>4. RowsFollow'
    BY <1>4, <1>9, <2>1 DEF VerdictInv, RowsFollow, Item
  <2>5. QED
    BY <1>5, <1>6, <1>7, <1>9, <2>1, <2>2, <2>3, <2>4 DEF VerdictInv
<1>10. QED
  BY <1>8, <1>9

\* A program that ends keeps its verdicts, and publishes them when it finishes.
LEMMA EndKeepsVerdicts ==
  ASSUME DiskInv, VerdictInv, Finish \/ Interrupt \/ Kill
  PROVE  VerdictInv'
<1>1. /\ disk' = disk /\ reps' = reps /\ program.at # "idle"
      /\ Finish => program.at = "preparing"
  BY DEF Finish, Interrupt, Finalize, Kill
<1>2. CASE NothingRecorded /\ Stop("unpublished")
  <2>1. /\ Ok' = {} /\ rows' = {} /\ \A i \in 1..Items : status'[i] # "corrupt"
        /\ program'.at = "idle" /\ program'.ended = "unpublished"
    BY <1>2 DEF NothingRecorded, Stop, Idle, Ok
  <2>2. QED
    BY <2>1 DEF VerdictInv, RowsFollow
<1>3. ASSUME NEW how \in {"finished", "interrupted"}, Stop(how), published' = status,
             UNCHANGED <<status, rows>>, how = "finished" => Finish
      PROVE  VerdictInv'
  <2>1. /\ program'.at = "idle" /\ program'.kind = program.kind /\ program'.ended = how
    BY <1>3 DEF Stop, Idle
  <2>2. Ok' = Ok
    BY <1>3 DEF Ok
  <2>3. \A i \in Ok' : Intact(i)'
    BY <1>1, <2>2, IntactKept DEF VerdictInv, Ok
  <2>4. program.kind = "matrix" => RowsFollow'
    BY <1>1, <1>3, <2>1, <2>2 DEF VerdictInv, RowsFollow
  <2>5. QED
    BY <1>3, <2>1, <2>3, <2>4 DEF VerdictInv
<1>4. QED
  BY <1>2, <1>3 DEF Finish, Interrupt, Finalize, Kill

LEMMA VerdictStep ==
  ASSUME DiskInv, VerdictInv, [StoreNext]_storeVars
  PROVE  VerdictInv'
<1>1. /\ program \in Programs /\ status \in [1..Items -> Statuses] /\ Items \in Nat
      /\ program.item \in 1..(Items + 1) /\ disk \in [1..Items -> [Files -> Int]]
  BY StoreAssumption DEF DiskInv, StoreTyped, Programs
<1>2. ASSUME NEW n \in 1..MaxReps, Begin(n) PROVE VerdictInv'
  <2>1. /\ program'.at = "preparing" /\ status' = [i \in 1..Items |-> "pending"] /\ rows' = {}
    BY <1>2 DEF Begin, NothingRecorded, Idle
  <2>2. Ok' = {} /\ \A i \in 1..Items : status'[i] # "corrupt"
    BY <2>1 DEF Ok
  <2>3. QED
    BY <2>1, <2>2 DEF VerdictInv, RowsFollow
<1>3. CASE SkipItem
  <2>1. /\ program.at = "preparing" /\ Item \in 1..Items /\ Advance
        /\ UNCHANGED <<disk, reps, rows>>
        /\ Record("missing") \/ Record("failed")
    BY <1>1, <1>3 DEF SkipItem, Item
  <2>2. QED
    BY <2>1, RecordKeepsVerdicts
<1>4. CASE RunItem
  <2>1. /\ program.at = "preparing" /\ UNCHANGED <<disk, status, rows, published>>
        /\ program'.at = "writing" /\ program'.item = program.item /\ program'.kind = program.kind
    BY <1>1, <1>4 DEF RunItem, Programs
  <2>2. Ok' = Ok
    BY <2>1 DEF Ok
  <2>3. \A i \in Ok' : Intact(i)'
    BY <1>4, <2>1, <2>2, IntactKept DEF VerdictInv, Ok
  <2>4. QED
    BY <2>1, <2>2, <2>3 DEF VerdictInv, RowsFollow, Item
<1>5. CASE OpenFile \/ FillFile
  <2>1. /\ program.at = "writing" /\ UNCHANGED <<reps, status, rows, published>>
        /\ program'.at = "writing" /\ program'.item = program.item /\ program'.kind = program.kind
    BY <1>1, <1>5 DEF OpenFile, FillFile, Programs
  <2>2. \A i \in 1..Items : i # Item => disk'[i] = disk[i]
    BY <1>1, <1>5 DEF OpenFile, FillFile
  <2>3. Ok' = Ok /\ Item \notin Ok
    BY <2>1 DEF Ok, VerdictInv
  <2>4. \A i \in Ok' : Intact(i)'
    BY <2>1, <2>2, <2>3, IntactKept DEF VerdictInv, Ok
  <2>5. QED
    BY <2>1, <2>3, <2>4 DEF VerdictInv, RowsFollow, Item
<1>6. CASE WriteFails
  <2>1. /\ program.at = "writing" /\ Item \in 1..Items /\ Advance
        /\ UNCHANGED <<disk, reps, rows>> /\ Record("failed")
    BY <1>6 DEF WriteFails, DiskInv, WritingDone
  <2>2. QED
    BY <2>1, RecordKeepsVerdicts
<1>7. CASE BundleWritten
  <2>1. program.at = "writing" /\ Item \in 1..Items /\ Intact(Item)
    BY <1>7, WrittenIsIntact DEF BundleWritten
  <2>2. /\ Record("ok") /\ UNCHANGED <<disk, reps, rows>>
        /\ IF program.kind = "matrix"
           THEN program' = [program EXCEPT !.at = "recorded"] ELSE Advance
    BY <1>7, <2>1 DEF BundleWritten
  <2>3. QED
    BY <2>1, <2>2, RecordKeepsVerdicts
<1>8. CASE AddRow
  <2>1. /\ program.at = "recorded" /\ rows' = rows \union {Item} /\ UNCHANGED <<disk, reps, status>>
        /\ program'.at = "preparing" /\ program'.item = program.item + 1
        /\ program'.kind = program.kind
    BY <1>1, <1>8 DEF AddRow, Advance, Programs
  <2>2. Ok' = Ok
    BY <2>1 DEF Ok
  <2>3. \A i \in Ok' : Intact(i)' /\ i < Item'
    <3>1. \A i \in Ok' : Intact(i)'
      BY <2>1, <2>2, IntactKept DEF VerdictInv, Ok
    <3>2. \A i \in Ok : i < Item \/ i = Item
      BY <2>1 DEF VerdictInv
    <3>3. Item' = Item + 1 /\ Item \in Int /\ Ok \subseteq Int
      BY <1>1, <2>1 DEF Item, Ok
    <3>4. QED
      BY <2>2, <3>1, <3>2, <3>3
  <2>4. RowsFollow'
    BY <2>1, <2>2 DEF VerdictInv, RowsFollow
  <2>5. QED
    BY <2>1, <2>2, <2>3, <2>4 DEF VerdictInv
<1>9. CASE Finish \/ Interrupt \/ Kill
  BY <1>9, EndKeepsVerdicts
<1>10. ASSUME UNCHANGED <<disk, reps, program, status, rows, published>> PROVE VerdictInv'
  <2>1. Ok' = Ok
    BY <1>10 DEF Ok
  <2>2. \A i \in Ok' : Intact(i)'
    BY <1>10, <2>1, IntactKept DEF VerdictInv, Ok
  <2>3. QED
    BY <1>10, <2>1, <2>2 DEF VerdictInv, RowsFollow, Item
<1>11. CASE Asks \/ CompareHash \/ Serve
  BY <1>11, <1>10 DEF Asks, Ask, CompareHash, Serve
<1>12. CASE UNCHANGED storeVars
  BY <1>12, <1>10 DEF storeVars
<1>13. QED
  BY <1>2, <1>3, <1>4, <1>5, <1>6, <1>7, <1>8, <1>9, <1>11, <1>12 DEF StoreNext, Asks

\* What a finished or interrupted invocation publishes is true of the disk: an item
\* called ok has a bundle that verifies, and the comparison has exactly the ok rows.
THEOREM VerdictsAreTrue == StoreSpec => []VerdictsTrue
<1>1. StoreInit => VerdictInv
  <2> SUFFICES ASSUME StoreInit PROVE VerdictInv
    OBVIOUS
  <2>1. /\ status = [i \in 1..Items |-> "pending"] /\ rows = {} /\ program.at = "idle"
        /\ program.ended = "never"
    BY DEF StoreInit, Idle
  <2>2. Ok = {} /\ \A i \in 1..Items : status[i] # "corrupt"
    BY <2>1 DEF Ok
  <2>3. QED
    BY <2>1, <2>2 DEF VerdictInv, RowsFollow
<1>2. StoreInv /\ VerdictInv /\ [StoreNext]_storeVars => VerdictInv'
  BY VerdictStep DEF StoreInv
<1>3. VerdictInv => VerdictsTrue
  BY DEF VerdictInv, VerdictsTrue, RowsFollow, Ok
<1>4. QED
  BY <1>1, <1>2, <1>3, StoreInvariant, PTL DEF StoreSpec
===============================================================================

--------------------------- MODULE IdxStoreProofs ---------------------------
(***************************************************************************)
(* The live writer's directory is a ShardStore: under the mapping Shards,  *)
(* Durable of IdxShard every step of the writer, of a crash and of the     *)
(* repair tool is a step of the store, or leaves it as it is.              *)
(*                                                                         *)
(* Then the manifest: DiskInv of IdxShard is inductive beside OrderInv, so *)
(* closed days are listed, what is listed is on stable storage, and the    *)
(* open log keeps its name.                                                *)
(*                                                                         *)
(* Last the delta gate across restarts, crashes and rotations: what is     *)
(* stored is news, what is dropped was not, and a day can be read by       *)
(* itself.  The argument is GateInv of IdxShard, inductive beside OrderInv *)
(* and DiskInv; the three make up IInv.                                    *)
(***************************************************************************)
EXTENDS IdxShardProofs

-----------------------------------------------------------------------------
(* What a step makes of the files, and the step of the store it is.        *)

LEMMA StoreSame ==
  ASSUME \A d \in Days : file'[d].recs = file[d].recs /\ file'[d].durable = file[d].durable
  PROVE  UNCHANGED Store!store
<1>1. Shards' = Shards /\ Durable' = Durable
  BY DEF Shards, Durable
<1>2. QED BY <1>1 DEF Store!store

LEMMA StoreHardens ==
  ASSUME NEW e \in Days,
         \A d \in Days : /\ file'[d].recs = file[d].recs
                         /\ file'[d].durable = IF d = e THEN Len(file[e].recs) ELSE file[d].durable
  PROVE  Store!Next
<1>1. Shards' = Shards
  BY DEF Shards
<1>2. Durable' = [Durable EXCEPT ![e] = Len(Shards[e])]
  BY DEF Shards, Durable
<1>3. Store!Harden(e)
  BY <1>1, <1>2 DEF Store!Harden
<1>4. QED BY <1>3 DEF Store!Next

LEMMA StoreGrows ==
  ASSUME file \in [Days -> FileOf(Record)], NEW e \in Days, NEW r \in Record \cup {Garbage}, NEW g,
         \A d \in Days : file[d].recs # <<>> => d <= e,
         file' = [file EXCEPT ![e] = g], g.recs = Append(file[e].recs, r),
         g.durable \in {file[e].durable, Len(g.recs)},
         r # Garbage => Day(r.ts) = e /\ Follows(r.ts, file[e])
  PROVE  Store!Next
<1>1. file[e].recs \in Seq(Record \cup {Garbage})
  BY FileFields
<1>2. Shards' = [Shards EXCEPT ![e] = Append(@, r)]
  BY DEF Shards
<1>3. Len(g.recs) = Len(Shards[e]) + 1
  BY <1>1 DEF Shards
<1>4. Durable' \in {Durable, [Durable EXCEPT ![e] = Len(Shards[e]) + 1]}
  BY <1>3 DEF Durable
<1>5. Store!Newest(e)
  BY DEF Store!Newest, Shards
<1>6. ASSUME r # Garbage PROVE Store!Fits(e, r)
  <2>1. Shards[e] = file[e].recs
    BY DEF Shards
  <2>2. Store!Whole(Shards[e]) => Clean(file[e])
    BY <1>1, <2>1 DEF Store!Whole, Clean
  <2>3. QED BY <1>6, <2>1, <2>2 DEF Store!Fits, Follows, LastRec
<1>7. Store!Grow(e, r)
  BY <1>2, <1>4, <1>5, <1>6 DEF Store!Grow
<1>8. QED BY <1>7 DEF Store!Next

LEMMA StoreFails ==
  ASSUME file \in [Days -> FileOf(Record)], DurableFits,
         \A d \in Days : file'[d] \in AfterPowerLoss(file[d])
  PROVE  Store!Next
<1> DEFINE k == [d \in Days |-> file'[d].durable]
<1>1. \A d \in Days : /\ file'[d].durable \in file[d].durable .. Len(file[d].recs)
                      /\ file'[d].recs = SubSeq(file[d].recs, 1, file'[d].durable)
  BY DurableCut DEF DurableFits
<1>2. \A d \in Days : file[d].durable \in Nat /\ Len(file[d].recs) \in Nat
  BY FileFields
<1>3. \A d \in Days : /\ k[d] \in 0 .. Len(Shards[d])
                      /\ Durable[d] <= k[d] /\ k[d] <= Len(Shards[d])
  BY <1>1, <1>2 DEF Shards, Durable
<1>4. k \in Store!Cuts
  BY <1>3 DEF Store!Cuts
<1>5. Durable' = k
  BY DEF Durable
<1>6. Shards' = [d \in Days |-> SubSeq(Shards[d], 1, k[d])]
  BY <1>1 DEF Shards
<1>7. Store!Fail
  BY <1>4, <1>5, <1>6 DEF Store!Fail
<1>8. QED BY <1>7 DEF Store!Next

(* A step of the store keeps the durable slots within the slots.           *)
LEMMA DurableStays ==
  ASSUME file \in [Days -> FileOf(Record)], file' \in [Days -> FileOf(Record)], DurableFits,
         [Store!Next]_(Store!store)
  PROVE  DurableFits'
<1>1. /\ Shards \in [Days -> Seq(Record \cup {Garbage})] /\ Durable \in [Days -> Nat]
      /\ \A d \in Days : Durable[d] <= Len(Shards[d]) /\ Len(Shards[d]) \in Nat
  BY FileFields DEF Shards, Durable, DurableFits
<1>2. SUFFICES \A d \in Days : Durable'[d] <= Len(Shards'[d])
  BY DEF DurableFits, Shards, Durable
<1>3. CASE UNCHANGED Store!store
  BY <1>1, <1>3 DEF Store!store
<1>4. ASSUME NEW e \in Days, Store!Harden(e) PROVE \A d \in Days : Durable'[d] <= Len(Shards'[d])
  BY <1>1, <1>4 DEF Store!Harden
<1>5. ASSUME NEW e \in Days, NEW r \in Record \cup {Garbage}, Store!Grow(e, r)
      PROVE  \A d \in Days : Durable'[d] <= Len(Shards'[d])
  <2>1. /\ Shards' = [Shards EXCEPT ![e] = Append(@, r)]
        /\ Durable' \in {Durable, [Durable EXCEPT ![e] = Len(Shards[e]) + 1]}
    BY <1>5 DEF Store!Grow
  <2>2. Len(Append(Shards[e], r)) = Len(Shards[e]) + 1
    BY <1>1
  <2>3. QED BY <1>1, <2>1, <2>2
<1>6. ASSUME Store!Fail PROVE \A d \in Days : Durable'[d] <= Len(Shards'[d])
  <2>1. PICK k \in Store!Cuts : Shards' = [d \in Days |-> SubSeq(Shards[d], 1, k[d])] /\ Durable' = k
    BY <1>6 DEF Store!Fail
  <2>2. \A d \in Days : k[d] \in Nat /\ k[d] <= Len(Shards[d])
    BY <1>1, <2>1 DEF Store!Cuts
  <2>3. \A d \in Days : Len(SubSeq(Shards[d], 1, k[d])) = k[d]
    BY <1>1, <2>2
  <2>4. QED BY <2>1, <2>2, <2>3
<1>7. QED BY <1>3, <1>4, <1>5, <1>6 DEF Store!Next

-----------------------------------------------------------------------------
(* The steps of the writer.                                                *)

LEMMA SyncStores ==
  ASSUME TypeOK, file' = file \/ file' = SyncedLog
  PROVE  [Store!Next]_(Store!store)
<1>1. file \in [Days -> FileOf(Record)] /\ log \in Days \cup {NoDay}
  BY DEF TypeOK
<1>2. CASE file' = file \/ log = NoDay
  BY <1>2, StoreSame DEF SyncedLog
<1>3. CASE file' = SyncedLog /\ log # NoDay
  <2>1. log \in Days /\ file' = [file EXCEPT ![log] = Synced(@)]
    BY <1>1, <1>3 DEF SyncedLog
  <2>2. Synced(file[log]).recs = file[log].recs /\ Synced(file[log]).durable = Len(file[log].recs)
    BY <1>1, <2>1, SyncedType, DurableSlots
  <2>3. QED BY <1>1, <2>1, <2>2, StoreHardens
<1>4. QED BY <1>2, <1>3

LEMMA OpenStores ==
  ASSUME OrderInv, OpenLog
  PROVE  [Store!Next]_(Store!store)
<1> DEFINE d == Day(job.ts)
<1>1. file \in [Days -> FileOf(Record)] /\ d \in Days
  BY DayType DEF OrderInv, TypeOK, OpenLog, JobFits, Busy, Record
<1>2. \/ file' = file \/ file' = [file EXCEPT ![d] = OpenFile(@)]
      \/ file' = [file EXCEPT ![d].exists = TRUE]
  BY DEF OpenLog
<1> HIDE DEF d
<1>3. /\ OpenFile(file[d]).recs = file[d].recs /\ OpenFile(file[d]).durable = file[d].durable
      /\ [file[d] EXCEPT !.exists = TRUE].recs = file[d].recs
      /\ [file[d] EXCEPT !.exists = TRUE].durable = file[d].durable
  <2>1. file[d] \in FileOf(Record)
    BY <1>1
  <2>2. OpenFile(file[d]).recs = file[d].recs /\ OpenFile(file[d]).durable = file[d].durable
    BY <2>1, OpenFileType, DurableSlots
  <2>3. /\ [file[d] EXCEPT !.exists = TRUE].recs = file[d].recs
        /\ [file[d] EXCEPT !.exists = TRUE].durable = file[d].durable
    BY <2>1 DEF FileOf
  <2>4. QED BY <2>2, <2>3
<1>4. \A e \in Days : file'[e].recs = file[e].recs /\ file'[e].durable = file[e].durable
  BY <1>1, <1>2, <1>3
<1>5. QED BY <1>4, StoreSame

(* A write, whole or cut, adds at most one slot to the newest shard.       *)
LEMMA WriteStores ==
  ASSUME OrderInv, pc = "write",
         NEW g \in {WriteRecord(file[log], job), Synced(WriteRecord(file[log], job)), file[log]}
                   \cup PartialWrites(file[log]),
         file' = [file EXCEPT ![log] = g]
  PROVE  [Store!Next]_(Store!store)
<1> DEFINE f == file[log]
<1>1. /\ job \in Record /\ log = cur_date /\ Day(job.ts) = log /\ log \in Days
      /\ Follows(job.ts, f) /\ \A d \in Days : file[d].recs # <<>> => d <= log
  <2>1. job \in Record /\ Day(job.ts) \in Days /\ Up
    BY DayType DEF OrderInv, JobFits, Busy, Record, Up
  <2>2. QED BY <2>1 DEF OrderInv, JobFits, Busy, OnNewestDay
<1>2. file \in [Days -> FileOf(Record)] /\ f \in FileOf(Record)
  BY <1>1 DEF OrderInv, TypeOK
<1>3. CASE g \in {WriteRecord(f, job), Synced(WriteRecord(f, job))}
  <2> DEFINE r == IF f.torn THEN Garbage ELSE job
  <2>1. /\ WriteRecord(f, job) \in FileOf(Record) /\ WriteRecord(f, job).recs = Append(f.recs, r)
        /\ WriteRecord(f, job).durable = f.durable
    BY <1>1, <1>2, WriteRecordType, DurableSlots
  <2>2. /\ Synced(WriteRecord(f, job)).recs = Append(f.recs, r)
        /\ Synced(WriteRecord(f, job)).durable = Len(Append(f.recs, r))
    BY <2>1, SyncedType, DurableSlots
  <2>3. g.recs = Append(f.recs, r) /\ g.durable \in {f.durable, Len(g.recs)}
    BY <1>3, <2>1, <2>2
  <2>4. r \in Record \cup {Garbage} /\ (r # Garbage => r = job)
    BY <1>1
  <2> HIDE DEF r
  <2>5. QED BY <1>1, <1>2, <2>3, <2>4, StoreGrows
<1>4. CASE g \in {f} \cup PartialWrites(f)
  <2>1. g.durable = f.durable /\ (g.recs = f.recs \/ g.recs = Append(f.recs, Garbage))
    BY <1>2, <1>4, PartialWritesType, DurableSlots
  <2>2. CASE g.recs = f.recs
    <3>1. \A e \in Days : file'[e].recs = file[e].recs /\ file'[e].durable = file[e].durable
      BY <1>1, <1>2, <2>1, <2>2
    <3>2. QED BY <3>1, StoreSame
  <2>3. CASE g.recs = Append(f.recs, Garbage)
    BY <1>1, <1>2, <2>1, <2>3, StoreGrows
  <2>4. QED BY <2>1, <2>2, <2>3
<1>5. QED BY <1>3, <1>4

LEMMA RewriteStores ==
  ASSUME TypeOK, NEW d \in Days, ToolRewrite(d)
  PROVE  [Store!Next]_(Store!store)
<1>1. file \in [Days -> FileOf(Record)] /\ file[d] \in FileOf(Record)
      /\ file' = [file EXCEPT ![d] = Synced(OpenFile(@))]
  BY DEF TypeOK, ToolRewrite
<1>2. OpenFile(file[d]) \in FileOf(Record) /\ OpenFile(file[d]).recs = file[d].recs
  BY <1>1, OpenFileType
<1>3. /\ Synced(OpenFile(file[d])).recs = file[d].recs
      /\ Synced(OpenFile(file[d])).durable = Len(file[d].recs)
  BY <1>2, SyncedType, DurableSlots
<1>4. QED BY <1>1, <1>3, StoreHardens

LEMMA StepStores ==
  ASSUME OrderInv, DurableFits, [Next]_vars
  PROVE  [Store!Next]_(Store!store)
<1>1. ASSUME file' = file PROVE [Store!Next]_(Store!store)
  BY <1>1, StoreSame
<1>2. CASE Tick \/ (\E c \in Calls : AppendRecord(c)) \/ OpenWriter \/ ToolAcquire \/ ToolRelease
  BY <1>1, <1>2 DEF Tick, AppendRecord, OpenWriter, ToolAcquire, ToolRelease, disk
<1>3. CASE FinalizeManifest \/ UNCHANGED vars
  BY <1>1, <1>3 DEF FinalizeManifest, vars, disk
<1>4. CASE CloseLog \/ Flush \/ DropWriter
  <2>1. file' = file \/ file' = SyncedLog
    BY <1>4 DEF CloseLog, Flush, DropWriter
  <2>2. QED BY <2>1, SyncStores DEF OrderInv
<1>5. CASE OpenLog
  BY <1>5, OpenStores
<1>6. CASE WriteLog
  <2>1. \E g \in {WriteRecord(file[log], job), Synced(WriteRecord(file[log], job)), file[log]}
                 \cup PartialWrites(file[log]) : file' = [file EXCEPT ![log] = g]
    BY <1>6 DEF WriteLog
  <2>2. QED BY <1>6, <2>1, WriteStores DEF WriteLog
<1>7. CASE Kill
  <2>1. CASE pc = "write"
    <3>1. \E g \in {file[log]} \cup PartialWrites(file[log]) : file' = [file EXCEPT ![log] = g]
      BY <1>7, <2>1 DEF Kill
    <3>2. QED BY <2>1, <3>1, WriteStores
  <2>2. CASE pc # "write"
    BY <1>1, <1>7, <2>2 DEF Kill
  <2>3. QED BY <2>1, <2>2
<1>8. CASE PowerLoss
  <2>1. \A d \in Days : file'[d] \in AfterPowerLoss(file[d])
    BY <1>8 DEF PowerLoss
  <2>2. QED BY <2>1, StoreFails DEF OrderInv, TypeOK
<1>9. CASE \E d \in Days : ToolRewrite(d)
  BY <1>9, RewriteStores DEF OrderInv
<1>10. QED BY <1>2, <1>3, <1>4, <1>5, <1>6, <1>7, <1>8, <1>9 DEF Next

(* shard.rs and append_log.rs, module documentation: through rotations,    *)
(* late records, kills, power failures, failed writes and restarts, the    *)
(* readers of a directory see a ShardStore.                                *)
THEOREM WriterIsAStore == Spec => ReadersSeeAStore
<1>1. Init => Store!Init /\ DurableFits
  BY DEF Init, NoFile, Store!Init, Shards, Durable, DurableFits
<1>2. OrderInv /\ OrderInv' /\ DurableFits /\ [Next]_vars => [Store!Next]_(Store!store) /\ DurableFits'
  BY StepStores, DurableStays DEF OrderInv, TypeOK
<1>3. QED BY <1>1, <1>2, OrderInductive, PTL DEF Spec, Store!Spec, ReadersSeeAStore

-----------------------------------------------------------------------------
(* What the steps make of a file, field by field.                          *)

LEMMA SyncedLogDisk ==
  ASSUME TypeOK, NEW d \in Days
  PROVE  /\ SyncedLog[d].recs = file[d].recs
         /\ SyncedLog[d].torn = file[d].torn
         /\ SyncedLog[d].exists = file[d].exists
         /\ SyncedLog[d].durable = IF d = log THEN Len(file[d].recs) ELSE file[d].durable
<1>1. file \in [Days -> FileOf(Record)] /\ log \in Days \cup {NoDay} /\ d # NoDay
  BY DEF TypeOK, Days, NoDay
<1>2. CASE log = NoDay
  BY <1>1, <1>2 DEF SyncedLog
<1>3. CASE log # NoDay
  <2>1. file[log] \in FileOf(Record) /\ SyncedLog = [file EXCEPT ![log] = Synced(@)]
    BY <1>1, <1>3 DEF SyncedLog
  <2>2. /\ Synced(file[log]).recs = file[log].recs /\ Synced(file[log]).torn = file[log].torn
        /\ Synced(file[log]).exists = file[log].exists
        /\ Synced(file[log]).durable = Len(file[log].recs)
    BY <2>1, SyncedType, DurableSlots
  <2>3. QED BY <1>1, <1>3, <2>1, <2>2
<1>4. QED BY <1>2, <1>3

(* Opening, with what a failed open leaves.                                *)
OpenedFile(f, g) ==
  g.recs = f.recs /\ g.torn = FALSE /\ g.durable = f.durable /\ g.exists = TRUE

LEMMA OpenLogCases ==
  ASSUME OrderInv, OpenLog
  PROVE  /\ job \in Record /\ Day(job.ts) \in Days /\ Day(job.ts) # NoDay
         /\ cur_date # NoDay => Day(job.ts) >= cur_date
         /\ \/ /\ faults' = faults
               /\ \E g : OpenedFile(file[Day(job.ts)], g) /\ file' = [file EXCEPT ![Day(job.ts)] = g]
               /\ log' = Day(job.ts) /\ cur_date' = Day(job.ts) /\ pc' = "write" /\ job' = job
            \/ /\ faults' = faults + 1
               /\ pc' = "idle" /\ job' = NoJob /\ log' = log /\ cur_date' = cur_date
               /\ \A e \in Days : /\ file'[e].recs = file[e].recs /\ file'[e].torn = file[e].torn
                                  /\ file'[e].durable = file[e].durable
<1> DEFINE d == Day(job.ts)
<1>1. job \in Record /\ d \in Days /\ d # NoDay /\ (cur_date # NoDay => d >= cur_date)
  <2>1. job \in Record /\ Day(job.ts) \in Days
    BY DayType DEF OpenLog, OrderInv, JobFits, Busy, Record
  <2>2. QED BY <2>1 DEF OpenLog, OrderInv, JobFits, Busy, Days, NoDay
<1>2. file \in [Days -> FileOf(Record)] /\ file[d] \in FileOf(Record)
  BY <1>1 DEF OrderInv, TypeOK
<1>3. OpenedFile(file[d], OpenFile(file[d]))
  BY <1>2 DEF OpenedFile, OpenFile, FileOf
<1>4. \/ /\ Sound /\ file' = [file EXCEPT ![d] = OpenFile(@)]
         /\ log' = d /\ cur_date' = d /\ pc' = "write" /\ job' = job
      \/ /\ Fault /\ file' \in {file, [file EXCEPT ![d].exists = TRUE]}
         /\ pc' = "idle" /\ job' = NoJob /\ log' = log /\ cur_date' = cur_date
  BY DEF OpenLog
<1> HIDE DEF d
<1>5. ASSUME file' = [file EXCEPT ![d].exists = TRUE], NEW e \in Days
      PROVE  /\ file'[e].recs = file[e].recs /\ file'[e].torn = file[e].torn
             /\ file'[e].durable = file[e].durable
  <2>1. file' = [file EXCEPT ![d] = [file[d] EXCEPT !.exists = TRUE]]
    BY <1>1, <1>2, <1>5
  <2>2. /\ [file[d] EXCEPT !.exists = TRUE].recs = file[d].recs
        /\ [file[d] EXCEPT !.exists = TRUE].torn = file[d].torn
        /\ [file[d] EXCEPT !.exists = TRUE].durable = file[d].durable
    BY <1>2 DEF FileOf
  <2>3. QED BY <1>1, <1>2, <2>1, <2>2
<1>6. CASE /\ Sound /\ file' = [file EXCEPT ![d] = OpenFile(@)]
           /\ log' = d /\ cur_date' = d /\ pc' = "write" /\ job' = job
  <2>1. OpenedFile(file[d], OpenFile(file[d])) /\ file' = [file EXCEPT ![d] = OpenFile(file[d])]
    BY <1>1, <1>2, <1>3, <1>6
  <2>2. QED BY <1>1, <1>6, <2>1 DEF Sound, d
<1>7. CASE /\ Fault /\ file' \in {file, [file EXCEPT ![d].exists = TRUE]}
           /\ pc' = "idle" /\ job' = NoJob /\ log' = log /\ cur_date' = cur_date
  BY <1>1, <1>5, <1>7 DEF Fault, d
<1>8. QED BY <1>4, <1>6, <1>7

(* A kill touches at most the newest shard: behind a fragment, one more    *)
(* slot that nobody can decode.                                            *)
LEMMA KillCases ==
  ASSUME OrderInv, Kill
  PROVE  \/ file' = file
         \/ /\ pc = "write" /\ cur_date \in Days /\ log = cur_date
            /\ \E g \in FileOf(Record) :
                 /\ file' = [file EXCEPT ![cur_date] = g] /\ g.exists = file[cur_date].exists
                 /\ \/ g.recs = file[cur_date].recs
                    \/ file[cur_date].torn /\ g.recs = Append(file[cur_date].recs, Garbage)
<1>1. CASE pc # "write"
  BY <1>1 DEF Kill
<1>2. CASE pc = "write"
  <2>1. PICK g \in {file[log]} \cup PartialWrites(file[log]) : file' = [file EXCEPT ![log] = g]
    BY <1>2 DEF Kill
  <2>2. log = cur_date /\ cur_date \in Days /\ file[cur_date] \in FileOf(Record)
    BY <1>2, WriteFacts
  <2>3. /\ g \in FileOf(Record) /\ g.exists = file[cur_date].exists
        /\ g.recs = file[cur_date].recs \/ g.recs = Append(file[cur_date].recs, Garbage)
    BY <2>1, <2>2, PartialWritesType
  <2>4. file[cur_date].torn \/ g.recs = file[cur_date].recs
    BY <2>1, <2>2, PartialWholeType
  <2>5. QED BY <1>2, <2>1, <2>2, <2>3, <2>4
<1>3. QED BY <1>1, <1>2

LEMMA RewriteCases ==
  ASSUME TypeOK, NEW d \in Days, ToolRewrite(d)
  PROVE  \E g \in FileOf(Record) :
           /\ file' = [file EXCEPT ![d] = g]
           /\ g.recs = file[d].recs /\ g.torn = FALSE /\ g.exists
           /\ g.durable = Len(file[d].recs)
<1>1. file \in [Days -> FileOf(Record)] /\ file[d] \in FileOf(Record)
      /\ file' = [file EXCEPT ![d] = Synced(OpenFile(@))]
  BY DEF TypeOK, ToolRewrite
<1>2. /\ OpenFile(file[d]) \in FileOf(Record) /\ OpenFile(file[d]).recs = file[d].recs
      /\ OpenFile(file[d]).exists /\ OpenFile(file[d]).torn = FALSE
  BY <1>1, OpenFileType DEF OpenFile, FileOf
<1> DEFINE g == Synced(OpenFile(file[d]))
<1>3. /\ g \in FileOf(Record) /\ g.recs = file[d].recs /\ g.torn = FALSE /\ g.exists
      /\ g.durable = Len(file[d].recs)
  BY <1>2, SyncedType, DurableSlots
<1>4. file' = [file EXCEPT ![d] = g]
  BY <1>1
<1> HIDE DEF g
<1>5. QED BY <1>3, <1>4

(* The manifest after a refresh of one day.                                *)
LEMMA FinalizedAt ==
  ASSUME NEW d \in Days \cup {NoDay}, NEW files, manifest \in ManifestType, NEW e \in Days
  PROVE  \/ e = d /\ files[e].exists /\ Finalized(d, files)[e] = Entry(files[e])
         \/ ~(e = d /\ files[e].exists) /\ Finalized(d, files)[e] = manifest[e]
  BY DEF Finalized, ManifestType, Days, NoDay

-----------------------------------------------------------------------------
(* The parts of DiskInv, one lemma per group and one case per action.      *)

LEMMA ClosedStep ==
  ASSUME OrderInv, LogClosed, NeverDetached, [Next]_vars
  PROVE  LogClosed' /\ NeverDetached'
<1> USE DEF LogClosed, NeverDetached, Up
<1>1. CASE Tick \/ FinalizeManifest \/ Flush \/ ToolAcquire \/ ToolRelease \/ UNCHANGED vars
  BY <1>1 DEF Tick, FinalizeManifest, Flush, ToolAcquire, ToolRelease, writer, vars
<1>2. CASE \E c \in Calls : AppendRecord(c)
  <2>1. PICK c \in Calls : AppendRecord(c)
    BY <1>2
  <2>2. /\ pc = "idle" /\ pc' = ShardStep(RouteDay(c)) /\ log' = log /\ detached' = detached
    BY <2>1 DEF AppendRecord, writer
  <2>3. log \in {NoDay, cur_date}
    BY <2>2 DEF OrderInv, OnNewestDay
  <2>4. QED BY <2>2, <2>3 DEF ShardStep
<1>3. CASE CloseLog
  BY <1>3 DEF CloseLog
<1>4. CASE OpenLog
  BY <1>4 DEF OpenLog
<1>5. CASE WriteLog
  BY <1>5 DEF WriteLog
<1>6. CASE OpenWriter
  BY <1>6 DEF OpenWriter
<1>7. CASE DropWriter \/ Kill \/ PowerLoss
  BY <1>7 DEF DropWriter, Kill, PowerLoss, Halted
<1>8. CASE \E d \in Days : ToolRewrite(d)
  <2>1. PICK d \in Days : ToolRewrite(d)
    BY <1>8
  <2>2. pc = "down" /\ log = NoDay /\ d # NoDay
    BY <2>1 DEF ToolRewrite, OrderInv, LockHeld, Days, NoDay
  <2>3. QED BY <2>1, <2>2 DEF ToolRewrite
<1>9. QED BY <1>1, <1>2, <1>3, <1>4, <1>5, <1>6, <1>7, <1>8 DEF Next

LEMMA RestDurableStep ==
  ASSUME OrderInv, LogClosed, DurableFits, RestDurable, [Next]_vars
  PROVE  RestDurable'
<1> SUFFICES ASSUME kills' = 0, faults' = 0, NEW d \in Days, d # log'
             PROVE  file'[d].durable = Len(file'[d].recs)
  BY DEF RestDurable
<1>1. file \in [Days -> FileOf(Record)] /\ file[d] \in FileOf(Record) /\ d # NoDay
      /\ kills \in Nat /\ faults \in Nat /\ TypeOK
  BY DEF OrderInv, TypeOK, Days, NoDay
<1>2. kills = 0 /\ faults = 0 => (d # log => file[d].durable = Len(file[d].recs))
  BY DEF RestDurable
<1>3. CASE Tick \/ (\E c \in Calls : AppendRecord(c)) \/ FinalizeManifest
           \/ ToolAcquire \/ ToolRelease \/ UNCHANGED vars
  <2>1. UNCHANGED <<file, log, kills>> /\ (faults' = faults \/ faults' = faults + 1)
    BY <1>3 DEF Tick, AppendRecord, FinalizeManifest, ToolAcquire, ToolRelease, Sound, Fault,
                disk, writer, env, vars
  <2>2. QED BY <1>1, <1>2, <2>1
<1>4. CASE CloseLog \/ Flush \/ DropWriter
  <2>1. kills' = kills /\ (Fault \/ (Sound /\ file' = SyncedLog))
    BY <1>4 DEF CloseLog, Flush, DropWriter
  <2>2. kills = 0 /\ faults = 0 /\ file' = SyncedLog
    BY <1>1, <2>1 DEF Fault, Sound
  <2>3. QED BY <1>1, <1>2, <2>2, SyncedLogDisk
<1>5. CASE OpenLog
  <2>1. log = NoDay /\ kills' = kills
    BY <1>5 DEF OpenLog, LogClosed
  <2>2. \/ /\ faults' = faults
           /\ \E g : OpenedFile(file[Day(job.ts)], g) /\ file' = [file EXCEPT ![Day(job.ts)] = g]
           /\ log' = Day(job.ts)
        \/ faults' = faults + 1
    BY <1>5, OpenLogCases
  <2>3. QED BY <1>1, <1>2, <2>1, <2>2 DEF OpenedFile
<1>6. CASE WriteLog
  <2>1. log = cur_date /\ log' = log /\ kills' = kills /\ cur_date \in Days
    BY <1>6, WriteFacts DEF WriteLog
  <2>2. /\ \E g : file' = [file EXCEPT ![cur_date] = g]
        /\ faults' = faults \/ faults' = faults + 1
    BY <1>6, WriteLogCases
  <2>3. QED BY <1>1, <1>2, <2>1, <2>2
<1>7. CASE OpenWriter
  <2>1. log = NoDay /\ UNCHANGED <<file, kills, faults>>
    BY <1>7 DEF OpenWriter, LogClosed, Up, disk, env
  <2>2. QED BY <1>1, <1>2, <2>1
<1>8. CASE Kill
  BY <1>1, <1>8 DEF Kill
<1>9. CASE PowerLoss
  <2>1. file'[d] \in AfterPowerLoss(file[d])
    BY <1>9 DEF PowerLoss
  <2>2. file'[d].durable \in file[d].durable .. Len(file[d].recs)
        /\ file'[d].recs = SubSeq(file[d].recs, 1, file'[d].durable)
    BY <1>1, <2>1, DurableCut DEF DurableFits
  <2>3. file[d].recs \in Seq(Record \cup {Garbage}) /\ file[d].durable \in Nat
    BY <1>1, FileFields
  <2>4. file'[d].durable \in Nat /\ file'[d].durable <= Len(file[d].recs)
    BY <2>2, <2>3
  <2>5. QED BY <2>2, <2>3, <2>4
<1>10. CASE \E e \in Days : ToolRewrite(e)
  <2>1. PICK e \in Days : ToolRewrite(e)
    BY <1>10
  <2>2. UNCHANGED <<log, kills, faults>>
    BY <2>1 DEF ToolRewrite, env
  <2>3. QED BY <1>1, <1>2, <2>1, <2>2, RewriteCases
<1>11. QED BY <1>3, <1>4, <1>5, <1>6, <1>7, <1>8, <1>9, <1>10 DEF Next

(* The durable slots of a file only ever grow in number.                   *)
LEMMA DurableGrows ==
  ASSUME file \in [Days -> FileOf(Record)], DurableFits, [Store!Next]_(Store!store), NEW d \in Days
  PROVE  file[d].durable <= file'[d].durable
<1>1. /\ Durable \in [Days -> Nat] /\ \A e \in Days : Durable[e] <= Len(Shards[e])
      /\ \A e \in Days : Len(Shards[e]) \in Nat
  BY FileFields DEF Shards, Durable, DurableFits
<1>2. SUFFICES Durable[d] <= Durable'[d]
  BY DEF Durable
<1>3. CASE UNCHANGED Store!store
  BY <1>1, <1>3 DEF Store!store
<1>4. ASSUME NEW e \in Days, Store!Harden(e) PROVE Durable[d] <= Durable'[d]
  BY <1>1, <1>4 DEF Store!Harden
<1>5. ASSUME NEW e \in Days, NEW r \in Record \cup {Garbage}, Store!Grow(e, r)
      PROVE  Durable[d] <= Durable'[d]
  BY <1>1, <1>5 DEF Store!Grow
<1>6. ASSUME Store!Fail PROVE Durable[d] <= Durable'[d]
  BY <1>6 DEF Store!Fail, Store!Cuts
<1>7. QED BY <1>3, <1>4, <1>5, <1>6 DEF Store!Next

(* An entry is written only of a file whose slots are all durable.         *)
LEMMA ManifestDurableStep ==
  ASSUME OrderInv, LogClosed, DurableFits, RestDurable, ManifestDurable, [Next]_vars
  PROVE  ManifestDurable'
<1> SUFFICES ASSUME kills' = 0, faults' = 0, NEW d \in Days, manifest'[d] # NoEntry
             PROVE  Len(manifest'[d].recs) <= file'[d].durable
  BY DEF ManifestDurable
<1>0. TypeOK /\ TypeOK' /\ d # NoDay
  BY NextStep DEF OrderInv, Days, NoDay
<1>1. /\ file \in [Days -> FileOf(Record)] /\ file' \in [Days -> FileOf(Record)]
      /\ manifest \in ManifestType /\ TypeOK /\ cur_date \in Days \cup {NoDay}
      /\ d # NoDay
  BY <1>0 DEF TypeOK, ManifestType
<1>2. kills = 0 /\ faults = 0
  <2>1. kills \in Nat /\ faults \in Nat
    BY <1>1 DEF TypeOK
  <2>2. kills' \in {kills, kills + 1} /\ faults' \in {faults, faults + 1}
    BY DEF Next, vars, Tick, AppendRecord, CloseLog, FinalizeManifest, OpenLog, WriteLog,
           OpenWriter, Flush, DropWriter, Kill, PowerLoss, ToolAcquire, ToolRelease, ToolRewrite,
           Sound, Fault, disk, writer, env
  <2>3. QED BY <2>1, <2>2
<1>3. file[d].durable <= file'[d].durable
  BY <1>1, StepStores, DurableGrows
<1>4. ASSUME manifest'[d] = manifest[d] PROVE Len(manifest'[d].recs) <= file'[d].durable
  <2>1. Len(manifest[d].recs) <= file[d].durable
    BY <1>2, <1>4 DEF ManifestDurable
  <2>2. Len(manifest[d].recs) \in Nat /\ file[d].durable \in Nat /\ file'[d].durable \in Nat
    BY <1>1, FileFields DEF ManifestType
  <2>3. QED BY <1>3, <1>4, <2>1, <2>2
<1>5. ASSUME manifest'[d] = Entry(file[d]), file'[d].durable = Len(file[d].recs)
      PROVE  Len(manifest'[d].recs) <= file'[d].durable
  <2>1. Len(file[d].recs) \in Nat
    BY <1>1, FileFields
  <2>2. QED BY <1>5, <2>1 DEF Entry
<1>6. CASE FinalizeManifest
  <2>1. log = NoDay /\ file' = file /\ manifest' \in {manifest, Finalized(cur_date, file)}
    BY <1>6 DEF FinalizeManifest, LogClosed
  <2>2. file[d].durable = Len(file[d].recs)
    BY <1>1, <1>2, <2>1 DEF RestDurable
  <2>3. Finalized(cur_date, file)[d] \in {manifest[d], Entry(file[d])}
    BY <1>1, FinalizedAt
  <2>4. QED BY <1>4, <1>5, <2>1, <2>2, <2>3
<1>7. CASE Flush \/ DropWriter
  <2>1. Fault \/ (file' = SyncedLog /\ manifest' \in {manifest, Finalized(cur_date, file)})
    BY <1>7 DEF Flush, DropWriter
  <2>2. file' = SyncedLog /\ manifest' \in {manifest, Finalized(cur_date, file)}
    BY <1>2, <2>1 DEF Fault
  <2>3. file'[d].durable = Len(file[d].recs)
    BY <1>1, <1>2, <2>2, SyncedLogDisk DEF RestDurable
  <2>4. Finalized(cur_date, file)[d] \in {manifest[d], Entry(file[d])}
    BY <1>1, FinalizedAt
  <2>5. QED BY <1>4, <1>5, <2>2, <2>3, <2>4
<1>8. CASE \E e \in Days : ToolRewrite(e)
  <2>1. PICK e \in Days : ToolRewrite(e)
    BY <1>8
  <2>2. PICK g \in FileOf(Record) :
          /\ file' = [file EXCEPT ![e] = g]
          /\ g.recs = file[e].recs /\ g.torn = FALSE /\ g.exists
          /\ g.durable = Len(file[e].recs)
    BY <1>1, <2>1, RewriteCases
  <2>3. manifest' = Finalized(e, file')
    BY <2>1 DEF ToolRewrite
  <2>4. manifest'[d] = manifest[d] \/ (d = e /\ manifest'[d] = Entry(file'[d]))
    BY <1>1, <2>3, FinalizedAt
  <2>5. ASSUME d = e, manifest'[d] = Entry(g) PROVE Len(manifest'[d].recs) <= file'[d].durable
    <3>1. Len(g.recs) \in Nat /\ file'[d] = g
      BY <1>1, <2>2, <2>5, FileFields
    <3>2. QED BY <2>2, <2>5, <3>1 DEF Entry
  <2>6. QED BY <1>1, <1>4, <2>2, <2>4, <2>5
<1>9. ASSUME manifest' = manifest PROVE Len(manifest'[d].recs) <= file'[d].durable
  BY <1>4, <1>9
<1>10. CASE Tick \/ (\E c \in Calls : AppendRecord(c)) \/ OpenWriter \/ ToolAcquire \/ ToolRelease
            \/ UNCHANGED vars
  BY <1>9, <1>10 DEF Tick, AppendRecord, OpenWriter, ToolAcquire, ToolRelease, disk, vars
<1>11. CASE CloseLog \/ OpenLog \/ WriteLog \/ Kill \/ PowerLoss
  BY Zenon, <1>9, <1>11 DEF CloseLog, OpenLog, WriteLog, Kill, PowerLoss
<1>12. QED BY <1>6, <1>7, <1>8, <1>10, <1>11 DEF Next

(* The names a step adds or takes away: opening adds that of the day it    *)
(* opens, and only a power failure takes one away.                         *)
LEMMA NewestFileStep ==
  ASSUME OrderInv, OnNewestFile, [Next]_vars
  PROVE  OnNewestFile'
<1> SUFFICES ASSUME faults' = 0, Up'
             PROVE  /\ cur_date' # NoDay => file'[cur_date'].exists
                    /\ \A e \in Days : file'[e].exists => cur_date' # NoDay /\ e <= cur_date'
  BY DEF OnNewestFile, Exists
<1>1. /\ file \in [Days -> FileOf(Record)] /\ faults \in Nat /\ TypeOK
      /\ cur_date \in Days \cup {NoDay}
  BY DEF OrderInv, TypeOK
<1>2. ASSUME faults' \in {faults, faults + 1}, Up, cur_date' = cur_date,
             \A e \in Days : file'[e].exists = file[e].exists
      PROVE  /\ cur_date' # NoDay => file'[cur_date'].exists
             /\ \A e \in Days : file'[e].exists => cur_date' # NoDay /\ e <= cur_date'
  <2>1. faults = 0
    BY <1>1, <1>2
  <2>2. QED BY <1>1, <1>2, <2>1 DEF OnNewestFile, Exists
<1>3. CASE Tick \/ (\E c \in Calls : AppendRecord(c)) \/ FinalizeManifest
           \/ ToolAcquire \/ ToolRelease \/ UNCHANGED vars
  <2>1. UNCHANGED <<file, cur_date>> /\ faults' \in {faults, faults + 1} /\ Up
    BY <1>3 DEF Tick, AppendRecord, FinalizeManifest, ToolAcquire, ToolRelease, Sound, Fault,
                disk, writer, env, vars, Up
  <2>2. QED BY <1>2, <2>1
<1>4. CASE CloseLog \/ Flush
  <2>1. /\ file' = file \/ file' = SyncedLog
        /\ cur_date' = cur_date /\ faults' \in {faults, faults + 1} /\ Up
    BY <1>4 DEF CloseLog, Flush, Sound, Fault, writer, Up
  <2>2. \A e \in Days : file'[e].exists = file[e].exists
    BY <1>1, <2>1, SyncedLogDisk
  <2>3. QED BY <1>2, <2>1, <2>2
<1>5. CASE OpenLog
  <2> DEFINE d == Day(job.ts)
  <2>1. /\ d \in Days /\ d # NoDay /\ (cur_date # NoDay => d >= cur_date)
        /\ \/ /\ faults' = faults /\ cur_date' = d
              /\ \E g : OpenedFile(file[d], g) /\ file' = [file EXCEPT ![d] = g]
           \/ faults' = faults + 1
    BY <1>5, OpenLogCases
  <2> HIDE DEF d
  <2>2. PICK g : OpenedFile(file[d], g) /\ file' = [file EXCEPT ![d] = g]
    BY <1>1, <2>1
  <2>3. faults = 0 /\ Up /\ cur_date' = d
    BY <1>1, <1>5, <2>1 DEF OpenLog, Up
  <2>4. file'[d].exists
    BY <1>1, <2>1, <2>2 DEF OpenedFile
  <2>5. ASSUME NEW e \in Days, file'[e].exists, e # d PROVE e <= d
    <3>1. cur_date # NoDay /\ e <= cur_date
      BY <1>1, <2>1, <2>2, <2>3, <2>5 DEF OnNewestFile, Exists
    <3>2. cur_date \in Int /\ d \in Int /\ e \in Int
      BY <1>1, <2>1 DEF Days, NoDay
    <3>3. QED BY <2>1, <3>1, <3>2
  <2>6. d <= d
    BY <2>1 DEF Days
  <2>7. QED BY <2>1, <2>3, <2>4, <2>5, <2>6
<1>6. CASE WriteLog
  <2>1. cur_date' = cur_date /\ Up /\ cur_date \in Days
    BY <1>6, WriteFacts DEF WriteLog, Up
  <2>2. PICK g \in FileOf(Record) : file' = [file EXCEPT ![cur_date] = g]
                                    /\ g.exists = file[cur_date].exists
                                    /\ faults' \in {faults, faults + 1}
    BY <1>6, WriteLogCases
  <2>3. \A e \in Days : file'[e].exists = file[e].exists
    BY <1>1, <2>1, <2>2
  <2>4. QED BY <1>2, <2>1, <2>2, <2>3
<1>7. CASE OpenWriter
  <2>1. file' = file /\ IsLatestShard(cur_date')
    BY <1>7 DEF OpenWriter, disk
  <2>2. QED BY <2>1 DEF IsLatestShard, Exists
<1>8. CASE DropWriter \/ Kill \/ PowerLoss
  BY <1>8 DEF DropWriter, Kill, PowerLoss, Halted, Up
<1>9. CASE \E d \in Days : ToolRewrite(d)
  BY <1>9 DEF ToolRewrite, OrderInv, LockHeld, Up
<1>10. QED BY <1>3, <1>4, <1>5, <1>6, <1>7, <1>8, <1>9 DEF Next

LEMMA ListedFirstStep ==
  ASSUME OrderInv, OnNewestFile, ListedFirst, [Next]_vars
  PROVE  ListedFirst'
<1> SUFFICES ASSUME Manifest, faults' = 0, outages' = 0, pc' = "open", cur_date' # NoDay,
                    cur_date' < Day(job'.ts)
             PROVE  manifest'[cur_date'] = Entry(file'[cur_date'])
  BY DEF ListedFirst
<1>1. TypeOK
  BY DEF OrderInv
<1>2. CASE Tick \/ UNCHANGED vars
  BY <1>2 DEF Tick, vars, disk, writer, env, ListedFirst
<1>3. CASE \E c \in Calls : AppendRecord(c)
  <2>1. PICK c \in Calls : AppendRecord(c)
    BY <1>3
  <2>2. ShardStep(Day(c.ts)) = "open" /\ cur_date' = cur_date /\ job'.ts = c.ts
    BY <2>1, AppendFits DEF AppendRecord, writer
  <2>3. Day(c.ts) \in Int
    BY DayType DEF Calls, Days
  <2>4. cur_date = Day(c.ts)
    BY <2>2 DEF ShardStep
  <2>5. QED BY <2>2, <2>3, <2>4
<1>4. CASE FinalizeManifest
  <2>1. /\ file' = file /\ cur_date' = cur_date /\ pc = "finalize"
        /\ (faults' = faults /\ manifest' = Finalized(cur_date, file)) \/ faults' = faults + 1
    BY <1>4 DEF FinalizeManifest, Sound, Fault, writer
  <2>2. faults = 0 /\ manifest' = Finalized(cur_date, file)
    BY <1>1, <2>1 DEF TypeOK
  <2>3. file[cur_date].exists /\ cur_date \in Days
    BY <1>1, <2>1, <2>2 DEF OnNewestFile, Exists, Up, TypeOK
  <2>4. manifest \in ManifestType
    BY <1>1 DEF TypeOK, ManifestType
  <2>5. Finalized(cur_date, file)[cur_date] = Entry(file[cur_date])
    BY <2>3, <2>4, FinalizedAt
  <2>6. QED BY <2>1, <2>2, <2>5
<1>5. CASE CloseLog \/ OpenLog \/ WriteLog \/ OpenWriter \/ Flush \/ DropWriter \/ Kill \/ PowerLoss
  BY <1>5 DEF CloseLog, AfterClose, OpenLog, WriteLog, OpenWriter, Flush, DropWriter, Kill,
              PowerLoss, Halted
<1>6. CASE ToolAcquire \/ ToolRelease \/ \E d \in Days : ToolRewrite(d)
  BY <1>6 DEF ToolAcquire, ToolRelease, ToolRewrite, LockFree, OrderInv, LockHeld, Up
<1>7. QED BY <1>2, <1>3, <1>4, <1>5, <1>6 DEF Next

(* No step changes a closed day behind its entry's back.                   *)
LEMMA ClosedDaysSame ==
  ASSUME ClosedDaysInManifest, Manifest, faults = 0, outages = 0,
         \A e \in Days : file'[e].exists = file[e].exists,
         \A d, e \in Days : (d < e /\ file[d].exists /\ file[e].exists) =>
           \/ manifest'[d] = manifest[d] /\ Entry(file'[d]) = Entry(file[d])
           \/ manifest'[d] = Entry(file'[d])
  PROVE  ClosedDaysInManifest'
<1> SUFFICES ASSUME NEW d \in Days, NEW e \in Days, d < e, file'[d].exists, file'[e].exists
             PROVE  manifest'[d] = Entry(file'[d])
  BY DEF ClosedDaysInManifest, Exists, Entry
<1>1. d < e /\ file[d].exists /\ file[e].exists
  OBVIOUS
<1>2. manifest[d] = Entry(file[d])
  BY <1>1 DEF ClosedDaysInManifest, Exists
<1>3. QED BY <1>1, <1>2

LEMMA ClosedDaysStep ==
  ASSUME OrderInv, OnNewestFile, ListedFirst, ClosedDaysInManifest, [Next]_vars
  PROVE  ClosedDaysInManifest'
<1> SUFFICES ASSUME Manifest, faults' = 0, outages' = 0
             PROVE  ClosedDaysInManifest'
  BY DEF ClosedDaysInManifest
<1>1. /\ TypeOK /\ file \in [Days -> FileOf(Record)] /\ manifest \in ManifestType
      /\ cur_date \in Days \cup {NoDay} /\ Days \subseteq Int
  BY DEF OrderInv, TypeOK, ManifestType, Days
<1>2. faults = 0 /\ outages = 0
  <2>1. outages' \in {outages, outages + 1} /\ faults' \in {faults, faults + 1}
    BY DEF Next, vars, Tick, AppendRecord, CloseLog, FinalizeManifest, OpenLog, WriteLog,
           OpenWriter, Flush, DropWriter, Kill, PowerLoss, ToolAcquire, ToolRelease, ToolRewrite,
           Sound, Fault, disk, writer, env
  <2>2. QED BY <1>1, <2>1 DEF TypeOK
<1>3. CASE Tick \/ (\E c \in Calls : AppendRecord(c)) \/ OpenWriter \/ ToolAcquire \/ ToolRelease
           \/ UNCHANGED vars
  <2>1. file' = file /\ manifest' = manifest
    BY <1>3 DEF Tick, AppendRecord, OpenWriter, ToolAcquire, ToolRelease, disk, vars
  <2>2. QED BY <1>2, <2>1, ClosedDaysSame
<1>4. CASE CloseLog \/ Flush \/ DropWriter \/ FinalizeManifest
  <2>1. /\ file' = file \/ file' = SyncedLog
        /\ manifest' = manifest \/ manifest' = Finalized(cur_date, file)
    BY <1>4 DEF CloseLog, Flush, DropWriter, FinalizeManifest
  <2>2. \A d \in Days : file'[d].exists = file[d].exists /\ Entry(file'[d]) = Entry(file[d])
    BY <1>1, <2>1, SyncedLogDisk DEF Entry
  <2>3. \A d \in Days : Finalized(cur_date, file)[d] \in {manifest[d], Entry(file[d])}
    BY <1>1, FinalizedAt
  <2>4. \A d \in Days : manifest'[d] \in {manifest[d], Entry(file'[d])}
    BY <2>1, <2>2, <2>3
  <2>5. QED BY <1>2, <2>2, <2>4, ClosedDaysSame
<1>5. CASE OpenLog
  <2> DEFINE D == Day(job.ts)
  <2>1. /\ D \in Days /\ D # NoDay /\ (cur_date # NoDay => D >= cur_date) /\ manifest' = manifest
        /\ \/ \E g : OpenedFile(file[D], g) /\ file' = [file EXCEPT ![D] = g]
           \/ faults' = faults + 1
    BY <1>5, OpenLogCases DEF OpenLog
  <2>2. pc = "open" /\ Up
    BY <1>5 DEF OpenLog, Up
  <2>3. cur_date # NoDay /\ cur_date < D => manifest[cur_date] = Entry(file[cur_date])
    BY <1>2, <2>2 DEF ListedFirst
  <2> HIDE DEF D
  <2>4. PICK g : OpenedFile(file[D], g) /\ file' = [file EXCEPT ![D] = g]
    BY <1>2, <2>1
  <2>5. ASSUME NEW d \in Days, NEW e \in Days, d < e, file'[d].exists, file'[e].exists
        PROVE  manifest'[d] = Entry(file'[d])
    <3>1. /\ cur_date # NoDay => file[cur_date].exists /\ cur_date \in Days
          /\ \A x \in Days : file[x].exists => cur_date # NoDay /\ x <= cur_date
      BY <1>1, <1>2, <2>2 DEF OnNewestFile, Exists
    <3>2. \A x \in Days : x # D => file'[x] = file[x]
      BY <1>1, <2>4
    <3>3. d # D
      <4>1. SUFFICES ASSUME d = D PROVE FALSE
        OBVIOUS
      <4>2. e # D /\ file[e].exists
        BY <1>1, <2>5, <3>2, <4>1
      <4>3. e <= cur_date /\ cur_date <= D /\ cur_date \in Int
        BY <1>1, <2>1, <3>1, <4>2
      <4>4. QED BY <1>1, <2>5, <4>1, <4>3
    <3>4. file'[d] = file[d] /\ file[d].exists
      BY <2>5, <3>2, <3>3
    <3>5. CASE d = cur_date /\ cur_date < D
      BY <2>1, <2>3, <3>1, <3>4, <3>5
    <3>6. ASSUME NEW x \in Days, d < x, file[x].exists PROVE manifest'[d] = Entry(file'[d])
      BY <1>2, <2>1, <3>4, <3>6 DEF ClosedDaysInManifest, Exists
    <3>7. d <= cur_date /\ cur_date \in Days /\ cur_date <= D /\ file[cur_date].exists
      BY <2>1, <3>1, <3>4
    <3>8. CASE d = cur_date /\ ~(cur_date < D)
      BY <1>1, <2>1, <3>3, <3>7, <3>8
    <3>9. CASE d # cur_date
      BY <1>1, <3>6, <3>7, <3>9
    <3>10. QED BY <3>5, <3>8, <3>9
  <2>6. QED BY <2>5 DEF ClosedDaysInManifest, Exists, Entry
<1>6. ASSUME Up, cur_date \in Days, manifest' = manifest,
             NEW g, file' = [file EXCEPT ![cur_date] = g], g.exists = file[cur_date].exists
      PROVE  ClosedDaysInManifest'
  <2>1. \A e \in Days : file'[e].exists = file[e].exists
    BY <1>1, <1>6
  <2>2. ASSUME NEW d \in Days, NEW e \in Days, d < e, file[d].exists, file[e].exists
        PROVE  manifest'[d] = manifest[d] /\ Entry(file'[d]) = Entry(file[d])
    <3>1. e <= cur_date
      BY <1>2, <1>6, <2>2 DEF OnNewestFile, Exists
    <3>2. d # cur_date
      BY <1>1, <1>6, <2>2, <3>1
    <3>3. QED BY <1>1, <1>6, <3>2
  <2>3. QED BY <1>2, <2>1, <2>2, ClosedDaysSame
<1>7. CASE WriteLog
  <2>1. Up /\ cur_date \in Days /\ manifest' = manifest
    BY <1>7, WriteFacts DEF WriteLog, Up
  <2>2. PICK g \in FileOf(Record) : file' = [file EXCEPT ![cur_date] = g]
                                    /\ g.exists = file[cur_date].exists
    BY <1>7, WriteLogCases
  <2>3. QED BY <1>6, <2>1, <2>2
<1>8. CASE Kill
  <2>1. Up /\ manifest' = manifest
    BY <1>8 DEF Kill, Up
  <2>2. CASE file' = file
    BY <1>2, <2>1, <2>2, ClosedDaysSame
  <2>3. CASE file' # file
    <3>1. cur_date \in Days /\ \E g \in FileOf(Record) : file' = [file EXCEPT ![cur_date] = g]
                                    /\ g.exists = file[cur_date].exists
      BY <1>8, <2>3, KillCases
    <3>2. QED BY <1>6, <2>1, <3>1
  <2>4. QED BY <2>2, <2>3
<1>9. CASE PowerLoss
  <2>1. outages' = outages + 1
    BY Zenon, <1>9 DEF PowerLoss
  <2>2. QED BY <1>2, <2>1
<1>10. CASE \E x \in Days : ToolRewrite(x)
  <2>1. PICK x \in Days : ToolRewrite(x)
    BY <1>10
  <2>2. PICK g \in FileOf(Record) :
          /\ file' = [file EXCEPT ![x] = g]
          /\ g.recs = file[x].recs /\ g.torn = FALSE /\ g.exists
          /\ g.durable = Len(file[x].recs)
    BY <1>1, <2>1, RewriteCases
  <2>3. manifest' = Finalized(x, file') /\ file[x].exists
    BY <2>1 DEF ToolRewrite, Exists
  <2>4. \A d \in Days : /\ file'[d].exists = file[d].exists
                        /\ d # x => file'[d] = file[d]
    BY <1>1, <2>2, <2>3
  <2>5. ASSUME NEW d \in Days
        PROVE  \/ manifest'[d] = manifest[d] /\ Entry(file'[d]) = Entry(file[d])
               \/ manifest'[d] = Entry(file'[d])
    <3>1. CASE d = x
      <4>1. file'[d].exists
        BY <2>3, <2>4, <3>1
      <4>2. Finalized(x, file')[d] = Entry(file'[d])
        BY <1>1, <3>1, <4>1, FinalizedAt
      <4>3. QED BY <2>3, <4>2
    <3>2. CASE d # x
      <4>1. Finalized(x, file')[d] = manifest[d]
        BY <1>1, <3>2, FinalizedAt
      <4>2. QED BY <2>3, <2>4, <3>2, <4>1
    <3>3. QED BY <3>1, <3>2
  <2>6. QED BY <1>2, <2>4, <2>5, ClosedDaysSame
<1>11. QED BY <1>3, <1>4, <1>5, <1>7, <1>8, <1>9, <1>10 DEF Next

-----------------------------------------------------------------------------
LEMMA InitDisk == Init => DiskInv
<1> SUFFICES ASSUME Init PROVE DiskInv
  OBVIOUS
<1>1. LogClosed /\ NeverDetached
  BY DEF Init, LogClosed, NeverDetached
<1>2. DurableFits /\ RestDurable
  BY DEF Init, DurableFits, RestDurable, NoFile
<1>3. ManifestDurable /\ OnNewestFile /\ ListedFirst /\ ClosedDaysInManifest
  BY DEF Init, ManifestDurable, OnNewestFile, ListedFirst, ClosedDaysInManifest, Exists, Up, NoFile
<1>4. QED BY <1>1, <1>2, <1>3 DEF DiskInv

LEMMA DiskStep == OrderInv /\ DiskInv /\ [Next]_vars => DiskInv'
<1> SUFFICES ASSUME OrderInv, DiskInv, [Next]_vars PROVE DiskInv'
  OBVIOUS
<1> USE DEF DiskInv
<1>1. LogClosed' /\ NeverDetached'
  BY ClosedStep
<1>2. DurableFits'
  <2>1. OrderInv'
    BY NextStep
  <2>2. QED BY <2>1, StepStores, DurableStays DEF OrderInv, TypeOK
<1>3. RestDurable' /\ ManifestDurable'
  BY RestDurableStep, ManifestDurableStep
<1>4. OnNewestFile' /\ ListedFirst' /\ ClosedDaysInManifest'
  BY NewestFileStep, ListedFirstStep, ClosedDaysStep
<1>5. QED BY <1>1, <1>2, <1>3, <1>4

LEMMA DiskInductive == Spec => []DiskInv
<1>1. Init => DiskInv
  BY InitDisk
<1>2. OrderInv /\ DiskInv /\ [Next]_vars => DiskInv'
  BY DiskStep
<1>3. QED BY <1>1, <1>2, OrderInductive, PTL DEF Spec

(* finalize_manifest and shard_entry (shard.rs): an entry is the truth of  *)
(* a closed day as long as no I/O call failed and no power was lost, and   *)
(* it lists nothing that a power failure could still take.                 *)
THEOREM ManifestStaysTrue == Spec => []ManifestTrue
<1>1. DiskInv => ManifestTrue
  BY DEF DiskInv, ManifestTrue
<1>2. QED BY <1>1, DiskInductive, PTL

(* acquire_idx_writer_lock (shard.rs): with the lock the repair tool never *)
(* renames a shard away under the live writer's open log.                  *)
THEOREM LogStaysNamed == Spec => []NeverDetached
<1>1. DiskInv => NeverDetached
  BY DEF DiskInv
<1>2. QED BY <1>1, DiskInductive, PTL

-----------------------------------------------------------------------------
(* How "every record is news" survives the file operations.                *)

LEMMA NewsSame ==
  ASSUME NEW f, NEW g, g.recs = f.recs, NewsFile(f)
  PROVE  NewsFile(g)
  BY DEF NewsFile, CleanUpTo

LEMMA NewsCut ==
  ASSUME NEW f \in FileOf(Record), NEW g, CutOf(g, f), NewsFile(f)
  PROVE  NewsFile(g)
<1>1. f.recs \in Seq(Record \cup {Garbage}) /\ Len(f.recs) \in Nat
  BY FileFields
<1>2. PICK k \in 0 .. Len(f.recs) : g.recs = SubSeq(f.recs, 1, k)
  BY DEF CutOf
<1>3. Len(g.recs) = k /\ \A i \in 1 .. k : g.recs[i] = f.recs[i]
  BY <1>1, <1>2
<1>4. SUFFICES ASSUME NEW i \in 1 .. Len(g.recs) - 1, CleanUpTo(g, i + 1)
               PROVE  News(g.recs[i], g.recs[i + 1])
  BY DEF NewsFile
<1>5. /\ i \in 1 .. Len(f.recs) - 1
      /\ \A j \in 1 .. i + 1 : g.recs[j] = f.recs[j]
      /\ i \in 1 .. i + 1 /\ i + 1 \in 1 .. i + 1
  BY <1>1, <1>3
<1>6. CleanUpTo(f, i + 1)
  BY <1>4, <1>5 DEF CleanUpTo
<1>7. News(f.recs[i], f.recs[i + 1])
  BY <1>5, <1>6 DEF NewsFile
<1>8. QED BY <1>5, <1>7

LEMMA NewsAppend ==
  ASSUME NEW f \in FileOf(Record), NEW g, NEW r, g.recs = Append(f.recs, r), NewsFile(f),
         r # Garbage /\ Clean(f) /\ f.recs # <<>> => News(LastRec(f), r)
  PROVE  NewsFile(g)
<1>1. f.recs \in Seq(Record \cup {Garbage}) /\ Len(f.recs) \in Nat
  BY FileFields
<1>2. Len(g.recs) = Len(f.recs) + 1 /\ g.recs[Len(f.recs) + 1] = r
      /\ \A j \in 1 .. Len(f.recs) : g.recs[j] = f.recs[j]
  BY <1>1
<1>3. SUFFICES ASSUME NEW i \in 1 .. Len(g.recs) - 1, CleanUpTo(g, i + 1)
               PROVE  News(g.recs[i], g.recs[i + 1])
  BY DEF NewsFile
<1>4. CASE i < Len(f.recs)
  <2>1. /\ i \in 1 .. Len(f.recs) - 1 /\ i \in 1 .. Len(f.recs) /\ i + 1 \in 1 .. Len(f.recs)
        /\ \A j \in 1 .. i + 1 : j \in 1 .. Len(f.recs)
    BY <1>1, <1>2, <1>4
  <2>2. CleanUpTo(f, i + 1)
    BY <1>2, <1>3, <2>1 DEF CleanUpTo
  <2>3. News(f.recs[i], f.recs[i + 1])
    BY <2>1, <2>2 DEF NewsFile
  <2>4. QED BY <1>2, <2>1, <2>3
<1>5. CASE i = Len(f.recs)
  <2>1. /\ i \in 1 .. Len(f.recs) /\ i + 1 \in 1 .. i + 1 /\ f.recs # <<>>
        /\ \A j \in 1 .. Len(f.recs) : j \in 1 .. i + 1
    BY <1>1, <1>2, <1>5
  <2>2. r # Garbage
    BY <1>2, <1>3, <1>5, <2>1 DEF CleanUpTo
  <2>3. Clean(f)
    BY <1>2, <1>3, <2>1 DEF Clean, CleanUpTo
  <2>4. News(LastRec(f), r)
    BY <2>1, <2>2, <2>3
  <2>5. QED BY <1>2, <1>5, <2>1, <2>4 DEF LastRec
<1>6. QED BY <1>1, <1>2, <1>4, <1>5

-----------------------------------------------------------------------------
(* Only a write, a kill and a power failure move records, and only a write *)
(* or a kill leaves a fragment.                                            *)
LEMMA RecordsStay ==
  ASSUME OrderInv, [Next]_vars, ~WriteLog, ~Kill, ~PowerLoss, NEW d \in Days
  PROVE  file'[d].recs = file[d].recs /\ (file'[d].torn => file[d].torn)
<1>1. TypeOK /\ file \in [Days -> FileOf(Record)]
  BY DEF OrderInv, TypeOK
<1>2. CASE Tick \/ (\E c \in Calls : AppendRecord(c)) \/ FinalizeManifest \/ OpenWriter
           \/ ToolAcquire \/ ToolRelease \/ UNCHANGED vars
  BY <1>2 DEF Tick, AppendRecord, FinalizeManifest, OpenWriter, ToolAcquire, ToolRelease,
              disk, vars
<1>3. CASE CloseLog \/ Flush \/ DropWriter
  <2>1. file' = file \/ file' = SyncedLog
    BY <1>3 DEF CloseLog, Flush, DropWriter
  <2>2. QED BY <1>1, <2>1, SyncedLogDisk
<1>4. CASE OpenLog
  <2>1. /\ Day(job.ts) \in Days
        /\ \/ \E g : OpenedFile(file[Day(job.ts)], g) /\ file' = [file EXCEPT ![Day(job.ts)] = g]
           \/ file'[d].recs = file[d].recs /\ file'[d].torn = file[d].torn
    BY <1>4, OpenLogCases
  <2>2. QED BY <1>1, <2>1 DEF OpenedFile
<1>5. CASE \E e \in Days : ToolRewrite(e)
  <2>1. PICK e \in Days : ToolRewrite(e)
    BY <1>5
  <2>2. QED BY <1>1, <2>1, RewriteCases
<1>6. QED BY <1>2, <1>3, <1>4, <1>5 DEF Next

(* Outside a call's start and end the record being written stays.          *)
LEMMA JobStays ==
  ASSUME OrderInv, [Next]_vars, Busy'
  PROVE  \/ Busy /\ job' = job /\ ~WriteLog /\ ~Kill /\ ~PowerLoss
         \/ \E c \in Calls : AppendRecord(c)
<1>1. CASE Tick \/ CloseLog \/ FinalizeManifest \/ OpenLog \/ UNCHANGED vars
  BY <1>1 DEF Tick, CloseLog, FinalizeManifest, OpenLog, WriteLog, Kill, PowerLoss, Halted,
              vars, Busy
<1>2. CASE ToolAcquire \/ ToolRelease \/ (\E d \in Days : ToolRewrite(d))
  BY <1>2 DEF ToolAcquire, ToolRelease, ToolRewrite, LockFree, OrderInv, LockHeld, Up, Busy
<1>3. CASE WriteLog \/ OpenWriter \/ Flush \/ DropWriter \/ Kill \/ PowerLoss
  BY <1>3 DEF WriteLog, OpenWriter, Flush, DropWriter, Kill, PowerLoss, Halted, Busy
<1>4. QED BY <1>1, <1>2, <1>3 DEF Next

(* What a kept record says of the newest shard.                            *)
LEMMA AppendedIsNews ==
  ASSUME OrderInv, NEW c \in Calls, AppendRecord(c)
  PROVE  /\ Day(c.ts) \in Days /\ Day(c.ts) # NoDay
         /\ job' = [ts |-> c.ts, q |-> c.q, sentinel |-> ~Kept(c)]
         /\ ~Kept(c) => cur_date = Day(c.ts) /\ last # NoLast
         /\ Gate /\ Clean(file[Day(c.ts)]) /\ file[Day(c.ts)].recs # <<>>
              => News(LastRec(file[Day(c.ts)]), job')
<1> DEFINE d == Day(c.ts)
<1>1. /\ d \in Days /\ d \in Int /\ d # NoDay /\ pc = "idle"
      /\ job' = [ts |-> c.ts, q |-> c.q, sentinel |-> ~Kept(c)]
      /\ cur_date # NoDay => d >= cur_date
  BY AppendFits, DayType DEF AppendRecord, Calls, Days, NoDay
<1>2. window \in {NoDay, cur_date} /\ cur_date \in Days \cup {NoDay} /\ cur_date \in Int /\ Up
  BY <1>1 DEF OrderInv, TypeOK, OnNewestDay, Up, Days, NoDay
<1>3. ~NewDay(c) <=> cur_date = d
  BY <1>2 DEF NewDay, InWindow
<1> HIDE DEF d
<1>4. ~Kept(c) => cur_date = d /\ last # NoLast
  BY <1>3 DEF Kept, Changed
<1>5. ASSUME Gate, Clean(file[d]), file[d].recs # <<>> PROVE News(LastRec(file[d]), job')
  <2>1. cur_date = d
    BY <1>1, <1>2, <1>5 DEF OrderInv, OnNewestDay
  <2>2. Remembers(last, file[d])
    BY <1>1, <1>2, <1>5, <2>1 DEF OrderInv, LastIsTail
  <2>3. SUFFICES ASSUME LastRec(file[d]).q = c.q
                 PROVE  job'.sentinel /\ job'.ts - LastRec(file[d]).ts >= Sentinel
    BY <1>1 DEF News
  <2>4. ~Changed(c) /\ ~Kept(c)
    BY <1>3, <1>5, <2>1, <2>2, <2>3 DEF Changed, Kept, Remembers
  <2>5. SentinelDue(c)
    BY <2>4 DEF AppendRecord, Dropped
  <2>6. QED BY <1>1, <2>2, <2>4, <2>5 DEF SentinelDue, Remembers
<1>6. QED BY <1>1, <1>4, <1>5 DEF d

-----------------------------------------------------------------------------
(* The parts of GateInv.                                                   *)

(* The slots a write, a kill or a failure leaves, for the three actions    *)
(* that move records.                                                      *)
LEMMA MovedRecords ==
  ASSUME OrderInv, WriteLog \/ Kill \/ PowerLoss, NEW d \in Days
  PROVE  \/ file'[d].recs = file[d].recs
         \/ PowerLoss /\ CutOf(file'[d], file[d])
         \/ /\ pc = "write" /\ d = cur_date /\ log = d /\ d = Day(job.ts) /\ job \in Record
            /\ \/ file'[d].recs = Append(file[d].recs, Garbage)
                  /\ (file[d].torn \/ faults' = faults + 1)
               \/ WriteLog /\ ~file[d].torn /\ file'[d].recs = Append(file[d].recs, job)
<1>1. file \in [Days -> FileOf(Record)] /\ file[d] \in FileOf(Record)
  BY DEF OrderInv, TypeOK
<1>2. CASE WriteLog
  <2>1. /\ pc = "write" /\ cur_date \in Days /\ log = cur_date /\ cur_date = Day(job.ts)
        /\ job \in Record
    BY <1>2, WriteFacts DEF WriteLog
  <2>2. PICK g \in FileOf(Record) :
          /\ file' = [file EXCEPT ![cur_date] = g] /\ g.exists = file[cur_date].exists
          /\ \/ faults' = faults /\ Written(file[cur_date], g, last')
             \/ faults' = faults + 1 /\ Failed(file[cur_date], g, last')
    BY <1>2, WriteLogCases
  <2>3. CASE d # cur_date
    BY <1>1, <2>1, <2>2, <2>3
  <2>4. CASE d = cur_date
    <3>1. file'[d] = g
      BY <1>1, <2>1, <2>2, <2>4
    <3>2. \/ g.recs = file[d].recs
          \/ g.recs = Append(file[d].recs, Garbage) /\ (file[d].torn \/ faults' = faults + 1)
          \/ ~file[d].torn /\ g.recs = Append(file[d].recs, job)
      BY <1>1, <2>2, <2>4 DEF Written, Failed
    <3>3. QED BY <1>2, <2>1, <2>4, <3>1, <3>2
  <2>5. QED BY <2>3, <2>4
<1>3. CASE Kill
  <2>1. CASE file' = file
    BY <2>1
  <2>2. CASE file' # file
    <3>1. PICK g \in FileOf(Record) :
            /\ pc = "write" /\ cur_date \in Days /\ log = cur_date
            /\ file' = [file EXCEPT ![cur_date] = g] /\ g.exists = file[cur_date].exists
            /\ \/ g.recs = file[cur_date].recs
               \/ file[cur_date].torn /\ g.recs = Append(file[cur_date].recs, Garbage)
      BY <1>3, <2>2, KillCases
    <3>2. job \in Record /\ cur_date = Day(job.ts)
      BY <3>1, WriteFacts
    <3>3. QED BY <1>1, <3>1, <3>2
  <2>3. QED BY <2>1, <2>2
<1>4. CASE PowerLoss
  <2>1. file'[d] \in AfterPowerLoss(file[d])
    BY <1>4 DEF PowerLoss
  <2>2. QED BY <1>1, <1>4, <2>1, AfterPowerLossType
<1>5. QED BY <1>2, <1>3, <1>4

LEMMA NewsStep ==
  ASSUME OrderInv, NewsPrefix, JobIsNews, [Next]_vars
  PROVE  NewsPrefix'
<1> SUFFICES ASSUME Gate, NEW d \in Days PROVE NewsFile(file'[d])
  BY DEF NewsPrefix, NewsFile, CleanUpTo, News
<1>1. file[d] \in FileOf(Record) /\ NewsFile(file[d])
  BY DEF OrderInv, TypeOK, NewsPrefix
<1>2. CASE file'[d].recs = file[d].recs
  BY <1>1, <1>2, NewsSame
<1>3. CASE CutOf(file'[d], file[d])
  BY <1>1, <1>3, NewsCut
<1>4. CASE file'[d].recs = Append(file[d].recs, Garbage)
  BY <1>1, <1>4, NewsAppend
<1>5. CASE pc = "write" /\ d = Day(job.ts) /\ file'[d].recs = Append(file[d].recs, job)
  <2>1. Clean(file[d]) /\ file[d].recs # <<>> => News(LastRec(file[d]), job)
    BY <1>5 DEF JobIsNews, Busy
  <2>2. QED BY <1>1, <1>5, <2>1, NewsAppend
<1>6. QED BY <1>2, <1>3, <1>4, <1>5, RecordsStay, MovedRecords

LEMMA JobIsNewsStep ==
  ASSUME OrderInv, JobIsNews, [Next]_vars
  PROVE  JobIsNews'
<1> SUFFICES ASSUME Gate, Busy', Clean(file'[Day(job'.ts)]), file'[Day(job'.ts)].recs # <<>>
             PROVE  News(LastRec(file'[Day(job'.ts)]), job')
  BY DEF JobIsNews, News, Clean, LastRec
<1>1. CASE Busy /\ job' = job /\ ~WriteLog /\ ~Kill /\ ~PowerLoss
  <2>1. Day(job.ts) \in Days
    BY <1>1, DayType DEF OrderInv, JobFits, Record
  <2>2. file'[Day(job.ts)].recs = file[Day(job.ts)].recs
    BY <1>1, <2>1, RecordsStay
  <2>3. /\ Clean(file[Day(job.ts)]) /\ file[Day(job.ts)].recs # <<>>
        /\ LastRec(file'[Day(job.ts)]) = LastRec(file[Day(job.ts)])
    BY <1>1, <2>2 DEF Clean, LastRec
  <2>4. QED BY <1>1, <2>3 DEF JobIsNews
<1>2. CASE \E c \in Calls : AppendRecord(c)
  <2>1. PICK c \in Calls : AppendRecord(c)
    BY <1>2
  <2>2. file' = file
    BY <2>1 DEF AppendRecord, disk
  <2>3. job'.ts = c.ts
    BY <2>1, AppendedIsNews
  <2>4. QED BY <2>1, <2>2, <2>3, AppendedIsNews
<1>3. QED BY <1>1, <1>2, JobStays

LEMMA OfThisDayStep ==
  ASSUME OrderInv, OfThisDay, OpenIsWhole, [Next]_vars
  PROVE  OfThisDay'
<1>1. TypeOK /\ faults \in Nat /\ file \in [Days -> FileOf(Record)]
  BY DEF OrderInv, TypeOK
<1>2. ASSUME Up', cur_date' = NoDay PROVE last' = NoLast
  <2>1. ASSUME Up, UNCHANGED <<cur_date, last>> PROVE last' = NoLast
    BY <1>2, <2>1 DEF OfThisDay
  <2>2. CASE Tick \/ (\E c \in Calls : AppendRecord(c)) \/ CloseLog \/ FinalizeManifest \/ Flush
             \/ UNCHANGED vars
    BY <1>2, <2>1, <2>2 DEF Tick, AppendRecord, CloseLog, FinalizeManifest, Flush, writer, vars, Up
  <2>3. CASE OpenLog
    <3>1. Day(job.ts) # NoDay
      BY <2>3, OpenLogCases
    <3>2. QED BY <1>2, <2>1, <2>3, <3>1 DEF OpenLog, Up
  <2>4. CASE WriteLog
    BY <1>2, <2>4, WriteFacts DEF WriteLog
  <2>5. CASE OpenWriter
    BY <1>2, <2>5 DEF OpenWriter, Seeds
  <2>6. CASE DropWriter \/ Kill \/ PowerLoss
    BY <2>6 DEF DropWriter, Kill, PowerLoss, Halted
  <2>7. CASE ToolAcquire \/ ToolRelease \/ \E d \in Days : ToolRewrite(d)
    BY <1>2, <2>7 DEF ToolAcquire, ToolRelease, ToolRewrite, LockFree, OrderInv, LockHeld, Up
  <2>8. QED BY <2>2, <2>3, <2>4, <2>5, <2>6, <2>7 DEF Next
<1>3. ASSUME faults' = 0, pc' = "idle", cur_date' # NoDay, file'[cur_date'].recs = <<>>
      PROVE  last' = NoLast
  <2>1. CASE Tick \/ Flush \/ UNCHANGED vars
    <3>1. UNCHANGED <<cur_date, last>> /\ pc = "idle" /\ faults' \in {faults, faults + 1}
          /\ ~WriteLog /\ ~Kill /\ ~PowerLoss
      BY <1>3, <2>1 DEF Tick, Flush, WriteLog, Kill, PowerLoss, Halted, Sound, Fault, writer, env,
                        vars
    <3>2. file[cur_date].recs = <<>> /\ faults = 0
      BY <1>1, <1>3, <3>1, RecordsStay DEF TypeOK
    <3>3. QED BY <1>3, <3>1, <3>2 DEF OfThisDay
  <2>2. CASE OpenLog
    BY <1>1, <1>3, <2>2, OpenLogCases
  <2>3. CASE WriteLog
    <3>1. /\ cur_date \in Days /\ cur_date' = cur_date /\ file[cur_date] \in FileOf(Record)
      BY <2>3, WriteFacts DEF WriteLog
    <3>2. \E g : file' = [file EXCEPT ![cur_date] = g] /\ Written(file[cur_date], g, last')
      BY <1>1, <1>3, <2>3, WriteLogCases
    <3>3. \E r : file'[cur_date].recs = Append(file[cur_date].recs, r)
      BY <1>1, <3>1, <3>2 DEF Written
    <3>4. file[cur_date].recs \in Seq(Record \cup {Garbage})
      BY <3>1, FileFields
    <3>5. QED BY <1>3, <3>1, <3>3, <3>4
  <2>4. CASE OpenWriter
    BY <1>3, <2>4 DEF OpenWriter, Seeds, disk
  <2>5. CASE DropWriter \/ Kill \/ PowerLoss
    BY <1>3, <2>5 DEF DropWriter, Kill, PowerLoss, Halted
  <2>6. CASE ToolAcquire \/ ToolRelease \/ \E d \in Days : ToolRewrite(d)
    BY <1>3, <2>6 DEF ToolAcquire, ToolRelease, ToolRewrite, LockFree, OrderInv, LockHeld, Up
  <2>7. CASE (\E c \in Calls : AppendRecord(c)) \/ CloseLog \/ FinalizeManifest
    BY <1>3, <2>7 DEF AppendRecord, ShardStep, CloseLog, AfterClose, FinalizeManifest
  <2>8. QED BY <2>1, <2>2, <2>3, <2>4, <2>5, <2>6, <2>7 DEF Next
<1>4. ASSUME faults' = 0, Busy', job'.sentinel PROVE file'[Day(job'.ts)].recs # <<>>
  <2>1. CASE Busy /\ job' = job /\ ~WriteLog /\ ~Kill /\ ~PowerLoss
    <3>1. Day(job.ts) \in Days
      BY <2>1, DayType DEF OrderInv, JobFits, Record
    <3>2. file'[Day(job.ts)].recs = file[Day(job.ts)].recs
      BY <2>1, <3>1, RecordsStay
    <3>3. faults' \in {faults, faults + 1}
      BY <2>1 DEF Next, vars, Tick, AppendRecord, CloseLog, FinalizeManifest, OpenLog, WriteLog,
             OpenWriter, Flush, DropWriter, ToolAcquire, ToolRelease, ToolRewrite, Sound, Fault, env
    <3>4. faults = 0
      BY <1>1, <1>4, <3>3
    <3>5. QED BY <1>4, <2>1, <3>2, <3>4 DEF OfThisDay
  <2>2. CASE \E c \in Calls : AppendRecord(c)
    <3>1. PICK c \in Calls : AppendRecord(c)
      BY <2>2
    <3>2. pc = "idle" /\ file' = file /\ faults' = faults /\ ~Kept(c) /\ job'.ts = c.ts
      BY <1>4, <3>1, AppendedIsNews DEF AppendRecord, disk, env
    <3>3. cur_date = Day(c.ts) /\ last # NoLast /\ cur_date # NoDay
      BY <3>1, <3>2, AppendedIsNews
    <3>4. QED BY <1>4, <3>2, <3>3 DEF OfThisDay
  <2>3. QED BY <1>4, <2>1, <2>2, JobStays
<1>5. QED BY <1>2, <1>3, <1>4 DEF OfThisDay

LEMMA OpenIsWholeStep ==
  ASSUME OrderInv, LogClosed, OpenIsWhole, [Next]_vars
  PROVE  OpenIsWhole'
<1> SUFFICES ASSUME faults' = 0, Up', log' # NoDay PROVE ~file'[log'].torn
  BY DEF OpenIsWhole
<1>1. TypeOK /\ faults \in Nat /\ file \in [Days -> FileOf(Record)] /\ log \in Days \cup {NoDay}
  BY DEF OrderInv, TypeOK
<1>2. ASSUME log' = log, Up, faults' \in {faults, faults + 1}, ~WriteLog, ~Kill, ~PowerLoss
      PROVE  ~file'[log'].torn
  <2>1. ~file[log].torn /\ log \in Days
    BY <1>1, <1>2 DEF OpenIsWhole
  <2>2. QED BY <1>2, <2>1, RecordsStay
<1>3. CASE Tick \/ (\E c \in Calls : AppendRecord(c)) \/ FinalizeManifest \/ Flush \/ UNCHANGED vars
  <2>1. /\ log' = log /\ Up /\ faults' \in {faults, faults + 1}
    BY <1>3 DEF Tick, AppendRecord, FinalizeManifest, Flush, Sound, Fault, writer, env, vars, Up
  <2>2. ~WriteLog /\ ~Kill /\ ~PowerLoss
    BY <1>1, <1>3 DEF Tick, AppendRecord, ShardStep, FinalizeManifest, Flush, vars, disk, writer, env,
       WriteLog, Kill, PowerLoss, Halted, Up, TypeOK
  <2>3. QED BY <1>2, <2>1, <2>2
<1>4. CASE OpenLog
  <2>1. \/ /\ \E g : OpenedFile(file[Day(job.ts)], g) /\ file' = [file EXCEPT ![Day(job.ts)] = g]
           /\ log' = Day(job.ts) /\ Day(job.ts) \in Days
        \/ log' = log
    BY <1>4, OpenLogCases
  <2>2. log = NoDay
    BY <1>4 DEF OpenLog, LogClosed
  <2>3. QED BY <1>1, <2>1, <2>2 DEF OpenedFile
<1>5. CASE WriteLog
  <2>1. Up /\ log = cur_date /\ log' = log /\ log \in Days
    BY <1>5, WriteFacts DEF WriteLog, Up
  <2>2. PICK g \in FileOf(Record) :
          /\ file' = [file EXCEPT ![cur_date] = g]
          /\ faults' = faults /\ Written(file[cur_date], g, last')
    BY <1>1, <1>5, WriteLogCases
  <2>3. ~file[log].torn
    BY <2>1, <2>2 DEF OpenIsWhole, Days, NoDay
  <2>4. QED BY <1>1, <2>1, <2>2, <2>3 DEF Written
<1>6. CASE CloseLog \/ OpenWriter \/ DropWriter \/ Kill \/ PowerLoss
  BY <1>6 DEF CloseLog, OpenWriter, DropWriter, Kill, PowerLoss, Halted
<1>7. CASE ToolAcquire \/ ToolRelease \/ \E d \in Days : ToolRewrite(d)
  BY <1>7 DEF ToolAcquire, ToolRelease, ToolRewrite, LockFree, OrderInv, LockHeld, Up
<1>8. QED BY <1>3, <1>4, <1>5, <1>6, <1>7 DEF Next

(* A fault stays counted.                                                  *)
LEMMA FaultsCounted ==
  ASSUME TypeOK, [Next]_vars, faults' = 0
  PROVE  faults = 0
<1>1. faults' \in {faults, faults + 1}
  BY Zenon DEF Next, vars, Tick, AppendRecord, CloseLog, FinalizeManifest, OpenLog, WriteLog,
         OpenWriter, Flush, DropWriter, Kill, PowerLoss, ToolAcquire, ToolRelease, ToolRewrite,
         Sound, Fault, env
<1>2. QED BY <1>1 DEF TypeOK

(* The file behind the open log is whole, so the record that follows is    *)
(* decodable; what a power failure cuts was.                               *)
LEMMA AlignedStep ==
  ASSUME OrderInv, OpenIsWhole, AlignedAfterCrash, [Next]_vars
  PROVE  AlignedAfterCrash'
<1> SUFFICES ASSUME faults' = 0, NEW d \in Days PROVE Clean(file'[d])
  BY DEF AlignedAfterCrash, Aligned, Clean
<1>1. TypeOK /\ file[d] \in FileOf(Record) /\ d # NoDay
  BY DEF OrderInv, TypeOK, Days, NoDay
<1>2. faults = 0 /\ Clean(file[d])
  BY <1>1, FaultsCounted DEF AlignedAfterCrash, Aligned
<1>3. file[d].recs \in Seq(Record \cup {Garbage}) /\ Len(file[d].recs) \in Nat
  BY <1>1, FileFields
<1>4. CASE file'[d].recs = file[d].recs
  BY <1>2, <1>4 DEF Clean
<1>5. CASE CutOf(file'[d], file[d])
  <2>1. PICK k \in 0 .. Len(file[d].recs) : file'[d].recs = SubSeq(file[d].recs, 1, k)
    BY <1>5 DEF CutOf
  <2>2. Len(file'[d].recs) = k /\ \A i \in 1 .. k : file'[d].recs[i] = file[d].recs[i]
    BY <1>3, <2>1
  <2>3. QED BY <1>2, <1>3, <2>2 DEF Clean
<1>6. CASE pc = "write" /\ log = d /\ job \in Record
           /\ (file[d].torn \/ file'[d].recs = Append(file[d].recs, job))
  <2>1. ~file[d].torn
    BY <1>1, <1>2, <1>6 DEF OpenIsWhole, Up
  <2>2. file'[d].recs = Append(file[d].recs, job) /\ job # Garbage
    BY <1>6, <2>1, GarbageAssumption
  <2>3. \A i \in 1 .. Len(file[d].recs) + 1 :
          file'[d].recs[i] = IF i = Len(file[d].recs) + 1 THEN job ELSE file[d].recs[i]
    BY <1>3, <2>2
  <2>4. Len(file'[d].recs) = Len(file[d].recs) + 1
    BY <1>3, <2>2
  <2>5. QED BY <1>2, <1>3, <2>2, <2>3, <2>4 DEF Clean
<1>7. QED BY <1>2, <1>4, <1>5, <1>6, RecordsStay, MovedRecords

(* A shard that is opened with a sentinel would have to be empty.          *)
LEMMA SelfContainedStep ==
  ASSUME OrderInv, OfThisDay, OpenIsWhole, AlignedAfterCrash, SelfContained, [Next]_vars
  PROVE  SelfContained'
<1> SUFFICES ASSUME faults' = 0, NEW d \in Days, Clean(file'[d]), file'[d].recs # <<>>
             PROVE  ~file'[d].recs[1].sentinel
  BY DEF SelfContained, Clean
<1>1. TypeOK /\ file[d] \in FileOf(Record) /\ d # NoDay
  BY DEF OrderInv, TypeOK, Days, NoDay
<1>2. faults = 0 /\ Clean(file[d])
  BY <1>1, FaultsCounted DEF AlignedAfterCrash, Aligned
<1>3. file[d].recs \in Seq(Record \cup {Garbage}) /\ Len(file[d].recs) \in Nat
  BY <1>1, FileFields
<1>4. file[d].recs # <<>> => ~file[d].recs[1].sentinel
  BY <1>2 DEF SelfContained
<1>5. CASE file'[d].recs = file[d].recs
  BY <1>4, <1>5
<1>6. CASE CutOf(file'[d], file[d])
  <2>1. PICK k \in 0 .. Len(file[d].recs) : file'[d].recs = SubSeq(file[d].recs, 1, k)
    BY <1>6 DEF CutOf
  <2>2. k >= 1 /\ file[d].recs # <<>> /\ file'[d].recs[1] = file[d].recs[1]
    BY <1>3, <2>1
  <2>3. QED BY <1>4, <2>2
<1>7. CASE pc = "write" /\ log = d /\ d = Day(job.ts) /\ job \in Record
           /\ (file[d].torn \/ file'[d].recs = Append(file[d].recs, job))
  <2>1. ~file[d].torn
    BY <1>1, <1>2, <1>7 DEF OpenIsWhole, Up
  <2>2. file'[d].recs = Append(file[d].recs, job)
    BY <1>7, <2>1
  <2>3. job.sentinel => file[d].recs # <<>>
    BY <1>2, <1>7 DEF OfThisDay, Busy
  <2>4. CASE file[d].recs = <<>>
    <3>1. file'[d].recs[1] = job
      BY <1>3, <2>2, <2>4
    <3>2. QED BY <2>3, <2>4, <3>1
  <2>5. CASE file[d].recs # <<>>
    <3>1. file'[d].recs[1] = file[d].recs[1]
      BY <1>3, <2>2, <2>5
    <3>2. QED BY <1>4, <2>5, <3>1
  <2>6. QED BY <2>4, <2>5
<1>8. QED BY <1>2, <1>5, <1>6, <1>7, RecordsStay, MovedRecords

-----------------------------------------------------------------------------
LEMMA InitGate == Init => GateInv
<1> SUFFICES ASSUME Init PROVE GateInv
  OBVIOUS
<1>1. file = [d \in Days |-> NoFile] /\ ~Up /\ ~Busy
  BY DEF Init, Up, Busy
<1>2. \A d \in Days : file[d].recs = <<>>
  BY <1>1 DEF NoFile
<1>3. NewsPrefix /\ AlignedAfterCrash /\ SelfContained
  <2>1. \A d \in Days : Len(file[d].recs) = 0
    BY <1>2
  <2>2. NewsPrefix
    BY <2>1 DEF NewsPrefix, NewsFile
  <2>3. AlignedAfterCrash
    <3>1. \A d \in Days : 1 .. Len(file[d].recs) = {}
      BY <2>1
    <3>2. QED BY <3>1 DEF AlignedAfterCrash, Aligned, Clean
  <2>4. QED BY <1>2, <2>2, <2>3 DEF SelfContained
<1>4. JobIsNews /\ OfThisDay /\ OpenIsWhole
  BY <1>1 DEF Init, JobIsNews, OfThisDay, OpenIsWhole, Up
<1>5. QED BY <1>3, <1>4 DEF GateInv

LEMMA GateStep == OrderInv /\ DiskInv /\ GateInv /\ [Next]_vars => GateInv'
<1> SUFFICES ASSUME OrderInv, DiskInv, GateInv, [Next]_vars PROVE GateInv'
  OBVIOUS
<1>1. NewsPrefix' /\ JobIsNews'
  BY NewsStep, JobIsNewsStep DEF GateInv
<1>2. OfThisDay' /\ OpenIsWhole'
  BY OfThisDayStep, OpenIsWholeStep DEF GateInv, DiskInv
<1>3. AlignedAfterCrash' /\ SelfContained'
  BY AlignedStep, SelfContainedStep DEF GateInv
<1>4. QED BY <1>1, <1>2, <1>3 DEF GateInv

(* The whole inductive invariant of the live writer holds in every         *)
(* behaviour of append_with_now, open_with, flush and drop, with any       *)
(* number of kills, power failures and failed I/O calls.                   *)
THEOREM Inductive == Spec => []IInv
<1>1. Init => GateInv
  BY InitGate
<1>2. OrderInv /\ DiskInv /\ GateInv /\ [Next]_vars => GateInv'
  BY GateStep
<1>3. OrderInv /\ GateInv /\ DiskInv => IInv
  BY DEF IInv
<1>4. QED BY <1>1, <1>2, <1>3, OrderInductive, DiskInductive, PTL DEF Spec

(* append_with_now, the gate: no restart, crash, rotation or failed write  *)
(* makes the writer store the same observation twice in a day.             *)
THEOREM StoredOnce == Spec => []NothingStoredTwice
<1>1. IInv => NothingStoredTwice
  <2> SUFFICES ASSUME IInv, Gate, NEW d \in Days, Clean(file[d]),
                      NEW i \in 1 .. Len(file[d].recs) - 1
               PROVE  News(file[d].recs[i], file[d].recs[i + 1])
    BY DEF NothingStoredTwice
  <2>1. NewsFile(file[d]) /\ Len(file[d].recs) \in Nat
    BY FileFields DEF IInv, GateInv, NewsPrefix, OrderInv, TypeOK
  <2>2. \A j \in 1 .. i + 1 : j \in 1 .. Len(file[d].recs)
    BY <2>1
  <2>3. CleanUpTo(file[d], i + 1)
    BY <2>2 DEF Clean, CleanUpTo
  <2>4. QED BY <2>1, <2>3 DEF NewsFile
<1>2. QED BY <1>1, Inductive, PTL

(* append_with_now, the early returns: as long as no I/O call fails, the   *)
(* memory a drop is decided on agrees with the disk.                       *)
THEOREM DropsAreJustified == Spec => []DropsJustified
<1>1. IInv => DropsJustified
  <2> SUFFICES ASSUME IInv, NEW c \in Calls, faults = 0, pc = "idle", Dropped(c),
                      Clean(file[cur_date]), ~(Day(c.ts) < cur_date)
               PROVE  /\ Day(c.ts) = cur_date
                      /\ file[cur_date].recs # <<>>
                      /\ \/ c.ts < LastRec(file[cur_date]).ts
                         \/ /\ c.q = LastRec(file[cur_date]).q
                            /\ c.ts - LastRec(file[cur_date]).ts < Sentinel
    BY DEF DropsJustified
  <2>1. Up /\ window \in {NoDay, cur_date} /\ Day(c.ts) \in Days /\ Day(c.ts) # NoDay
    BY DayType DEF IInv, OrderInv, OnNewestDay, Up, Calls, Days, NoDay
  <2>2. ~Straggler(c) /\ last # NoLast /\ ~NewDay(c)
    BY DEF Dropped, Straggler, Late, Kept, Changed
  <2>3. cur_date = Day(c.ts)
    BY <2>1, <2>2 DEF NewDay, InWindow
  <2>4. file[cur_date].recs # <<>>
    BY <2>1, <2>2, <2>3 DEF IInv, GateInv, OfThisDay
  <2>5. Remembers(last, file[cur_date])
    BY <2>1, <2>3, <2>4 DEF IInv, OrderInv, LastIsTail
  <2>6. c.ts < last.ts \/ (c.q = last.q /\ ~(c.ts - last.ts >= Sentinel))
    BY <2>2 DEF Dropped, Late, Kept, Changed, SentinelDue
  <2>7. c.ts \in Int /\ last.ts \in Int /\ Sentinel \in Int
    BY <2>2, ParamsAssumption, BoundsAssumption DEF IInv, OrderInv, TypeOK, Lasts, Times, Calls
  <2>8. QED BY <2>3, <2>4, <2>5, <2>6, <2>7 DEF Remembers
<1>2. QED BY <1>1, Inductive, PTL

(* "The first record of each UTC day is always written (so every shard is  *)
(* self-contained)", and every fragment a crash leaves is cut before the   *)
(* next append (open_inner), as long as no I/O call fails.                 *)
THEOREM DaysStayReadable == Spec => []DaysReadable
<1>1. IInv => DaysReadable
  BY DEF IInv, GateInv, DaysReadable
<1>2. QED BY <1>1, Inductive, PTL
=============================================================================

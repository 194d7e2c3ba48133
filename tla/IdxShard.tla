------------------------------ MODULE IdxShard ------------------------------
(***************************************************************************)
(* The live .idx writer: shard.rs IdxShardWriter over ipc/append_log.rs,   *)
(* for the directory of one ticker.  One file per UTC day, chosen by the   *)
(* record's own timestamp; a delta gate that keeps only records that carry *)
(* news; a sentinel when a quote has been unchanged for Sentinel; a        *)
(* manifest entry per closed day; an advisory lock against other writers.  *)
(*                                                                         *)
(* A call of append_with_now that writes is split at the points where a    *)
(* crash leaves different files behind: dropping the old day's log,        *)
(* finalizing its manifest entry, opening the new file, writing the        *)
(* record.  Calls that are refused or dropped change no state and are the  *)
(* predicates Refused and Dropped.                                         *)
(***************************************************************************)
EXTENDS LogFile, FiniteSets

CONSTANTS
  Quotes,        \* the market states (bid, ask, vbid, vask, ci) the gate compares
  DayLen,        \* MS_PER_DAY
  Sentinel,      \* SENTINEL_INTERVAL_MS
  MaxFuture,     \* tolerated clock lead of a record, MS_PER_MIN
  MaxAge,        \* oldest record accepted without FLAG_HISTORICAL_BACKFILL
  Gate,          \* delta gate on
  Manifest,      \* refresh manifest.json on rotation and drop
  \* bounds of the model
  MaxNow,        \* the clock stops here
  MaxRecs,       \* records per file
  Failures       \* the <<kills, outages, faults>> that may add up

ASSUME ParamsAssumption ==
  /\ DayLen \in Nat \ {0}
  /\ {Sentinel, MaxFuture, MaxAge} \subseteq Nat
  /\ {Gate, Manifest} \subseteq BOOLEAN

ASSUME BoundsAssumption ==
  {MaxNow, MaxRecs} \subseteq Nat

VARIABLES
  now,           \* the wall clock, ms
  file,          \* [Days -> FileOf(Record)]: <dir>/<date>.idx
  manifest,      \* [Days -> entry]: <dir>/manifest.json
  lock,          \* holder of <dir>/.writer.lock
  pc,            \* where the writer is inside append_with_now
  job,           \* the record being written
  cur_date,      \* the writer's fields, named as in the source
  log,           \* the day whose file is open
  window,        \* the day of [cur_day_start_ms, cur_day_end_ms)
  last,          \* have_last, last_bid..last_ci, last_written_ts
  detached,      \* the open file is no longer the one its path names
  kills, outages, faults

disk   == <<file, manifest>>
writer == <<cur_date, log, window, last, detached>>
env    == <<kills, outages, faults>>
vars   == <<now, disk, lock, pc, job, writer, env>>

Times    == 0 .. MaxNow + MaxFuture
Day(t)   == t \div DayLen                        \* ts_ms_to_utc_date
Days     == 0 .. Day(MaxNow + MaxFuture)
NoDay    == -1
Record   == [ts : Times, q : Quotes, sentinel : BOOLEAN]
ASSUME GarbageAssumption == Garbage \notin Record
NoLast   == [ts |-> -1, q |-> Garbage]
Lasts    == [ts : Times, q : Quotes]
NoJob    == [ts |-> -1, q |-> Garbage, sentinel |-> FALSE]
NoEntry  == [recs |-> <<>>, torn |-> TRUE]

(* A call: the record offered and whether it carries                       *)
(* FLAG_HISTORICAL_BACKFILL.                                               *)
Calls == [ts : Times, q : Quotes, hist : BOOLEAN]

(* shard_entry: record count, first and last ts, size and digest are all   *)
(* functions of the bytes of the file.                                     *)
Entry(f) == [recs |-> f.recs, torn |-> f.torn]

Exists(d) == file[d].exists

(* finalize_manifest(d): nothing to do for a file that is not there.       *)
Finalized(d, files) ==
  IF d # NoDay /\ files[d].exists
    THEN [manifest EXCEPT ![d] = Entry(files[d])]
    ELSE manifest

-----------------------------------------------------------------------------
(* The decision of append_with_now.  A definition whose name says what it  *)
(* leaves out (StragglerTaken, KeptIfChanged, ...) is a wrong version of   *)
(* the one that follows it: no action uses it, and the properties below    *)
(* are checked to fail when it takes the other's place.                    *)

(* In the cached window the day is known to be cur_date; outside it the    *)
(* calendar decides.                                                       *)
InWindow(c) == window # NoDay /\ Day(c.ts) = window
RouteDay(c) == IF InWindow(c) THEN cur_date ELSE Day(c.ts)
NewDay(c)   == ~InWindow(c) /\ cur_date # Day(c.ts)

Refused(c)   == c.ts > now + MaxFuture \/ (~c.hist /\ c.ts < now - MaxAge)
StragglerTaken(c) == FALSE
Straggler(c) == cur_date # NoDay /\ NewDay(c) /\ Day(c.ts) < cur_date
LateTaken(c) == FALSE
Late(c)      == last # NoLast /\ ~NewDay(c) /\ c.ts < last.ts
Changed(c)   == last = NoLast \/ c.q # last.q
KeptIfChanged(c) == ~Gate \/ Changed(c)
Kept(c)      == ~Gate \/ Changed(c) \/ NewDay(c)
SentinelDue(c) == last # NoLast /\ c.ts - last.ts >= Sentinel

Dropped(c) == \/ Straggler(c)
              \/ Late(c)
              \/ ~Kept(c) /\ ~SentinelDue(c)

(* ensure_shard: which of its steps the day d needs.                       *)
ShardStep(d) ==
  CASE cur_date = d /\ log # NoDay      -> "write"
    [] cur_date # NoDay /\ cur_date # d -> "close"
    [] OTHER                            -> "open"

AppendRecord(c) ==
  /\ pc = "idle"
  /\ ~Refused(c)
  /\ ~Dropped(c)
  /\ Len(file[RouteDay(c)].recs) < MaxRecs
  /\ job' = [ts |-> c.ts, q |-> c.q, sentinel |-> ~Kept(c)]
  /\ pc' = ShardStep(RouteDay(c))
  /\ UNCHANGED <<now, disk, lock, writer, env>>

-----------------------------------------------------------------------------
(* The steps of ensure_shard and of the append itself.  Each I/O call can  *)
(* fail: Fault is a budgeted failure, and the code's error path follows.   *)

Fault == <<kills, outages, faults + 1>> \in Failures /\ faults' = faults + 1
Sound == faults' = faults

(* What syncing the open log, if there is one, makes of the files.         *)
SyncedLog == IF log = NoDay THEN file ELSE [file EXCEPT ![log] = Synced(@)]

AfterCloseSkip == "open"
AfterClose == IF Manifest THEN "finalize" ELSE "open"

(* self.log = None: AppendLog::drop syncs; its failure is only logged.     *)
CloseLog ==
  /\ pc = "close"
  /\ \/ Sound /\ file' = SyncedLog
     \/ Fault /\ log # NoDay /\ file' = file
  /\ log' = NoDay
  /\ detached' = FALSE
  /\ pc' = AfterClose
  /\ UNCHANGED <<now, manifest, lock, job, cur_date, window, last, kills, outages>>

(* finalize_manifest(prev): a failure is only logged.                      *)
FinalizeManifest ==
  /\ pc = "finalize"
  /\ \/ Sound /\ manifest' = Finalized(cur_date, file)
     \/ Fault /\ manifest' = manifest
  /\ pc' = "open"
  /\ UNCHANGED <<now, file, lock, job, writer, kills, outages>>

(* AppendLog::open: creates, or truncates a torn tail.  A failure, before  *)
(* or after the file is created, returns with no log and the old date.     *)
OpenLog ==
  /\ pc = "open"
  /\ LET d == Day(job.ts) IN
     \/ /\ Sound
        /\ file' = [file EXCEPT ![d] = OpenFile(@)]
        /\ log' = d /\ cur_date' = d /\ window' = d
        /\ pc' = "write" /\ job' = job
     \/ /\ Fault
        /\ file' \in {file, [file EXCEPT ![d].exists = TRUE]}
        /\ pc' = "idle" /\ job' = NoJob
        /\ UNCHANGED <<log, cur_date, window>>
  /\ UNCHANGED <<now, manifest, lock, last, detached, kills, outages>>

(* AppendLog::append, with or without its periodic sync.  A sentinel moves *)
(* only the timestamp of the last write.  A failed write returns before    *)
(* any field is updated and may leave part of the record in the file.      *)
WriteLog ==
  /\ pc = "write"
  /\ \/ /\ Sound
        /\ LET f == WriteRecord(file[log], job) IN
           file' \in {[file EXCEPT ![log] = g] : g \in {f, Synced(f)}}
        /\ last' = [ts |-> job.ts, q |-> IF job.sentinel THEN last.q ELSE job.q]
     \/ /\ Fault
        /\ file' \in {[file EXCEPT ![log] = g] :
                        g \in {file[log]} \cup PartialWrites(file[log])}
        /\ last' = last
  /\ pc' = "idle"
  /\ job' = NoJob
  /\ UNCHANGED <<now, manifest, lock, cur_date, log, window, detached, kills, outages>>

-----------------------------------------------------------------------------
(* Opening, flushing, dropping.                                            *)

(* list_shards(..).last(): d is the newest day with a shard.               *)
IsLatestShard(d) ==
  IF d = NoDay THEN \A e \in Days : ~Exists(e)
               ELSE Exists(d) /\ \A e \in Days : Exists(e) => e <= d

(* seed_from_tail: the last whole slot of the latest shard, whatever it    *)
(* decodes to.                                                             *)
SeedsNothing(d) == {NoLast}
Seeds(d) ==
  IF d = NoDay THEN {NoLast}
  ELSE IF file[d].recs = <<>> THEN {NoLast}
  ELSE IF LastRec(file[d]) = Garbage THEN Lasts
  ELSE {[ts |-> LastRec(file[d]).ts, q |-> LastRec(file[d]).q]}

(* try_acquire_writer_lock                                                 *)
LockIgnored == TRUE
LockFree == lock = "free"

(* open_with.  Contention for the lock is an error that changes nothing.   *)
OpenWriter ==
  /\ pc = "down"
  /\ LockFree
  /\ lock' = "live"
  /\ pc' = "idle"
  /\ \E d \in Days \cup {NoDay} :
       IsLatestShard(d) /\ cur_date' = d /\ last' \in Seeds(d)
  /\ log' = NoDay /\ window' = NoDay /\ detached' = FALSE
  /\ UNCHANGED <<now, disk, job, env>>

(* flush: sync the open log, then refresh its manifest entry; a failure    *)
(* returns from where it happened.                                         *)
Flush ==
  /\ pc = "idle"
  /\ \/ Sound /\ file' = SyncedLog /\ manifest' = Finalized(cur_date, file)
     \/ Fault /\ file' \in {file, SyncedLog} /\ manifest' = manifest
  /\ UNCHANGED <<now, lock, pc, job, writer, kills, outages>>

Halted ==
  /\ pc' = "down"
  /\ job' = NoJob
  /\ cur_date' = NoDay /\ log' = NoDay /\ window' = NoDay
  /\ last' = NoLast
  /\ detached' = FALSE

(* Drop of the writer: the log syncs, the entry is refreshed whether or    *)
(* not it did, the lock goes with the fields.                              *)
DropWriter ==
  /\ pc = "idle"
  /\ \/ /\ Sound
        /\ file' = SyncedLog
        /\ manifest' = IF Manifest THEN Finalized(cur_date, file) ELSE manifest
     \/ /\ Fault
        /\ file' \in {file, SyncedLog}
        /\ manifest' \in {manifest, IF Manifest THEN Finalized(cur_date, file) ELSE manifest}
  /\ lock' = "free"
  /\ Halted
  /\ UNCHANGED <<now, kills, outages>>

-----------------------------------------------------------------------------
(* The environment: time, crashes, and the offline repair tool.            *)

Tick == /\ now < MaxNow
        /\ now' = now + 1
        /\ UNCHANGED <<disk, lock, pc, job, writer, env>>

(* The process is killed: the page cache survives, a write in progress may *)
(* be cut.                                                                 *)
Kill ==
  /\ pc # "down"
  /\ <<kills + 1, outages, faults>> \in Failures
  /\ kills' = kills + 1
  /\ file' \in IF pc = "write"
                 THEN {[file EXCEPT ![log] = g] :
                         g \in {file[log]} \cup PartialWrites(file[log])}
                 ELSE {file}
  /\ lock' = "free"
  /\ Halted
  /\ UNCHANGED <<now, manifest, outages, faults>>

(* The machine loses power: each file keeps some prefix past its durable   *)
(* part.                                                                   *)
PowerLoss ==
  /\ <<kills, outages + 1, faults>> \in Failures
  /\ outages' = outages + 1
  /\ file' \in {g \in [Days -> UNION {AfterPowerLoss(file[d]) : d \in Days}] :
                  \A d \in Days : g[d] \in AfterPowerLoss(file[d])}
  /\ lock' = "free"
  /\ Halted
  /\ UNCHANGED <<now, manifest, kills, faults>>

(* The offline repair tool takes acquire_idx_writer_lock ...               *)
ToolAcquire ==
  /\ LockFree
  /\ lock' = "tool"
  /\ UNCHANGED <<now, disk, pc, job, writer, env>>

(* ... rewrites closed days through write_shard_atomic, which names a new  *)
(* file, and refreshes their entries ...                                   *)
ToolRewrite(d) ==
  /\ lock = "tool"
  /\ d < Day(now)
  /\ Exists(d) /\ Clean(file[d])
  /\ file' = [file EXCEPT ![d] = Synced(OpenFile(@))]
  /\ manifest' = Finalized(d, file')
  /\ detached' = (detached \/ log = d)
  /\ UNCHANGED <<now, lock, pc, job, cur_date, log, window, last, env>>

(* ... and exits.                                                          *)
ToolRelease ==
  /\ lock = "tool"
  /\ lock' = "free"
  /\ UNCHANGED <<now, disk, pc, job, writer, env>>

-----------------------------------------------------------------------------
Init ==
  /\ now = 0
  /\ file = [d \in Days |-> NoFile]
  /\ manifest = [d \in Days |-> NoEntry]
  /\ lock = "free"
  /\ pc = "down"
  /\ job = NoJob
  /\ cur_date = NoDay /\ log = NoDay /\ window = NoDay
  /\ last = NoLast
  /\ detached = FALSE
  /\ kills = 0 /\ outages = 0 /\ faults = 0

Next ==
  \/ Tick
  \/ \E c \in Calls : AppendRecord(c)
  \/ CloseLog \/ FinalizeManifest \/ OpenLog \/ WriteLog
  \/ OpenWriter \/ Flush \/ DropWriter
  \/ Kill \/ PowerLoss
  \/ ToolAcquire \/ ToolRelease \/ \E d \in Days : ToolRewrite(d)

Spec == Init /\ [][Next]_vars

-----------------------------------------------------------------------------
(* Properties.                                                             *)

TypeOK ==
  /\ now \in 0 .. MaxNow
  /\ file \in [Days -> FileOf(Record)]
  /\ manifest \in [Days -> [recs : Seq(Record \cup {Garbage}), torn : BOOLEAN]]
  /\ lock \in {"free", "live", "tool"}
  /\ pc \in {"down", "idle", "close", "finalize", "open", "write"}
  /\ job \in Record \cup {NoJob}
  /\ {cur_date, log, window} \subseteq Days \cup {NoDay}
  /\ last \in Lasts \cup {NoLast}
  /\ detached \in BOOLEAN
  /\ {kills, outages, faults} \subseteq Nat

Up == pc # "down"

(* Every shard that holds no undecodable slot is in time order and holds   *)
(* only records of its own day, whatever sequence of restarts, crashes,    *)
(* stragglers, late records and failed writes produced it ("56B            *)
(* IndexRecord, ts-ascending").                                            *)
ShardOrdered ==
  \A d \in Days : Clean(file[d]) =>
    LET r == file[d].recs IN
    /\ \A i \in DOMAIN r : Day(r[i].ts) = d
    /\ \A i, j \in DOMAIN r : i < j => r[i].ts <= r[j].ts

(* s tells something after r: a change, or that nothing did for so long.   *)
News(r, s) == r.q = s.q => s.sentinel /\ s.ts - r.ts >= Sentinel

(* Two neighbours of a gated shard repeat a quote only when the second is  *)
(* a sentinel at least Sentinel later: no restart, crash or rotation makes *)
(* the writer store an observation twice.                                  *)
NothingStoredTwice ==
  Gate => \A d \in Days : Clean(file[d]) =>
    LET r == file[d].recs IN
    \A i \in 1 .. Len(r) - 1 : News(r[i], r[i + 1])

(* What the writer drops is judged against the disk, not against its own   *)
(* memory: it is of an earlier day than the current shard, or older than   *)
(* that shard's last record, or it repeats that record's quote within      *)
(* Sentinel.  So neither a restart nor a rotation loses a change or        *)
(* silences the sentinels that tell a quiet market from an outage.  Like   *)
(* SelfContained it needs the writes to succeed: a failed first write of   *)
(* the day leaves the writer with the memory of the day before.            *)
DropsJustified ==
  \A c \in Calls :
    (/\ faults = 0 /\ pc = "idle"
     /\ ~Refused(c) /\ Dropped(c) /\ Clean(file[cur_date])) =>
      \/ Day(c.ts) < cur_date
      \/ /\ Day(c.ts) = cur_date
         /\ file[cur_date].recs # <<>>
         /\ LET tail == LastRec(file[cur_date]) IN
              \/ c.ts < tail.ts
              \/ c.q = tail.q /\ c.ts - tail.ts < Sentinel

(* "The first record of each UTC day is always written (so every shard is  *)
(* self-contained)": a shard never opens with a sentinel, whose quote      *)
(* would only be found in another day's file.  A failed first write of the *)
(* day breaks this (the day has been switched already, so the next record  *)
(* counts as a repetition); it holds as long as no I/O call fails.         *)
SelfContained ==
  faults = 0 =>
    \A d \in Days :
      (Clean(file[d]) /\ file[d].recs # <<>>) => ~file[d].recs[1].sentinel

(* "The next write lands at an unaligned offset and every reader after     *)
(* permanently sees corrupt records" never happens: no record is ever      *)
(* appended behind a torn fragment.                                        *)
Aligned == \A d \in Days : Clean(file[d])

(* It does not, as long as no write fails while the file stays open: every *)
(* fragment a crash leaves is cut before the next append.                  *)
AlignedAfterCrash == faults = 0 => Aligned

(* A day can be read by itself: its shard begins with a full record, and   *)
(* no crash leaves a slot in it that cannot be decoded.                    *)
DaysReadable == SelfContained /\ AlignedAfterCrash

(* Once a later day's file exists, the manifest entry of an earlier day    *)
(* describes that day's file exactly (count, bounds, size and digest), as  *)
(* long as no I/O call failed and no power was lost: a process killed in   *)
(* the middle of a rotation redoes the finalization when it comes back.    *)
ClosedDaysInManifest ==
  (Manifest /\ faults = 0 /\ outages = 0) =>
    \A d, e \in Days : (d < e /\ Exists(d) /\ Exists(e)) =>
      manifest[d] = Entry(file[d])

(* The manifest never vouches for records a power failure could still      *)
(* take: the old log is dropped (and synced) before its file is hashed.    *)
(* A killed process leaves page-cache records behind that its successor    *)
(* hashes without syncing, so this is stated for runs without a kill.      *)
ManifestDurable ==
  (kills = 0 /\ faults = 0) =>
    \A d \in Days : manifest[d] # NoEntry =>
      Len(manifest[d].recs) <= file[d].durable

(* The manifest lists every closed day as it is, and lists nothing that a  *)
(* power failure could take.                                               *)
ManifestTrue == ClosedDaysInManifest /\ ManifestDurable

(* The live writer appends to the file its path names: the repair tool     *)
(* never renames a shard away under an open log (incident of 2026-06-10).  *)
NeverDetached == ~detached
-----------------------------------------------------------------------------
(* The inductive invariant, in named parts: first what ShardOrdered needs. *)

(* The lock belongs to the process that writes.                            *)
LockHeld == Up <=> lock = "live"

(* A name that does not exist holds nothing.                               *)
AbsentIsEmpty == \A d \in Days : ~Exists(d) => file[d].recs = <<>>

(* The writer's idea of the day: the open log and the cached window, when  *)
(* they are set, are of cur_date, and no later day holds a record.          *)
OnNewestDay ==
  Up => /\ log \in {NoDay, cur_date} /\ (log # NoDay => Exists(log))
        /\ window \in {NoDay, cur_date}
        /\ \A d \in Days : file[d].recs # <<>> => cur_date # NoDay /\ d <= cur_date

(* In the slots before the first undecodable one, a shard is ordered and   *)
(* of its own day.  A crash may cut the file anywhere, so this, and not    *)
(* ShardOrdered, is what survives.                                         *)
CleanUpTo(f, j) == \A k \in 1 .. j : f.recs[k] # Garbage
OrderedFile(d, f) ==
  \A j \in 1 .. Len(f.recs) :
    CleanUpTo(f, j) => /\ Day(f.recs[j].ts) = d
                       /\ \A i \in 1 .. j : f.recs[i].ts <= f.recs[j].ts
OrderedPrefix == \A d \in Days : OrderedFile(d, file[d])

(* t may follow what f holds.                                              *)
Follows(t, f) == (Clean(f) /\ f.recs # <<>>) => LastRec(f).ts <= t

(* The writer remembers the last record of the newest shard.               *)
Remembers(l, f) == l # NoLast /\ l.ts = LastRec(f).ts /\ l.q = LastRec(f).q
LastIsTail ==
  (Up /\ cur_date # NoDay /\ file[cur_date].recs # <<>> /\ Clean(file[cur_date])) =>
    Remembers(last, file[cur_date])

(* The record being written may follow what its shard holds; once the      *)
(* shard is open it is the newest one, and that of the record.             *)
Busy == pc \in {"close", "finalize", "open", "write"}
JobFits ==
  Busy =>
    /\ job \in Record
    /\ job.sentinel => last # NoLast /\ job.q = last.q
    /\ cur_date # NoDay => Day(job.ts) >= cur_date
    /\ Follows(job.ts, file[Day(job.ts)])
    /\ pc \in {"close", "finalize"} => cur_date # NoDay
    /\ pc = "write" => cur_date = Day(job.ts) /\ log = cur_date

OrderInv == /\ TypeOK /\ LockHeld /\ AbsentIsEmpty /\ OnNewestDay
            /\ OrderedPrefix /\ LastIsTail /\ JobFits

(* What the other properties of the shards rest on.  In the slots before   *)
(* the first undecodable one every record is news, and so is the record    *)
(* being written.                                                          *)
NewsFile(f) ==
  \A i \in 1 .. Len(f.recs) - 1 : CleanUpTo(f, i + 1) => News(f.recs[i], f.recs[i + 1])
NewsPrefix == Gate => \A d \in Days : NewsFile(file[d])
JobIsNews ==
  LET f == file[Day(job.ts)] IN
  (Gate /\ Busy /\ Clean(f) /\ f.recs # <<>>) => News(LastRec(f), job)

(* As long as no I/O call fails, a writer remembers something only if the  *)
(* newest shard holds something, and writes a sentinel only behind it.     *)
OfThisDay ==
  /\ Up /\ cur_date = NoDay => last = NoLast
  /\ faults = 0 =>
       /\ pc = "idle" /\ cur_date # NoDay /\ file[cur_date].recs = <<>> => last = NoLast
       /\ Busy /\ job.sentinel => file[Day(job.ts)].recs # <<>>

(* The open file has no fragment that a crash or an earlier write left.    *)
OpenIsWhole == faults = 0 => (Up /\ log # NoDay => ~file[log].torn)

GateInv == /\ NewsPrefix /\ JobIsNews /\ OfThisDay
           /\ OpenIsWhole /\ AlignedAfterCrash /\ SelfContained

(* What the manifest and the store rest on.  No log is open while the      *)
(* process is down, or while the writer moves from one day to the next.    *)
LogClosed == ~Up \/ pc \in {"finalize", "open"} => log = NoDay

(* Only the open log has slots that have not reached the disk.             *)
DurableFits == \A d \in Days : file[d].durable <= Len(file[d].recs)
RestDurable ==
  (kills = 0 /\ faults = 0) =>
    \A d \in Days : d # log => file[d].durable = Len(file[d].recs)

(* The writer's day is the newest one with a file, and its entry is in the *)
(* manifest before the next file appears.                                  *)
OnNewestFile ==
  (faults = 0 /\ Up) => /\ cur_date # NoDay => Exists(cur_date)
                        /\ \A e \in Days : Exists(e) => cur_date # NoDay /\ e <= cur_date
ListedFirst ==
  (/\ Manifest /\ faults = 0 /\ outages = 0
   /\ pc = "open" /\ cur_date # NoDay /\ cur_date < Day(job.ts)) =>
    manifest[cur_date] = Entry(file[cur_date])

DiskInv == /\ LogClosed /\ NeverDetached /\ DurableFits /\ RestDurable /\ ManifestDurable
           /\ OnNewestFile /\ ListedFirst /\ ClosedDaysInManifest

IInv == OrderInv /\ GateInv /\ DiskInv

-----------------------------------------------------------------------------
(* The directory seen as a ShardStore: the slots of each file, and how     *)
(* many of them have reached stable storage.                               *)
Shards  == [d \in Days |-> file[d].recs]
Durable == [d \in Days |-> file[d].durable]

Store == INSTANCE ShardStore WITH shards <- Shards, stable <- Durable

(* Through every rotation, late record, kill, power failure, failed write  *)
(* and restart of append_with_now and open_with, readers see a ShardStore: *)
(* only the newest day grows, in time order, and what a sync has covered   *)
(* is never taken back.                                                    *)
ReadersSeeAStore == Store!Spec
=============================================================================

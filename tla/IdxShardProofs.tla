--------------------------- MODULE IdxShardProofs ---------------------------
(***************************************************************************)
(* Theorems about IdxShard, for every value of its constants.              *)
(*                                                                         *)
(* ShardOrdered is not inductive: what a writer appends after a restart is *)
(* ordered only because the memory it was seeded with agrees with the      *)
(* tail of the newest shard, and a power failure may uncover a prefix of a *)
(* file that had become undecodable.  OrderInv says so, and is preserved   *)
(* by every action.                                                        *)
(***************************************************************************)
EXTENDS IdxShard, LogFileProofs

(* A record that the clock admits is of one of the model's days.           *)
LEMMA DayType == \A t \in Times : Day(t) \in Days
<1> SUFFICES ASSUME NEW t \in Times PROVE Day(t) \in Days
  OBVIOUS
<1> DEFINE m == MaxNow + MaxFuture
<1>1. DayLen \in Nat \ {0} /\ m \in Nat /\ t \in 0 .. m
  BY ParamsAssumption, BoundsAssumption DEF Times
<1> HIDE DEF m
<1>2. t \div DayLen \in Nat /\ m \div DayLen \in Nat
  BY <1>1
<1>3. t \div DayLen <= m \div DayLen
  BY <1>1
<1> QED  BY <1>2, <1>3 DEF Day, Days, m

-----------------------------------------------------------------------------
(* How the order of a file survives the file operations.                   *)

LEMMA OrderedSame ==
  ASSUME NEW d, NEW f, NEW g, g.recs = f.recs, OrderedFile(d, f)
  PROVE  OrderedFile(d, g)
  BY DEF OrderedFile, CleanUpTo

LEMMA OrderedGarbage ==
  ASSUME NEW d, NEW f \in FileOf(Record), NEW g,
         g.recs = Append(f.recs, Garbage), OrderedFile(d, f)
  PROVE  OrderedFile(d, g)
<1>1. f.recs \in Seq(Record \cup {Garbage})
  BY FileFields
<1>2. SUFFICES ASSUME NEW j \in 1 .. Len(g.recs), CleanUpTo(g, j)
               PROVE  /\ Day(g.recs[j].ts) = d
                      /\ \A i \in 1 .. j : g.recs[i].ts <= g.recs[j].ts
  BY DEF OrderedFile
<1>3. j # Len(f.recs) + 1
  BY <1>1, <1>2 DEF CleanUpTo
<1>4. j \in 1 .. Len(f.recs) /\ \A i \in 1 .. j : g.recs[i] = f.recs[i]
  BY <1>1, <1>3
<1>5. CleanUpTo(f, j)
  BY <1>2, <1>4 DEF CleanUpTo
<1> QED  BY <1>4, <1>5 DEF OrderedFile

LEMMA OrderedAppend ==
  ASSUME NEW d, NEW f \in FileOf(Record), NEW g, NEW r \in Record,
         g.recs = Append(f.recs, r), OrderedFile(d, f),
         Day(r.ts) = d, Follows(r.ts, f)
  PROVE  OrderedFile(d, g)
<1>1. f.recs \in Seq(Record \cup {Garbage}) /\ Len(f.recs) \in Nat
  BY FileFields
<1>2. SUFFICES ASSUME NEW j \in 1 .. Len(g.recs), CleanUpTo(g, j)
               PROVE  /\ Day(g.recs[j].ts) = d
                      /\ \A i \in 1 .. j : g.recs[i].ts <= g.recs[j].ts
  BY DEF OrderedFile
<1>3. CASE j \in 1 .. Len(f.recs)
  <2>1. \A i \in 1 .. j : g.recs[i] = f.recs[i]
    BY <1>1, <1>3
  <2>2. CleanUpTo(f, j)
    BY <1>2, <2>1 DEF CleanUpTo
  <2> QED  BY <1>3, <2>1, <2>2 DEF OrderedFile
<1>4. CASE j = Len(f.recs) + 1
  <2>1. g.recs[j] = r /\ \A i \in 1 .. Len(f.recs) : g.recs[i] = f.recs[i]
    BY <1>1, <1>4
  <2>2. CleanUpTo(f, Len(f.recs))
    BY <1>1, <1>2, <1>4, <2>1 DEF CleanUpTo
  <2>3. \A i \in 1 .. Len(f.recs) : f.recs[i] \in Record
    BY <1>1, <2>2 DEF CleanUpTo
  <2>4. r.ts \in Int /\ \A i \in 1 .. Len(f.recs) : f.recs[i].ts \in Int
    BY <2>3, BoundsAssumption, ParamsAssumption DEF Record, Times
  <2>5. ASSUME NEW i \in 1 .. Len(f.recs) PROVE f.recs[i].ts <= r.ts
    <3>1. Len(f.recs) \in 1 .. Len(f.recs) /\ f.recs # <<>>
      BY <1>1
    <3>2. f.recs[i].ts <= f.recs[Len(f.recs)].ts
      BY <2>2, <3>1 DEF OrderedFile
    <3>3. f.recs[Len(f.recs)].ts <= r.ts
      BY <2>2, <3>1 DEF Follows, Clean, CleanUpTo, LastRec
    <3> QED  BY <2>4, <3>1, <3>2, <3>3
  <2> QED  BY <1>1, <1>4, <2>1, <2>4, <2>5
<1> QED  BY <1>1, <1>3, <1>4

LEMMA OrderedCut ==
  ASSUME NEW d, NEW f \in FileOf(Record), NEW g, CutOf(g, f), OrderedFile(d, f)
  PROVE  OrderedFile(d, g)
<1>1. f.recs \in Seq(Record \cup {Garbage}) /\ Len(f.recs) \in Nat
  BY FileFields
<1>2. PICK k \in 0 .. Len(f.recs) : g.recs = SubSeq(f.recs, 1, k)
  BY DEF CutOf
<1>3. Len(g.recs) = k /\ \A i \in 1 .. k : g.recs[i] = f.recs[i]
  BY <1>1, <1>2
<1>4. SUFFICES ASSUME NEW j \in 1 .. Len(g.recs), CleanUpTo(g, j)
               PROVE  /\ Day(g.recs[j].ts) = d
                      /\ \A i \in 1 .. j : g.recs[i].ts <= g.recs[j].ts
  BY DEF OrderedFile
<1>5. j \in 1 .. Len(f.recs) /\ \A i \in 1 .. j : g.recs[i] = f.recs[i]
  BY <1>1, <1>3
<1>6. CleanUpTo(f, j)
  BY <1>4, <1>5 DEF CleanUpTo
<1> QED  BY <1>5, <1>6 DEF OrderedFile
-----------------------------------------------------------------------------
(* Typing of the pieces the actions share.                                 *)

ManifestType == [Days -> [recs : Seq(Record \cup {Garbage}), torn : BOOLEAN]]

LEMMA FinalizedType ==
  ASSUME NEW d \in Days \cup {NoDay}, NEW files \in [Days -> FileOf(Record)],
         manifest \in ManifestType
  PROVE  Finalized(d, files) \in ManifestType
<1>1. CASE d # NoDay /\ files[d].exists
  <2>1. d \in Days /\ files[d] \in FileOf(Record)
    BY <1>1
  <2>2. Entry(files[d]) \in [recs : Seq(Record \cup {Garbage}), torn : BOOLEAN]
    BY <2>1 DEF Entry, FileOf
  <2> QED  BY <1>1, <2>1, <2>2 DEF Finalized, ManifestType
<1>2. CASE ~(d # NoDay /\ files[d].exists)
  BY <1>2 DEF Finalized
<1> QED  BY <1>1, <1>2

LEMMA SyncedLogType ==
  ASSUME TypeOK
  PROVE  /\ SyncedLog \in [Days -> FileOf(Record)]
         /\ \A d \in Days : /\ SyncedLog[d].recs = file[d].recs
                            /\ SyncedLog[d].exists = file[d].exists
<1>1. file \in [Days -> FileOf(Record)] /\ log \in Days \cup {NoDay}
  BY DEF TypeOK
<1>2. CASE log = NoDay
  BY <1>1, <1>2 DEF SyncedLog
<1>3. CASE log # NoDay
  <2>1. /\ Synced(file[log]) \in FileOf(Record)
        /\ Synced(file[log]).recs = file[log].recs
        /\ Synced(file[log]).exists = file[log].exists
    BY <1>1, <1>3, SyncedType
  <2> QED  BY <1>1, <1>3, <2>1 DEF SyncedLog
<1> QED  BY <1>2, <1>3

(* The parts of the invariant about files alone, when no record moves.     *)
LEMMA SameRecords ==
  ASSUME OrderInv, file' \in [Days -> FileOf(Record)],
         \A d \in Days : /\ file'[d].recs = file[d].recs
                         /\ file[d].exists => file'[d].exists
  PROVE  AbsentIsEmpty' /\ OrderedPrefix'
<1>1. ASSUME NEW d \in Days, ~file'[d].exists PROVE file'[d].recs = <<>>
  <2>1. ~file[d].exists
    BY <1>1
  <2>2. file[d].recs = <<>>
    BY <2>1 DEF OrderInv, AbsentIsEmpty, Exists
  <2> QED  BY <2>2
<1>2. ASSUME NEW d \in Days PROVE OrderedFile(d, file'[d])
  <2>1. OrderedFile(d, file[d]) /\ file'[d].recs = file[d].recs
    BY DEF OrderInv, OrderedPrefix
  <2> QED  BY <2>1, OrderedSame
<1> QED  BY <1>1, <1>2 DEF AbsentIsEmpty, Exists, OrderedPrefix

(* Follows looks only at the records.                                      *)
LEMMA FollowsSame ==
  ASSUME NEW t, NEW f, NEW g, g.recs = f.recs, Follows(t, f)
  PROVE  Follows(t, g)
  BY DEF Follows, Clean, LastRec

(* The parts that a process that is down satisfies.                        *)
LEMMA HaltedParts ==
  ASSUME OrderInv, Halted, lock' # "live"
  PROVE  LockHeld' /\ OnNewestDay' /\ LastIsTail' /\ JobFits'
  BY DEF Halted, LockHeld, OnNewestDay, LastIsTail, Remembers, JobFits, Busy, Up
-----------------------------------------------------------------------------
(* One lemma per action.                                                   *)

LEMMA InitStep == Init => OrderInv
<1> SUFFICES ASSUME Init PROVE OrderInv
  OBVIOUS
<1>1. TypeOK
  <2>1. NoFile \in FileOf(Record)
    BY NoFileType
  <2>2. NoEntry \in [recs : Seq(Record \cup {Garbage}), torn : BOOLEAN]
    BY DEF NoEntry
  <2>3. file \in [Days -> FileOf(Record)]
        /\ manifest \in [Days -> [recs : Seq(Record \cup {Garbage}), torn : BOOLEAN]]
    BY <2>1, <2>2 DEF Init
  <2>4. now \in 0 .. MaxNow
    BY BoundsAssumption DEF Init
  <2>5. {cur_date, log, window} \subseteq Days \cup {NoDay}
    BY DEF Init
  <2>6. {kills, outages, faults} \subseteq Nat
    BY DEF Init
  <2>7. job \in Record \cup {NoJob} /\ last \in Lasts \cup {NoLast} /\ detached \in BOOLEAN
    BY DEF Init
  <2>8. lock \in {"free", "live", "tool"}
        /\ pc \in {"down", "idle", "close", "finalize", "open", "write"}
    BY DEF Init
  <2> QED  BY <2>3, <2>4, <2>5, <2>6, <2>7, <2>8 DEF TypeOK
<1>2. AbsentIsEmpty /\ OrderedPrefix
  BY DEF Init, AbsentIsEmpty, OrderedPrefix, OrderedFile, NoFile
<1>3. LockHeld /\ OnNewestDay /\ LastIsTail /\ JobFits
  BY DEF Init, LockHeld, OnNewestDay, LastIsTail, Remembers, JobFits, Busy, Up
<1> QED  BY <1>1, <1>2, <1>3 DEF OrderInv

LEMMA TickStep == OrderInv /\ Tick => OrderInv'
<1> SUFFICES ASSUME OrderInv, Tick PROVE OrderInv'
  OBVIOUS
<1> USE DEF Tick, disk, writer, env
<1>1. TypeOK'
  BY BoundsAssumption DEF OrderInv, TypeOK
<1>2. LockHeld' /\ AbsentIsEmpty' /\ OnNewestDay' /\ OrderedPrefix' /\ LastIsTail' /\ JobFits'
  BY DEF OrderInv, LockHeld, AbsentIsEmpty, OnNewestDay, OrderedPrefix, LastIsTail, Remembers,
         JobFits, Busy, Up, Exists
<1> QED  BY <1>1, <1>2 DEF OrderInv

(* The record offered is refused, dropped, or may follow what its shard    *)
(* holds: of an older day than the newest shard it is a straggler, of that *)
(* day it is late unless it follows the remembered tail, and a newer day   *)
(* holds nothing.                                                          *)
LEMMA AppendFits ==
  ASSUME OrderInv, NEW c \in Calls, AppendRecord(c)
  PROVE  /\ cur_date # NoDay => Day(c.ts) >= cur_date
         /\ Follows(c.ts, file[Day(c.ts)])
         /\ RouteDay(c) = Day(c.ts)
<1> USE DEF AppendRecord, Dropped
<1>1. pc = "idle" /\ ~Straggler(c) /\ ~Late(c) /\ c.ts \in Times
  BY DEF Calls
<1>2. Day(c.ts) \in Days /\ Day(c.ts) \in Int /\ Day(c.ts) # NoDay
  BY <1>1, DayType DEF Days, NoDay
<1>3. cur_date \in Days \cup {NoDay} /\ cur_date \in Int /\ Up
      /\ window \in {NoDay, cur_date}
  BY <1>1 DEF OrderInv, TypeOK, OnNewestDay, Up, Days, NoDay
<1>4. InWindow(c) => cur_date = Day(c.ts)
  BY <1>3 DEF InWindow
<1>5. RouteDay(c) = Day(c.ts)
  BY <1>4 DEF RouteDay
<1>6. cur_date # NoDay => Day(c.ts) >= cur_date
  BY <1>1, <1>2, <1>3, <1>4 DEF Straggler, NewDay
<1>7. ASSUME cur_date = Day(c.ts) PROVE Follows(c.ts, file[Day(c.ts)])
  <2>1. ~NewDay(c)
    BY <1>7 DEF NewDay
  <2>3. ASSUME file[cur_date].recs # <<>>, Clean(file[cur_date])
        PROVE  LastRec(file[cur_date]).ts <= c.ts
    <3>1. last # NoLast /\ LastRec(file[cur_date]).ts = last.ts
      BY <1>2, <1>3, <1>7, <2>3 DEF OrderInv, LastIsTail, Remembers
    <3>2. last \in Lasts
      BY <3>1 DEF OrderInv, TypeOK
    <3>3. last.ts \in Int /\ c.ts \in Int /\ last.ts <= c.ts
      BY <1>1, <2>1, <3>1, <3>2, ParamsAssumption, BoundsAssumption DEF Late, Lasts, Times
    <3>4. file[cur_date].recs \in Seq(Record \cup {Garbage})
      BY <1>2, <1>7, FileFields DEF OrderInv, TypeOK
    <3>5. LastRec(file[cur_date]) \in Record
      BY <2>3, <3>4 DEF Clean, LastRec
    <3>6. LastRec(file[cur_date]).ts \in Int
      BY <3>5, ParamsAssumption, BoundsAssumption DEF Record, Times
    <3> QED  BY <3>1, <3>3, <3>6
  <2> QED  BY <1>7, <2>3 DEF Follows
<1>8. ASSUME cur_date # Day(c.ts) PROVE Follows(c.ts, file[Day(c.ts)])
  <2>1. file[Day(c.ts)].recs = <<>>
    BY <1>2, <1>3, <1>6, <1>8 DEF OrderInv, OnNewestDay
  <2> QED  BY <2>1 DEF Follows
<1> QED  BY <1>5, <1>6, <1>7, <1>8

LEMMA AppendRecordStep ==
  ASSUME OrderInv, NEW c \in Calls, AppendRecord(c)
  PROVE  OrderInv'
<1> USE DEF disk, writer, env
<1>1. UNCHANGED <<now, disk, lock, writer, env>> /\ pc = "idle"
  BY DEF AppendRecord
<1>2. job' \in Record /\ job'.ts = c.ts /\ (job'.sentinel => last # NoLast /\ job'.q = last.q)
  BY DEF AppendRecord, Calls, Record, Kept, Changed
<1>3. pc' = ShardStep(Day(c.ts)) /\ pc' \in {"write", "close", "open"}
  BY AppendFits DEF AppendRecord, ShardStep
<1>4. TypeOK'
  BY <1>1, <1>2, <1>3 DEF OrderInv, TypeOK
<1>5. LockHeld' /\ AbsentIsEmpty' /\ OnNewestDay' /\ OrderedPrefix' /\ LastIsTail'
  BY <1>1, <1>3 DEF OrderInv, LockHeld, AbsentIsEmpty, OnNewestDay, OrderedPrefix,
                    LastIsTail, Up, Exists
<1>6. JobFits'
  <2>1. Day(c.ts) # NoDay
    BY DayType DEF Calls, Days, NoDay
  <2>2. /\ cur_date # NoDay => Day(c.ts) >= cur_date
        /\ Follows(c.ts, file[Day(c.ts)])
    BY AppendFits
  <2>3. pc' \in {"close", "finalize"} => cur_date # NoDay
    BY <1>3 DEF ShardStep
  <2>4. pc' = "write" => cur_date = Day(c.ts) /\ log = cur_date
    BY <1>1, <1>3, <2>1 DEF ShardStep, OrderInv, OnNewestDay, Up
  <2> QED  BY <1>1, <1>2, <2>2, <2>3, <2>4 DEF JobFits, Busy
<1> QED  BY <1>4, <1>5, <1>6 DEF OrderInv
(* A step that moves no record, inside or outside an append: pc may        *)
(* advance towards "open", and the open log may be closed.                 *)
LEMMA NoRecordMoves ==
  ASSUME OrderInv, file' \in [Days -> FileOf(Record)],
         \A d \in Days : /\ file'[d].recs = file[d].recs
                         /\ file[d].exists => file'[d].exists,
         UNCHANGED <<job, cur_date, window, last>>,
         \/ pc' = pc /\ log' = log
         \/ pc = "close" /\ pc' \in {"finalize", "open"} /\ log' = NoDay
         \/ pc = "finalize" /\ pc' = "open" /\ log' = log,
         lock' = lock \/ (pc = "down" /\ lock' # "live" /\ lock # "live")
  PROVE  /\ LockHeld' /\ AbsentIsEmpty' /\ OnNewestDay'
         /\ OrderedPrefix' /\ LastIsTail' /\ JobFits'
<1>1. AbsentIsEmpty' /\ OrderedPrefix'
  BY SameRecords
<1>2. LockHeld'
  BY DEF OrderInv, LockHeld, Up
<1>3. OnNewestDay'
  <2>1. (Up /\ log # NoDay) => file'[log].exists
    BY DEF OrderInv, OnNewestDay, TypeOK, Exists
  <2> QED  BY <2>1 DEF OrderInv, OnNewestDay, Up, Exists
<1>4. LastIsTail'
  <2>1. ASSUME Up, cur_date # NoDay, file'[cur_date].recs # <<>>, Clean(file'[cur_date])
        PROVE  Remembers(last, file'[cur_date])
    <3>1. cur_date \in Days
      BY <2>1 DEF OrderInv, TypeOK
    <3>2. file'[cur_date].recs = file[cur_date].recs
      BY <3>1
    <3>3. Clean(file[cur_date]) /\ LastRec(file'[cur_date]) = LastRec(file[cur_date])
      BY <2>1, <3>2 DEF Clean, LastRec
    <3> QED  BY <2>1, <3>2, <3>3 DEF OrderInv, LastIsTail, Remembers
  <2>2. Up' <=> Up
    BY DEF Up
  <2> QED  BY <2>1, <2>2 DEF LastIsTail, Remembers
<1>5. JobFits'
  <2>1. SUFFICES ASSUME Busy' PROVE JobFits'
    BY DEF JobFits, Busy
  <2>2. Busy
    BY <2>1 DEF Busy
  <2>3. /\ job \in Record
        /\ job.sentinel => last # NoLast /\ job.q = last.q
        /\ cur_date # NoDay => Day(job.ts) >= cur_date
        /\ Follows(job.ts, file[Day(job.ts)])
        /\ pc \in {"close", "finalize"} => cur_date # NoDay
        /\ pc = "write" => cur_date = Day(job.ts) /\ log = cur_date
    BY <2>2 DEF OrderInv, JobFits, Busy
  <2>4. Day(job.ts) \in Days
    BY <2>3, DayType DEF Record
  <2>5. Follows(job.ts, file'[Day(job.ts)])
    BY <2>3, <2>4, FollowsSame
  <2> QED  BY <2>3, <2>5 DEF JobFits, Busy
<1> QED  BY <1>1, <1>2, <1>3, <1>4, <1>5

LEMMA CloseLogStep == OrderInv /\ CloseLog => OrderInv'
<1> SUFFICES ASSUME OrderInv, CloseLog PROVE OrderInv'
  OBVIOUS
<1>1. TypeOK
  BY DEF OrderInv
<1>2. file' = SyncedLog \/ file' = file
  BY DEF CloseLog, SyncedLog
<1>3. /\ file' \in [Days -> FileOf(Record)]
      /\ \A d \in Days : /\ file'[d].recs = file[d].recs
                         /\ file[d].exists => file'[d].exists
  BY <1>1, <1>2, SyncedLogType DEF TypeOK
<1>4. TypeOK'
  <2>1. faults' \in Nat
    BY <1>1 DEF CloseLog, Sound, Fault, TypeOK
  <2> QED  BY <1>1, <1>3, <2>1 DEF CloseLog, AfterClose, TypeOK
<1>5. /\ pc = "close" /\ pc' \in {"finalize", "open"} /\ log' = NoDay
      /\ UNCHANGED <<job, cur_date, window, last, lock>>
  BY DEF CloseLog, AfterClose
<1> QED  BY <1>3, <1>4, <1>5, NoRecordMoves DEF OrderInv

LEMMA FinalizeManifestStep == OrderInv /\ FinalizeManifest => OrderInv'
<1> SUFFICES ASSUME OrderInv, FinalizeManifest PROVE OrderInv'
  OBVIOUS
<1>1. TypeOK /\ file' = file
  BY DEF OrderInv, FinalizeManifest
<1>2. manifest' \in ManifestType
  <2>1. file \in [Days -> FileOf(Record)] /\ manifest \in ManifestType
        /\ cur_date \in Days \cup {NoDay}
    BY <1>1 DEF TypeOK, ManifestType
  <2>2. Finalized(cur_date, file) \in ManifestType
    BY <2>1, FinalizedType
  <2> QED  BY <2>1, <2>2 DEF FinalizeManifest
<1>3. TypeOK'
  <2>1. faults' \in Nat
    BY <1>1 DEF FinalizeManifest, Sound, Fault, TypeOK
  <2> QED  BY <1>1, <1>2, <2>1 DEF FinalizeManifest, TypeOK, ManifestType, writer
<1>4. /\ pc = "finalize" /\ pc' = "open" /\ log' = log
      /\ UNCHANGED <<job, cur_date, window, last, lock>>
  BY DEF FinalizeManifest, writer
<1>5. file' \in [Days -> FileOf(Record)]
  BY <1>1 DEF TypeOK
<1> QED  BY <1>1, <1>3, <1>4, <1>5, NoRecordMoves DEF OrderInv

LEMMA FlushStep == OrderInv /\ Flush => OrderInv'
<1> SUFFICES ASSUME OrderInv, Flush PROVE OrderInv'
  OBVIOUS
<1>1. TypeOK
  BY DEF OrderInv
<1>2. file' = SyncedLog \/ file' = file
  BY DEF Flush
<1>3. /\ file' \in [Days -> FileOf(Record)]
      /\ \A d \in Days : /\ file'[d].recs = file[d].recs
                         /\ file[d].exists => file'[d].exists
  BY <1>1, <1>2, SyncedLogType DEF TypeOK
<1>4. manifest' \in ManifestType
  <2>1. file \in [Days -> FileOf(Record)] /\ manifest \in ManifestType
        /\ cur_date \in Days \cup {NoDay}
    BY <1>1 DEF TypeOK, ManifestType
  <2>2. Finalized(cur_date, file) \in ManifestType
    BY <2>1, FinalizedType
  <2> QED  BY <2>1, <2>2 DEF Flush
<1>5. TypeOK'
  <2>1. faults' \in Nat
    BY <1>1 DEF Flush, Sound, Fault, TypeOK
  <2> QED  BY <1>1, <1>3, <1>4, <2>1 DEF Flush, TypeOK, ManifestType, writer
<1>6. UNCHANGED <<job, cur_date, window, last, lock, pc, log>>
  BY DEF Flush, writer
<1> QED  BY <1>3, <1>5, <1>6, NoRecordMoves DEF OrderInv
LEMMA DropWriterStep == OrderInv /\ DropWriter => OrderInv'
<1> SUFFICES ASSUME OrderInv, DropWriter PROVE OrderInv'
  OBVIOUS
<1>1. TypeOK
  BY DEF OrderInv
<1>2. file' = SyncedLog \/ file' = file
  BY DEF DropWriter
<1>3. /\ file' \in [Days -> FileOf(Record)]
      /\ \A d \in Days : /\ file'[d].recs = file[d].recs
                         /\ file[d].exists => file'[d].exists
  BY <1>1, <1>2, SyncedLogType DEF TypeOK
<1>4. manifest' \in ManifestType
  <2>1. file \in [Days -> FileOf(Record)] /\ manifest \in ManifestType
        /\ cur_date \in Days \cup {NoDay}
    BY <1>1 DEF TypeOK, ManifestType
  <2>2. Finalized(cur_date, file) \in ManifestType
    BY <2>1, FinalizedType
  <2> QED  BY <2>1, <2>2 DEF DropWriter
<1>5. TypeOK'
  <2>1. faults' \in Nat
    BY <1>1 DEF DropWriter, Sound, Fault, TypeOK
  <2> QED  BY <1>1, <1>3, <1>4, <2>1 DEF DropWriter, Halted, TypeOK, ManifestType
<1>6. LockHeld' /\ OnNewestDay' /\ LastIsTail' /\ JobFits'
  BY HaltedParts DEF DropWriter
<1> QED  BY <1>3, <1>5, <1>6, SameRecords DEF OrderInv

(* The record is written to the newest shard, which is of its day.         *)
LEMMA WriteFacts ==
  ASSUME OrderInv, pc = "write"
  PROVE  /\ job \in Record /\ log = cur_date /\ Day(job.ts) = cur_date /\ cur_date \in Days
         /\ Follows(job.ts, file[cur_date]) /\ cur_date # NoDay
         /\ job.sentinel => last # NoLast /\ job.q = last.q
         /\ file[cur_date].exists /\ file[cur_date] \in FileOf(Record)
<1>1. job \in Record /\ Day(job.ts) \in Days /\ Up /\ TypeOK
  BY DayType DEF OrderInv, JobFits, Busy, Record, Up
<1>2. cur_date = Day(job.ts) /\ log = cur_date /\ cur_date # NoDay
  BY <1>1 DEF OrderInv, JobFits, Busy, Days, NoDay
<1>3. file[cur_date].exists
  BY <1>1, <1>2 DEF OrderInv, OnNewestDay, Exists
<1> QED  BY <1>1, <1>2, <1>3 DEF OrderInv, JobFits, Busy, TypeOK

(* A write makes g of f, and l of the writer's memory: a slot more, or     *)
(* after a failure at most an undecodable one.                             *)
Written(f, g, l) ==
  /\ g.recs = Append(f.recs, IF f.torn THEN Garbage ELSE job)
  /\ g.torn = f.torn
  /\ l = [ts |-> job.ts, q |-> IF job.sentinel THEN last.q ELSE job.q]
Failed(f, g, l) ==
  /\ g.recs = f.recs \/ g.recs = Append(f.recs, Garbage)
  /\ l = last

LEMMA WriteLogCases ==
  ASSUME OrderInv, WriteLog
  PROVE  \E g \in FileOf(Record) :
           /\ file' = [file EXCEPT ![cur_date] = g] /\ g.exists = file[cur_date].exists
           /\ \/ faults' = faults /\ Written(file[cur_date], g, last')
              \/ faults' = faults + 1 /\ Failed(file[cur_date], g, last')
<1> DEFINE d == cur_date
           f == file[d]
           seen == [ts |-> job.ts, q |-> IF job.sentinel THEN last.q ELSE job.q]
<1>1. job \in Record /\ log = d /\ f \in FileOf(Record)
  BY WriteFacts DEF WriteLog
<1>2. ASSUME Sound, last' = seen,
             file' \in {[file EXCEPT ![log] = h] :
                h \in {WriteRecord(file[log], job), Synced(WriteRecord(file[log], job))}}
      PROVE  \E g \in FileOf(Record) :
               /\ file' = [file EXCEPT ![d] = g] /\ g.exists = f.exists /\ Written(f, g, last')
  <2>1. PICK h \in {WriteRecord(f, job), Synced(WriteRecord(f, job))} :
          file' = [file EXCEPT ![d] = h]
    BY <1>1, <1>2
  <2>2. /\ WriteRecord(f, job) \in FileOf(Record)
        /\ WriteRecord(f, job).recs = Append(f.recs, IF f.torn THEN Garbage ELSE job)
        /\ WriteRecord(f, job).exists = f.exists /\ WriteRecord(f, job).torn = f.torn
    BY <1>1, WriteRecordType
  <2>3. /\ Synced(WriteRecord(f, job)) \in FileOf(Record)
        /\ Synced(WriteRecord(f, job)).recs = WriteRecord(f, job).recs
        /\ Synced(WriteRecord(f, job)).torn = WriteRecord(f, job).torn
        /\ Synced(WriteRecord(f, job)).exists = WriteRecord(f, job).exists
    BY <2>2, SyncedType
  <2> QED  BY <1>2, <2>1, <2>2, <2>3 DEF Written
<1>3. ASSUME Fault, last' = last,
             file' \in {[file EXCEPT ![log] = h] :
                           h \in {file[log]} \cup PartialWrites(file[log])}
      PROVE  \E g \in FileOf(Record) :
               /\ file' = [file EXCEPT ![d] = g] /\ g.exists = f.exists /\ Failed(f, g, last')
  <2>1. PICK h \in {f} \cup PartialWrites(f) : file' = [file EXCEPT ![d] = h]
    BY <1>1, <1>3
  <2>2. /\ h \in FileOf(Record) /\ h.exists = f.exists
        /\ h.recs = f.recs \/ h.recs = Append(f.recs, Garbage)
    BY <1>1, PartialWritesType
  <2> QED  BY <1>3, <2>1, <2>2 DEF Failed
<1> QED  BY <1>2, <1>3 DEF WriteLog, Sound, Fault

(* The write appends at most one slot to the newest shard, which is that   *)
(* of the record's day and holds nothing later than the record.            *)
LEMMA WriteLogStep == OrderInv /\ WriteLog => OrderInv'
<1> SUFFICES ASSUME OrderInv, WriteLog PROVE OrderInv'
  OBVIOUS
<1> DEFINE d == cur_date
           f == file[d]
           seen == [ts |-> job.ts, q |-> IF job.sentinel THEN last.q ELSE job.q]
<1>1. TypeOK /\ pc = "write" /\ pc' = "idle" /\ Up /\ Up'
  BY DEF OrderInv, WriteLog, Up
<1>2. /\ job \in Record /\ log = d /\ Day(job.ts) = d /\ d \in Days
      /\ Follows(job.ts, f) /\ d # NoDay /\ (job.sentinel => last # NoLast /\ job.q = last.q)
      /\ f.exists
  BY <1>1, WriteFacts
<1>3. f \in FileOf(Record) /\ file \in [Days -> FileOf(Record)]
  BY <1>1, <1>2 DEF TypeOK
<1>4. PICK g \in FileOf(Record) : /\ file' = [file EXCEPT ![d] = g] /\ g.exists = f.exists
                                 /\ \/ faults' = faults /\ Written(f, g, last')
                                    \/ faults' = faults + 1 /\ Failed(f, g, last')
  BY WriteLogCases
<1>5. file' \in [Days -> FileOf(Record)] /\ file'[d] = g
      /\ \A e \in Days : e # d => file'[e] = file[e]
  BY <1>2, <1>3, <1>4
<1>6. UNCHANGED <<now, manifest, lock, cur_date, log, window, detached, kills, outages>>
      /\ job' = NoJob
  BY DEF WriteLog
<1>7. f.recs \in Seq(Record \cup {Garbage})
  BY <1>3, FileFields
<1>8. TypeOK'
  <2>1. last' \in Lasts \cup {NoLast}
    <3>1. seen \in Lasts
      BY <1>1, <1>2 DEF TypeOK, Lasts, Record
    <3> QED  BY <1>1, <1>4, <3>1 DEF TypeOK, Written, Failed
  <2>2. faults' \in Nat
    BY <1>1, <1>4 DEF TypeOK
  <2> QED  BY <1>1, <1>5, <1>6, <2>1, <2>2 DEF TypeOK
<1>9. LockHeld'
  BY <1>1, <1>6 DEF OrderInv, LockHeld, Up
<1>10. AbsentIsEmpty'
  <2>1. file'[d].exists
    BY <1>2, <1>4, <1>5
  <2> QED  BY <1>5, <2>1 DEF OrderInv, AbsentIsEmpty, Exists
<1>11. OnNewestDay'
  <2>1. file'[d].exists
    BY <1>2, <1>4, <1>5
  <2>2. d <= d
    BY <1>2 DEF Days
  <2> QED  BY <1>1, <1>2, <1>5, <1>6, <2>1, <2>2 DEF OrderInv, OnNewestDay, Exists
<1>12. OrderedPrefix'
  <2>1. OrderedFile(d, f)
    BY <1>2 DEF OrderInv, OrderedPrefix
  <2>2. OrderedFile(d, g)
    BY <1>2, <1>3, <1>4, <2>1, OrderedSame, OrderedGarbage, OrderedAppend DEF Written, Failed
  <2> QED  BY <1>5, <2>2 DEF OrderInv, OrderedPrefix
<1>13. LastIsTail'
  <2>1. ASSUME g.recs # <<>>, Clean(g) PROVE Remembers(last', g)
    <3>1. CASE g.recs = f.recs /\ last' = last
      <4>1. Clean(f) /\ LastRec(g) = LastRec(f)
        BY <2>1, <3>1 DEF Clean, LastRec
      <4> QED  BY <1>1, <1>2, <2>1, <3>1, <4>1 DEF OrderInv, LastIsTail, Remembers
    <3>2. CASE g.recs = Append(f.recs, Garbage)
      <4>1. g.recs[Len(g.recs)] = Garbage /\ Len(g.recs) \in 1 .. Len(g.recs)
        BY <1>7, <3>2
      <4> QED  BY <2>1, <4>1 DEF Clean
    <3>3. CASE g.recs = Append(f.recs, job) /\ last' = seen
      <4>1. LastRec(g) = job
        BY <1>7, <3>3 DEF LastRec
      <4>2. job.ts \in Int /\ job.ts # -1
        BY <1>2, ParamsAssumption, BoundsAssumption DEF Record, Times
      <4>3. seen.q = job.q /\ seen.ts = job.ts
        BY <1>2
      <4> QED  BY <3>3, <4>1, <4>2, <4>3 DEF NoLast, Remembers
    <3> QED  BY <1>4, <3>1, <3>2, <3>3 DEF Written, Failed
  <2> QED  BY <1>5, <1>6, <2>1 DEF LastIsTail, Remembers
<1>14. JobFits'
  BY <1>1 DEF JobFits, Busy
<1> QED  BY <1>8, <1>9, <1>10, <1>11, <1>12, <1>13, <1>14 DEF OrderInv
(* Opening moves the writer to the record's day, whose shard holds nothing *)
(* later than the record; every shard of a later day is empty.             *)
LEMMA OpenLogStep == OrderInv /\ OpenLog => OrderInv'
<1> SUFFICES ASSUME OrderInv, OpenLog PROVE OrderInv'
  OBVIOUS
<1> DEFINE d == Day(job.ts)
           f == file[d]
<1>1. TypeOK /\ pc = "open" /\ Up /\ lock = "live"
  BY DEF OrderInv, OpenLog, LockHeld, Up
<1>2. /\ job \in Record /\ Follows(job.ts, f) /\ (job.sentinel => last # NoLast /\ job.q = last.q)
      /\ d \in Days /\ d # NoDay /\ d \in Int
      /\ cur_date \in Days \cup {NoDay} /\ (cur_date # NoDay => d >= cur_date)
  <2>1. job \in Record /\ Day(job.ts) \in Days
    BY <1>1, DayType DEF OrderInv, JobFits, Busy, Record
  <2> QED  BY <1>1, <2>1 DEF OrderInv, JobFits, Busy, TypeOK, Days, NoDay
<1>3. f \in FileOf(Record) /\ file \in [Days -> FileOf(Record)]
  BY <1>1, <1>2 DEF TypeOK
<1>4. UNCHANGED <<now, manifest, lock, last, detached, kills, outages>>
      /\ faults' \in Nat
  BY <1>1 DEF OpenLog, Sound, Fault, TypeOK
<1>5. /\ file' \in [Days -> FileOf(Record)]
      /\ \A e \in Days : /\ file'[e].recs = file[e].recs
                         /\ file[e].exists => file'[e].exists
  <2>1. ASSUME file' = [file EXCEPT ![d] = OpenFile(@)]
        PROVE  /\ file' \in [Days -> FileOf(Record)]
               /\ \A e \in Days : /\ file'[e].recs = file[e].recs
                                  /\ file[e].exists => file'[e].exists
    <3>1. OpenFile(f) \in FileOf(Record) /\ OpenFile(f).recs = f.recs /\ OpenFile(f).exists
      BY <1>3, OpenFileType
    <3> QED  BY <1>2, <1>3, <2>1, <3>1
  <2>2. ASSUME file' = [file EXCEPT ![d].exists = TRUE]
        PROVE  /\ file' \in [Days -> FileOf(Record)]
               /\ \A e \in Days : /\ file'[e].recs = file[e].recs
                                  /\ file[e].exists => file'[e].exists
    <3>1. [f EXCEPT !.exists = TRUE] \in FileOf(Record)
      BY <1>3 DEF FileOf
    <3>2. [f EXCEPT !.exists = TRUE].recs = f.recs /\ [f EXCEPT !.exists = TRUE].exists
      BY <1>3 DEF FileOf
    <3>3. file' = [file EXCEPT ![d] = [f EXCEPT !.exists = TRUE]]
      BY <1>2, <1>3, <2>2
    <3> QED  BY <1>2, <1>3, <3>1, <3>2, <3>3
  <2> QED  BY <1>3, <2>1, <2>2 DEF OpenLog
<1>6. AbsentIsEmpty' /\ OrderedPrefix'
  BY <1>5, SameRecords
<1>7. CASE pc' = "idle" /\ job' = NoJob /\ UNCHANGED <<log, cur_date, window>>
  <2>1. TypeOK'
    BY <1>1, <1>4, <1>5, <1>7 DEF TypeOK
  <2>2. LockHeld'
    BY <1>1, <1>4, <1>7 DEF LockHeld, Up
  <2>3. OnNewestDay'
    <3>1. log # NoDay => file'[log].exists
      BY <1>1, <1>5 DEF OrderInv, OnNewestDay, TypeOK, Exists
    <3> QED  BY <1>1, <1>5, <1>7, <3>1 DEF OrderInv, OnNewestDay, Exists
  <2>4. LastIsTail'
    <3>1. ASSUME cur_date # NoDay, file'[cur_date].recs # <<>>, Clean(file'[cur_date])
          PROVE  Remembers(last, file'[cur_date])
      <4>1. file'[cur_date].recs = file[cur_date].recs
        BY <1>2, <1>5, <3>1
      <4>2. Clean(file[cur_date]) /\ LastRec(file'[cur_date]) = LastRec(file[cur_date])
        BY <3>1, <4>1 DEF Clean, LastRec
      <4> QED  BY <1>1, <3>1, <4>1, <4>2 DEF OrderInv, LastIsTail, Remembers
    <3> QED  BY <1>4, <1>7, <3>1 DEF LastIsTail, Remembers
  <2>5. JobFits'
    BY <1>7 DEF JobFits, Busy
  <2> QED  BY <1>6, <2>1, <2>2, <2>3, <2>4, <2>5 DEF OrderInv
<1>8. CASE /\ file' = [file EXCEPT ![d] = OpenFile(@)]
           /\ log' = d /\ cur_date' = d /\ window' = d /\ pc' = "write" /\ job' = job
  <2>1. TypeOK'
    BY <1>1, <1>2, <1>4, <1>5, <1>8 DEF TypeOK
  <2>2. LockHeld'
    BY <1>1, <1>4, <1>8 DEF LockHeld, Up
  <2>3. OnNewestDay'
    <3>1. file'[d].exists
      BY <1>2, <1>3, <1>8, OpenFileType
    <3>2. ASSUME NEW e \in Days, file'[e].recs # <<>> PROVE e <= d
      <4>1. cur_date # NoDay /\ e <= cur_date
        BY <1>1, <1>5, <3>2 DEF OrderInv, OnNewestDay
      <4> QED  BY <1>2, <4>1 DEF Days
    <3> QED  BY <1>2, <1>8, <3>1, <3>2 DEF OnNewestDay, Exists
  <2>4. LastIsTail'
    <3>1. ASSUME file'[d].recs # <<>>, Clean(file'[d])
          PROVE  Remembers(last, file'[d])
      <4>1. f.recs = file'[d].recs /\ Clean(f) /\ LastRec(file'[d]) = LastRec(f)
        BY <1>2, <1>5, <3>1 DEF Clean, LastRec
      <4>2. cur_date # NoDay /\ d <= cur_date
        BY <1>1, <1>2, <3>1, <4>1 DEF OrderInv, OnNewestDay
      <4>3. d = cur_date
        BY <1>2, <4>2 DEF Days
      <4> QED  BY <1>1, <3>1, <4>1, <4>2, <4>3 DEF OrderInv, LastIsTail, Remembers
    <3> QED  BY <1>4, <1>8, <3>1 DEF LastIsTail, Remembers
  <2>5. JobFits'
    <3>1. Follows(job.ts, file'[d])
      BY <1>2, <1>5, FollowsSame
    <3> QED  BY <1>2, <1>4, <1>8, <3>1 DEF JobFits, Busy
  <2> QED  BY <1>6, <2>1, <2>2, <2>3, <2>4, <2>5 DEF OrderInv
<1> QED  BY <1>7, <1>8 DEF OpenLog

(* A restart takes the newest shard's day and its last slot as memory.     *)
LEMMA OpenWriterStep == OrderInv /\ OpenWriter => OrderInv'
<1> SUFFICES ASSUME OrderInv, OpenWriter PROVE OrderInv'
  OBVIOUS
<1>1. TypeOK /\ UNCHANGED <<now, disk, job, env>> /\ pc' = "idle" /\ lock' = "live"
      /\ log' = NoDay /\ window' = NoDay /\ detached' = FALSE
  BY DEF OrderInv, OpenWriter
<1>2. PICK d \in Days \cup {NoDay} : IsLatestShard(d) /\ cur_date' = d /\ last' \in Seeds(d)
  BY DEF OpenWriter
<1>3. d # NoDay => d \in Days /\ file[d].recs \in Seq(Record \cup {Garbage})
  BY <1>1, <1>2, FileFields DEF TypeOK
<1>4. ASSUME d # NoDay, file[d].recs # <<>>, LastRec(file[d]) # Garbage
      PROVE  /\ last' = [ts |-> LastRec(file[d]).ts, q |-> LastRec(file[d]).q]
             /\ LastRec(file[d]) \in Record /\ last' # NoLast
  <2>1. LastRec(file[d]) \in Record
    BY <1>3, <1>4 DEF LastRec
  <2>2. LastRec(file[d]).ts \in Int /\ LastRec(file[d]).ts # -1
    BY <2>1, ParamsAssumption, BoundsAssumption DEF Record, Times
  <2> QED  BY <1>2, <1>4, <2>1, <2>2 DEF Seeds, NoLast
<1>5. last' \in Lasts \cup {NoLast}
  <2>1. CASE d = NoDay \/ file[d].recs = <<>>
    BY <1>2, <2>1 DEF Seeds
  <2>2. CASE d # NoDay /\ file[d].recs # <<>> /\ LastRec(file[d]) = Garbage
    BY <1>2, <2>2 DEF Seeds
  <2>3. CASE d # NoDay /\ file[d].recs # <<>> /\ LastRec(file[d]) # Garbage
    BY <1>4, <2>3 DEF Lasts, Record
  <2> QED  BY <2>1, <2>2, <2>3
<1>6. TypeOK'
  BY <1>1, <1>2, <1>5 DEF TypeOK, disk, env
<1>7. LockHeld' /\ JobFits'
  BY <1>1 DEF LockHeld, JobFits, Busy, Up
<1>8. AbsentIsEmpty' /\ OrderedPrefix'
  BY <1>1 DEF OrderInv, AbsentIsEmpty, OrderedPrefix, Exists, disk
<1>9. OnNewestDay'
  <2>1. ASSUME NEW e \in Days, file[e].recs # <<>> PROVE d # NoDay /\ e <= d
    <3>1. Exists(e)
      BY <2>1 DEF OrderInv, AbsentIsEmpty
    <3> QED  BY <1>2, <3>1 DEF IsLatestShard
  <2> QED  BY <1>1, <1>2, <2>1 DEF OnNewestDay, disk
<1>10. LastIsTail'
  <2>1. ASSUME d # NoDay, file[d].recs # <<>>, Clean(file[d])
        PROVE  Remembers(last', file[d])
    <3>1. LastRec(file[d]) # Garbage
      <4>1. Len(file[d].recs) \in 1 .. Len(file[d].recs)
        BY <1>3, <2>1
      <4> QED  BY <2>1, <4>1 DEF Clean, LastRec
    <3>2. LastRec(file[d]).ts \in Int
      BY <1>4, <2>1, <3>1, ParamsAssumption, BoundsAssumption DEF Record, Times
    <3> QED  BY <1>4, <2>1, <3>1, <3>2 DEF Remembers
  <2> QED  BY <1>1, <1>2, <2>1 DEF LastIsTail, Remembers, disk
<1> QED  BY <1>6, <1>7, <1>8, <1>9, <1>10 DEF OrderInv
(* A kill leaves at most a fragment, or an undecodable slot, behind.       *)
LEMMA KillStep == OrderInv /\ Kill => OrderInv'
<1> SUFFICES ASSUME OrderInv, Kill PROVE OrderInv'
  OBVIOUS
<1>1. TypeOK /\ Halted /\ lock' = "free" /\ UNCHANGED <<now, manifest, outages, faults>>
  BY DEF OrderInv, Kill
<1>2. file \in [Days -> FileOf(Record)]
  BY <1>1 DEF TypeOK
<1>3. PICK d \in Days, g \in FileOf(Record) :
        /\ file' = file \/ file' = [file EXCEPT ![d] = g]
        /\ g.exists = file[d].exists
        /\ g.recs = file[d].recs \/ g.recs = Append(file[d].recs, Garbage)
        /\ file' = file \/ file[d].exists
  <2>1. CASE pc = "write"
    <3>1. log \in Days /\ file[log] \in FileOf(Record) /\ file[log].exists
      <4>1. job \in Record /\ log = Day(job.ts) /\ log # NoDay
        BY <2>1, DayType DEF OrderInv, JobFits, Busy, Record, Days, NoDay
      <4> QED  BY <1>1, <2>1, <4>1 DEF OrderInv, OnNewestDay, TypeOK, Exists, Up
    <3>2. PICK h \in {file[log]} \cup PartialWrites(file[log]) : file' = [file EXCEPT ![log] = h]
      BY <2>1 DEF Kill
    <3>3. /\ h \in FileOf(Record) /\ h.exists = file[log].exists
          /\ h.recs = file[log].recs \/ h.recs = Append(file[log].recs, Garbage)
      BY <3>1, PartialWritesType
    <3> QED  BY <3>1, <3>2, <3>3
  <2>2. CASE pc # "write"
    <3>1. file' = file
      BY <2>2 DEF Kill
    <3>2. 0 \in Times
      BY ParamsAssumption, BoundsAssumption DEF Times
    <3>3. Day(0) \in Days /\ file[Day(0)] \in FileOf(Record)
      BY <1>2, <3>2, DayType
    <3> QED  BY <3>1, <3>3
  <2> QED  BY <2>1, <2>2
<1>4. file' \in [Days -> FileOf(Record)]
  BY <1>2, <1>3
<1>5. TypeOK'
  <2>1. kills' \in Nat
    BY <1>1 DEF Kill, TypeOK
  <2> QED  BY <1>1, <1>4, <2>1 DEF Halted, TypeOK
<1>6. AbsentIsEmpty'
  BY <1>2, <1>3 DEF OrderInv, AbsentIsEmpty, Exists
<1>7. OrderedPrefix'
  <2>1. file[d] \in FileOf(Record) /\ OrderedFile(d, file[d])
    BY <1>2 DEF OrderInv, OrderedPrefix
  <2>2. OrderedFile(d, g)
    BY <1>3, <2>1, OrderedSame, OrderedGarbage
  <2> QED  BY <1>2, <1>3, <2>2 DEF OrderInv, OrderedPrefix
<1>8. LockHeld' /\ OnNewestDay' /\ LastIsTail' /\ JobFits'
  BY <1>1, HaltedParts
<1> QED  BY <1>5, <1>6, <1>7, <1>8 DEF OrderInv

LEMMA PowerLossStep == OrderInv /\ PowerLoss => OrderInv'
<1> SUFFICES ASSUME OrderInv, PowerLoss PROVE OrderInv'
  OBVIOUS
<1>1. TypeOK /\ Halted /\ lock' = "free" /\ UNCHANGED <<now, manifest, kills, faults>>
  BY DEF OrderInv, PowerLoss
<1>2. file \in [Days -> FileOf(Record)]
  BY <1>1 DEF TypeOK
<1>3. /\ file' \in [Days -> UNION {AfterPowerLoss(file[d]) : d \in Days}]
      /\ \A d \in Days : file'[d] \in AfterPowerLoss(file[d])
  BY DEF PowerLoss
<1>4. ASSUME NEW d \in Days
      PROVE  /\ file'[d] \in FileOf(Record)
             /\ OrderedFile(d, file'[d])
             /\ ~file'[d].exists => file'[d].recs = <<>>
  <2>1. file[d] \in FileOf(Record) /\ file'[d] \in AfterPowerLoss(file[d])
    BY <1>2, <1>3
  <2>2. /\ file'[d] \in FileOf(Record)
        /\ CutOf(file'[d], file[d])
        /\ file'[d].exists = file[d].exists \/ file'[d].recs = <<>>
    BY <2>1, AfterPowerLossType
  <2>3. OrderedFile(d, file'[d])
    BY <2>1, <2>2, OrderedCut DEF OrderInv, OrderedPrefix
  <2>4. ASSUME ~file[d].exists PROVE file'[d].recs = <<>>
    <3>1. file[d].recs = <<>>
      BY <2>4 DEF OrderInv, AbsentIsEmpty, Exists
    <3> QED  BY <2>2, <3>1 DEF CutOf
  <2> QED  BY <2>2, <2>3, <2>4
<1>5. file' \in [Days -> FileOf(Record)]
  BY <1>3, <1>4
<1>6. TypeOK'
  <2>1. outages' \in Nat
    <3>1. outages' = outages + 1
      BY Zenon DEF PowerLoss
    <3> QED  BY <1>1, <3>1 DEF TypeOK
  <2> QED  BY <1>1, <1>5, <2>1 DEF Halted, TypeOK
<1>7. AbsentIsEmpty' /\ OrderedPrefix'
  BY <1>4 DEF AbsentIsEmpty, OrderedPrefix, Exists
<1>8. LockHeld' /\ OnNewestDay' /\ LastIsTail' /\ JobFits'
  BY <1>1, HaltedParts
<1> QED  BY <1>6, <1>7, <1>8 DEF OrderInv

(* The repair tool runs only while the writer is down.                     *)
LEMMA ToolLockStep == OrderInv /\ (ToolAcquire \/ ToolRelease) => OrderInv'
<1> SUFFICES ASSUME OrderInv, ToolAcquire \/ ToolRelease PROVE OrderInv'
  OBVIOUS
<1>1. TypeOK
  BY DEF OrderInv
<1>2. /\ UNCHANGED <<now, disk, pc, job, writer, env>>
      /\ pc = "down" /\ lock # "live" /\ lock' # "live" /\ lock' \in {"free", "tool"}
  BY DEF ToolAcquire, ToolRelease, LockFree, OrderInv, LockHeld, Up
<1>3. TypeOK'
  BY <1>1, <1>2 DEF TypeOK, disk, writer, env
<1>4. file' \in [Days -> FileOf(Record)] /\ file' = file
  BY <1>1, <1>2 DEF TypeOK, disk
<1>5. UNCHANGED <<job, cur_date, window, last>> /\ pc' = pc /\ log' = log
  BY <1>2 DEF writer
<1> QED  BY <1>2, <1>3, <1>4, <1>5, NoRecordMoves DEF OrderInv

LEMMA ToolRewriteStep ==
  ASSUME OrderInv, NEW d \in Days, ToolRewrite(d)
  PROVE  OrderInv'
<1>1. /\ TypeOK /\ UNCHANGED <<now, lock, pc, job, cur_date, log, window, last, env>>
      /\ file' = [file EXCEPT ![d] = Synced(OpenFile(@))]
  BY DEF OrderInv, ToolRewrite
<1>2. file \in [Days -> FileOf(Record)] /\ file[d] \in FileOf(Record)
  BY <1>1 DEF TypeOK
<1>3. /\ OpenFile(file[d]) \in FileOf(Record)
      /\ OpenFile(file[d]).recs = file[d].recs /\ OpenFile(file[d]).exists
  BY <1>2, OpenFileType
<1>4. /\ Synced(OpenFile(file[d])) \in FileOf(Record)
      /\ Synced(OpenFile(file[d])).recs = file[d].recs
      /\ Synced(OpenFile(file[d])).exists
  BY <1>3, SyncedType
<1>5. /\ file' \in [Days -> FileOf(Record)]
      /\ \A e \in Days : /\ file'[e].recs = file[e].recs
                         /\ file[e].exists => file'[e].exists
  BY <1>1, <1>2, <1>4
<1>6. manifest' \in ManifestType
  <2>1. manifest \in ManifestType
    BY <1>1 DEF TypeOK, ManifestType
  <2>2. Finalized(d, file') \in ManifestType
    BY <1>5, <2>1, FinalizedType
  <2> QED  BY <2>2 DEF ToolRewrite
<1>7. TypeOK'
  <2>1. detached' \in BOOLEAN
    BY <1>1 DEF ToolRewrite, TypeOK
  <2> QED  BY <1>1, <1>5, <1>6, <2>1 DEF TypeOK, ManifestType, env
<1> QED  BY <1>1, <1>5, <1>7, NoRecordMoves DEF OrderInv

-----------------------------------------------------------------------------
LEMMA NextStep == OrderInv /\ [Next]_vars => OrderInv'
<1> SUFFICES ASSUME OrderInv, [Next]_vars PROVE OrderInv'
  OBVIOUS
<1>1. CASE Tick
  BY <1>1, TickStep
<1>2. CASE \E c \in Calls : AppendRecord(c)
  BY <1>2, AppendRecordStep
<1>3. CASE CloseLog
  BY <1>3, CloseLogStep
<1>4. CASE FinalizeManifest
  BY <1>4, FinalizeManifestStep
<1>5. CASE OpenLog
  BY <1>5, OpenLogStep
<1>6. CASE WriteLog
  BY <1>6, WriteLogStep
<1>7. CASE OpenWriter
  BY <1>7, OpenWriterStep
<1>8. CASE Flush
  BY <1>8, FlushStep
<1>9. CASE DropWriter
  BY <1>9, DropWriterStep
<1>10. CASE Kill
  BY <1>10, KillStep
<1>11. CASE PowerLoss
  BY <1>11, PowerLossStep
<1>12. CASE ToolAcquire \/ ToolRelease
  BY <1>12, ToolLockStep
<1>13. CASE \E d \in Days : ToolRewrite(d)
  BY <1>13, ToolRewriteStep
<1>14. CASE UNCHANGED vars
  BY <1>14 DEF vars, disk, writer, env, OrderInv, TypeOK, LockHeld, AbsentIsEmpty,
               OnNewestDay, OrderedPrefix, LastIsTail, JobFits, Busy, Up, Exists
<1> QED  BY <1>1, <1>2, <1>3, <1>4, <1>5, <1>6, <1>7, <1>8, <1>9, <1>10, <1>11,
            <1>12, <1>13, <1>14 DEF Next

(* The inductive invariant holds of every behaviour: with any number of    *)
(* kills, power failures and failed I/O calls.                             *)
THEOREM OrderInductive == Spec => []OrderInv
<1>1. Init => OrderInv
  BY InitStep
<1>2. OrderInv /\ [Next]_vars => OrderInv'
  BY NextStep
<1> QED  BY <1>1, <1>2, PTL DEF Spec

(* Type correctness of the writer and its files.                           *)
THEOREM TypeCorrect == Spec => []TypeOK
<1>1. OrderInv => TypeOK
  BY DEF OrderInv
<1> QED  BY <1>1, OrderInductive, PTL

(* Every decodable shard is in time order and of one day, whatever         *)
(* restarts, crashes and failed writes append_with_now went through.       *)
THEOREM ShardsStayOrdered == Spec => []ShardOrdered
<1>1. OrderInv => ShardOrdered
  <2> SUFFICES ASSUME OrderInv, NEW d \in Days, Clean(file[d]),
                      NEW i \in DOMAIN file[d].recs, NEW j \in DOMAIN file[d].recs
               PROVE  /\ Day(file[d].recs[j].ts) = d
                      /\ i < j => file[d].recs[i].ts <= file[d].recs[j].ts
    BY DEF ShardOrdered
  <2>1. file[d].recs \in Seq(Record \cup {Garbage})
    BY FileFields DEF OrderInv, TypeOK
  <2>2. i \in 1 .. Len(file[d].recs) /\ j \in 1 .. Len(file[d].recs)
    BY <2>1
  <2>3. CleanUpTo(file[d], j)
    <3>1. 1 .. j \subseteq 1 .. Len(file[d].recs)
      BY <2>1, <2>2
    <3> QED  BY <3>1 DEF Clean, CleanUpTo
  <2> QED  BY <2>2, <2>3 DEF OrderInv, OrderedPrefix, OrderedFile
<1> QED  BY <1>1, OrderInductive, PTL
=============================================================================

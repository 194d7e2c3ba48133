----------------------------- MODULE ShardFiles -----------------------------
(***************************************************************************)
(* shard.rs for those who are not the writer: the stream an offline tool   *)
(* reads a shard with while its writer appends to it, dies and heals it;   *)
(* the manifest built for a whole directory; and who owns which file.      *)
(*                                                                         *)
(* A file is a sequence of bytes [rec, at]: byte at of the rec-th record   *)
(* that was ever begun.                                                    *)
(***************************************************************************)
EXTENDS Naturals, SequencesExt, TLC

CONSTANTS
  Stride,       \* bytes of a record
  Chunk,        \* records of the buffer of a stream
  \* bounds of the model
  MaxBytes, MaxHeals

ASSUME StreamAssumption == {Stride, Chunk} \subseteq Nat \ {0}

VARIABLES
  bytes,        \* the file
  begun, heals, \* records begun, and fragments of them cut off again
  offset,       \* bytes the stream has read
  buf, pos,     \* its buffer, and how much of that is handed out
  eof, mode,    \* "idle" between calls, "fill" during a refill, "failed"
  out,          \* records handed out
  at_eof,       \* records in the file when its end was seen
  overtaken     \* a fragment the stream had read was cut off behind it
streamVars == <<bytes, begun, heals, offset, buf, pos, eof, mode, out, at_eof, overtaken>>
reader == <<offset, buf, pos, eof, mode, out, at_eof>>

Records(n) == n \div Stride
Whole(n)   == Records(n) * Stride

-----------------------------------------------------------------------------
(* The writer, byte by byte, and the restart that heals its last record.   *)
WriteByte ==
  LET at == Len(bytes) % Stride
      rec == IF at = 0 THEN begun + 1 ELSE begun IN
  /\ Len(bytes) < MaxBytes
  /\ bytes' = Append(bytes, [rec |-> rec, at |-> at])
  /\ begun' = rec
  /\ UNCHANGED <<heals, overtaken, reader>>
Heal ==
  /\ heals < MaxHeals /\ Whole(Len(bytes)) < Len(bytes)
  /\ bytes' = SubSeq(bytes, 1, Whole(Len(bytes)))
  /\ heals' = heals + 1
  /\ overtaken' = (overtaken \/ (~eof /\ offset > Whole(Len(bytes))))
  /\ UNCHANGED <<begun, reader>>

(* refill: reads of any length, until the buffer is full or the file ends. *)
Refill ==
  /\ mode = "idle" /\ pos >= Len(buf) /\ ~eof
  /\ mode' = "fill" /\ buf' = <<>> /\ pos' = 0
  /\ UNCHANGED <<bytes, begun, heals, offset, eof, out, at_eof, overtaken>>
Unread == IF offset < Len(bytes) THEN Len(bytes) - offset ELSE 0
Read(n) ==
  /\ mode = "fill" /\ n <= Unread /\ Len(buf) + n <= Chunk * Stride
  /\ buf' = buf \o SubSeq(bytes, offset + 1, offset + n)
  /\ offset' = offset + n
  /\ mode' = IF Len(buf') = Chunk * Stride THEN "idle" ELSE "fill"
  /\ UNCHANGED <<bytes, begun, heals, pos, eof, out, at_eof, overtaken>>
WholeOnly == SubSeq(buf, 1, Whole(Len(buf)))
ReadEnd ==
  /\ mode = "fill" /\ Unread = 0
  /\ eof' = TRUE /\ at_eof' = Records(Len(bytes))
  /\ buf' = WholeOnly
  /\ mode' = "idle"
  /\ UNCHANGED <<bytes, begun, heals, offset, pos, out, overtaken>>
ReadFails ==                                \* the tool gives up on an error
  /\ mode = "fill" /\ mode' = "failed"
  /\ UNCHANGED <<bytes, begun, heals, offset, buf, pos, eof, out, at_eof, overtaken>>

(* next and next_chunk: one record of the buffer, or all that is left.     *)
Stale == [rec |-> 0, at |-> 0]              \* what an earlier refill left
ByteAt(i) == IF i <= Len(buf) THEN buf[i] ELSE Stale
HandOut(n) ==
  /\ mode = "idle" /\ n > 0 /\ pos < Len(buf)
  /\ out' = out \o [i \in 1 .. n |-> [j \in 1 .. Stride |-> ByteAt(pos + (i - 1) * Stride + j)]]
  /\ pos' = pos + n * Stride
  /\ UNCHANGED <<bytes, begun, heals, offset, buf, eof, mode, at_eof, overtaken>>
NextRecord == HandOut(1)
NextChunk  == HandOut(Records(Len(buf) - pos))

StreamInit ==
  /\ bytes = <<>> /\ begun = 0 /\ heals = 0 /\ overtaken = FALSE
  /\ offset = 0 /\ buf = <<>> /\ pos = 0 /\ eof = FALSE /\ mode = "idle"
  /\ out = <<>> /\ at_eof = 0
StreamNext ==
  \/ WriteByte \/ Heal
  \/ Refill \/ ReadEnd \/ ReadFails \/ NextRecord \/ NextChunk
  \/ \E n \in 1 .. Chunk * Stride : Read(n)

-----------------------------------------------------------------------------
(* Manifests: upsert for one closed day, set_shards_batch for a rebuild,   *)
(* refresh_kind for every shard a directory holds.  A sort by date puts at *)
(* place n the entry with n - 1 earlier ones: no two have the same date.   *)
Dates(s) == {e.date : e \in Range(s)}
Earlier(s, e) == {f \in Range(s) : f.date < e.date}
ByDate(s) ==
  [n \in DOMAIN s |-> CHOOSE e \in Range(s) : Cardinality(Earlier(s, e)) = n - 1]
Place(s, e) ==
  IF \E i \in DOMAIN s : s[i].date = e.date
    THEN [i \in DOMAIN s |-> IF s[i].date = e.date THEN e ELSE s[i]]
    ELSE Append(s, e)
Spanning(s, m) ==
  [m EXCEPT !.shards = s, !.first = IF s = <<>> THEN @ ELSE s[1].first,
                          !.last  = IF s = <<>> THEN @ ELSE Last(s).last]
EmptyManifest == [shards |-> <<>>, first |-> "max", last |-> "min", kind |-> {}]
UpsertShard(m, e) == Spanning(ByDate(Place(m.shards, e)), m)
SetShardsBatch(m, es) ==
  Spanning(ByDate(FoldLeft(Place, <<>>, es)), [EmptyManifest EXCEPT !.kind = m.kind])
Retain(s, S) == FoldLeft(LAMBDA kept, e : IF e \in S THEN Append(kept, e) ELSE kept, <<>>, s)
RefreshKind(m, found, ext) ==
  LET others == {s \in Range(m.shards) : s.date \notin Dates(found)}
  IN  [FoldLeft(UpsertShard, [m EXCEPT !.shards = Retain(m.shards, others)], found)
         EXCEPT !.kind = @ \cup {ext}]

(* shard.rs:901: "final manifest is identical to feeding the same entries  *)
(* to upsert one by one"; a rescan keeps the days in order, each once, and *)
(* tells every shard it found as it is now, every other day as before, and *)
(* what a second one would.                                                *)
ManifestsAgree(es, found) ==
  LET m == SetShardsBatch(EmptyManifest, es)
      r == RefreshKind(m, found, "s10")
      at(s, d) == {e \in Range(s) : e.date = d} IN
  /\ m = FoldLeft(UpsertShard, EmptyManifest, es)
  /\ \A i, j \in DOMAIN r.shards : i < j => r.shards[i].date < r.shards[j].date
  /\ Dates(r.shards) = Dates(es) \cup Dates(found)
  /\ \A d \in Dates(r.shards) : at(r.shards, d) \in {at(found, d), at(m.shards, d)}
  /\ Range(found) \subseteq Range(r.shards)
  /\ RefreshKind(r, found, "s10") = r

-----------------------------------------------------------------------------
(* Who owns what: a store is a set of files [tree, ext, id, date]; the     *)
(* rolling .vol has no date.                                               *)
Rolling == 0                                       \* the date of no day
DailyTrees == {<<"indexes", "idx">>, <<"bars", "s10">>, <<"bars", "renko">>}
VolPath(id) == [tree |-> "vol", ext |-> "vol", id |-> id, date |-> Rolling]
TickerArtifacts(disk, id) ==
  {f \in disk : f.id = id /\ (<<f.tree, f.ext>> \in DailyTrees \/ f = VolPath(id))}
StoredTickerIds(disk) ==
  {f.id : f \in {f \in disk : f.tree \in {"indexes", "bars"} \/ f = VolPath(f.id)}}
CanRenameVol(disk, old, new) == VolPath(old) \in disk /\ VolPath(new) \notin disk
RenameVol(disk, old, new) ==
  IF CanRenameVol(disk, old, new) THEN (disk \ {VolPath(old)}) \cup {VolPath(new)} ELSE disk

(* shard.rs:463: "the single answer to what does this ticker own".  A pass *)
(* over the stored ids sees every record file once, its .vol included; and *)
(* an id is migrated without a byte of another's.                          *)
OwnersPartition(disk) ==
  LET ids == StoredTickerIds(disk)
      owned(d, id) == TickerArtifacts(d, id) IN
  /\ UNION {owned(disk, id) : id \in ids} = {f \in disk : f.ext # "json"}
  /\ \A a, b \in ids :
       /\ a # b => owned(disk, a) \cap owned(disk, b) = {}
       /\ LET moved == RenameVol(disk, a, b) IN
          /\ Cardinality(moved) = Cardinality(disk)
          /\ \A c \in ids \ {a, b} : owned(moved, c) = owned(disk, c)
          /\ owned(disk, b) \subseteq owned(moved, b)

-----------------------------------------------------------------------------
(* shard.rs:728: a torn tail is dropped, never parsed.  A stream hands out *)
(* the records of the file, each once and in order, and ends with those    *)
(* that were whole when it saw the end, unless the writer was restarted    *)
(* and cut off a fragment the stream had already taken.                    *)
StreamTells ==
  ~overtaken =>
    /\ \A i \in DOMAIN out : out[i] = SubSeq(bytes, (i - 1) * Stride + 1, i * Stride)
    /\ eof /\ pos = Len(buf) => Len(out) = at_eof
=============================================================================

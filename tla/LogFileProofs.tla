--------------------------- MODULE LogFileProofs ---------------------------
(***************************************************************************)
(* What the operations on record files return.                             *)
(***************************************************************************)
EXTENDS LogFile, TLAPS

(* g is what f keeps of itself when its records are cut after some slot.   *)
CutOf(g, f) == \E k \in 0 .. Len(f.recs) : g.recs = SubSeq(f.recs, 1, k)

(* The fields of a file.                                                   *)
LEMMA FileFields ==
  ASSUME NEW R, NEW f \in FileOf(R)
  PROVE  /\ f.recs \in Seq(R \cup {Garbage})
         /\ Len(f.recs) \in Nat
         /\ f.torn \in BOOLEAN /\ f.exists \in BOOLEAN
         /\ f.durable \in Nat
  BY DEF FileOf

LEMMA NoFileType == ASSUME NEW R PROVE NoFile \in FileOf(R)
  BY DEF NoFile, FileOf

(* Opening (open_inner) keeps a file a file, and its records.              *)
LEMMA OpenFileType ==
  ASSUME NEW R, NEW f \in FileOf(R)
  PROVE  /\ OpenFile(f) \in FileOf(R)
         /\ OpenFile(f).recs = f.recs /\ OpenFile(f).exists
  BY DEF FileOf, OpenFile

(* So does sync_data.                                                      *)
LEMMA SyncedType ==
  ASSUME NEW R, NEW f \in FileOf(R)
  PROVE  /\ Synced(f) \in FileOf(R)
         /\ Synced(f).recs = f.recs /\ Synced(f).exists = f.exists
         /\ Synced(f).torn = f.torn
  BY FileFields DEF FileOf, Synced

(* One slot more is still a file.                                          *)
LEMMA SlotType ==
  ASSUME NEW R, NEW f \in FileOf(R), NEW r \in R \cup {Garbage}, NEW t \in BOOLEAN
  PROVE  /\ Slot(f, r, t) \in FileOf(R)
         /\ Slot(f, r, t).recs = Append(f.recs, r)
         /\ Slot(f, r, t).torn = t
         /\ Slot(f, r, t).exists = f.exists
<1>1. f.recs \in Seq(R \cup {Garbage})
  BY FileFields
<1>2. Append(f.recs, r) \in Seq(R \cup {Garbage})
  BY <1>1
<1> QED  BY <1>2 DEF FileOf, Slot

(* A write appends one slot: the record, or garbage behind a fragment.     *)
LEMMA WriteRecordType ==
  ASSUME NEW R, NEW f \in FileOf(R), NEW r \in R
  PROVE  /\ WriteRecord(f, r) \in FileOf(R)
         /\ WriteRecord(f, r).recs = Append(f.recs, IF f.torn THEN Garbage ELSE r)
         /\ WriteRecord(f, r).exists = f.exists /\ WriteRecord(f, r).torn = f.torn
<1>1. CASE f.torn
  <2>1. WriteRecord(f, r) = Slot(f, Garbage, TRUE)
    BY <1>1 DEF WriteRecord
  <2>2. f.torn = TRUE
    BY <1>1, FileFields
  <2> QED  BY <1>1, <2>1, <2>2, SlotType
<1>2. CASE ~f.torn
  <2>1. WriteRecord(f, r) = Slot(f, r, FALSE)
    BY <1>2 DEF WriteRecord
  <2>2. \A t \in BOOLEAN : /\ Slot(f, r, t) \in FileOf(R)
                           /\ Slot(f, r, t).recs = Append(f.recs, r)
                           /\ Slot(f, r, t).exists = f.exists
    BY SlotType
  <2>3. f.torn = FALSE /\ Slot(f, r, FALSE).torn = FALSE
    BY <1>2, FileFields DEF Slot, FileOf
  <2> QED  BY <1>2, <2>1, <2>2, <2>3
<1> QED  BY <1>1, <1>2

(* A write that stops half way adds at most one undecodable slot.          *)
LEMMA PartialWritesType ==
  ASSUME NEW R, NEW f \in FileOf(R), NEW g \in PartialWrites(f)
  PROVE  /\ g \in FileOf(R)
         /\ g.exists = f.exists
         /\ g.recs = f.recs \/ g.recs = Append(f.recs, Garbage)
<1>1. CASE g = [f EXCEPT !.torn = TRUE]
  BY <1>1 DEF FileOf
<1>2. CASE \E t \in BOOLEAN : g = Slot(f, Garbage, t)
  <2>1. Garbage \in R \cup {Garbage}
    OBVIOUS
  <2>2. \A t \in BOOLEAN : /\ Slot(f, Garbage, t) \in FileOf(R)
                           /\ Slot(f, Garbage, t).recs = Append(f.recs, Garbage)
                           /\ Slot(f, Garbage, t).exists = f.exists
    BY <2>1, SlotType
  <2> QED  BY <1>2, <2>2
<1> QED  BY <1>1, <1>2 DEF PartialWrites

(* Behind no fragment, nothing becomes undecodable.                        *)
LEMMA PartialWholeType ==
  ASSUME NEW R, NEW f \in FileOf(R), ~f.torn, NEW g \in PartialWrites(f)
  PROVE  g.recs = f.recs
  BY DEF PartialWrites, FileOf

(* A cut is a file, and a prefix of what was there.                        *)
LEMMA CutType ==
  ASSUME NEW R, NEW f \in FileOf(R), NEW k \in 0 .. Len(f.recs), NEW t \in BOOLEAN
  PROVE  /\ Cut(f, k, t) \in FileOf(R)
         /\ Cut(f, k, t).recs = SubSeq(f.recs, 1, k)
         /\ Cut(f, k, t).durable = k
         /\ Cut(f, k, t).exists = f.exists
<1> DEFINE u == IF k < Len(f.recs) \/ f.torn THEN t ELSE FALSE
<1>0. f.recs \in Seq(R \cup {Garbage})
  BY FileFields
<1>1. SubSeq(f.recs, 1, k) \in Seq(R \cup {Garbage})
  <2>1. k \in Nat /\ k <= Len(f.recs)
    BY <1>0
  <2>2. \A i \in 1 .. k : f.recs[i] \in R \cup {Garbage}
    BY <1>0, <2>1
  <2> QED  BY <1>0, <2>1, <2>2
<1>2. u \in BOOLEAN
  OBVIOUS
<1>3. Cut(f, k, t) = [f EXCEPT !.recs = SubSeq(f.recs, 1, k), !.durable = k, !.torn = u]
  BY DEF Cut
<1>4. k \in Nat
  BY <1>0
<1> HIDE DEF u
<1> QED  BY <1>1, <1>2, <1>3, <1>4 DEF FileOf

(* A power failure keeps a prefix of the records, and a file that is gone  *)
(* holds none.                                                             *)
LEMMA AfterPowerLossType ==
  ASSUME NEW R, NEW f \in FileOf(R), NEW g \in AfterPowerLoss(f)
  PROVE  /\ g \in FileOf(R)
         /\ CutOf(g, f)
         /\ g.exists = f.exists \/ g.recs = <<>>
<1>0. f.recs \in Seq(R \cup {Garbage}) /\ f.durable \in Nat
  BY FileFields
<1>1. CASE g = NoFile
  <2>1. NoFile.recs = SubSeq(f.recs, 1, 0)
    BY <1>0 DEF NoFile
  <2>2. 0 \in 0 .. Len(f.recs)
    BY <1>0
  <2>3. g.recs = <<>>
    BY <1>1 DEF NoFile
  <2> QED  BY <1>1, <2>1, <2>2, <2>3, NoFileType DEF CutOf
<1>2. CASE \E k \in f.durable .. Len(f.recs), t \in BOOLEAN : g = Cut(f, k, t)
  <2>1. PICK k \in f.durable .. Len(f.recs), t \in BOOLEAN : g = Cut(f, k, t)
    BY <1>2
  <2>2. k \in 0 .. Len(f.recs)
    BY <1>0
  <2> QED  BY <2>1, <2>2, CutType DEF CutOf
<1> QED  BY <1>1, <1>2 DEF AfterPowerLoss

(* What each operation makes of the slots that have reached the disk.      *)
LEMMA DurableSlots ==
  ASSUME NEW R, NEW f \in FileOf(R)
  PROVE  /\ OpenFile(f).durable = f.durable
         /\ Synced(f).durable = Len(f.recs)
         /\ \A r : WriteRecord(f, r).durable = f.durable
         /\ \A g \in PartialWrites(f) : g.durable = f.durable
  BY DEF FileOf, OpenFile, Synced, WriteRecord, Slot, PartialWrites

LEMMA DurableCut ==
  ASSUME NEW R, NEW f \in FileOf(R), f.durable <= Len(f.recs), NEW g \in AfterPowerLoss(f)
  PROVE  /\ g.durable \in f.durable .. Len(f.recs)
         /\ g.recs = SubSeq(f.recs, 1, g.durable)
<1>1. f.recs \in Seq(R \cup {Garbage}) /\ f.durable \in Nat /\ Len(f.recs) \in Nat
  BY FileFields
<1>2. CASE f.durable = 0 /\ g = NoFile
  <2>1. SubSeq(f.recs, 1, 0) = <<>>
    BY <1>1
  <2>2. QED BY <1>1, <1>2, <2>1 DEF NoFile
<1>3. CASE \E k \in f.durable .. Len(f.recs), t \in BOOLEAN : g = Cut(f, k, t)
  <2>1. PICK k \in f.durable .. Len(f.recs), t \in BOOLEAN : g = Cut(f, k, t)
    BY <1>3
  <2>2. k \in 0 .. Len(f.recs)
    BY <1>1
  <2>3. QED BY <2>1, <2>2, CutType
<1>4. QED BY <1>2, <1>3 DEF AfterPowerLoss
=============================================================================

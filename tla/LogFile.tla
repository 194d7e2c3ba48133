------------------------------ MODULE LogFile ------------------------------
(***************************************************************************)
(* A file of fixed-size records, as ipc/append_log.rs writes it and every  *)
(* reader of shard.rs decodes it.  The bytes are abstracted to what a      *)
(* reader at stride size_of::<T>() sees:                                   *)
(*                                                                         *)
(*   recs     the whole-stride slots, each a record or Garbage (a slot     *)
(*            whose bytes straddle two writes);                            *)
(*   torn     there are bytes past the last whole slot;                    *)
(*   durable  how many slots have reached stable storage;                  *)
(*   exists   the directory entry is there.                                *)
(*                                                                         *)
(* Everything is a constant operator: the modules that write files keep    *)
(* the files in variables of their own.                                    *)
(***************************************************************************)
EXTENDS Integers, Sequences

CONSTANT Garbage     \* a slot that no reader can decode

NoFile == [recs |-> <<>>, torn |-> FALSE, durable |-> 0, exists |-> FALSE]

FileOf(R) == [recs : Seq(R \cup {Garbage}), torn : BOOLEAN,
              durable : Nat, exists : BOOLEAN]

(* File creation, and the torn-tail truncation of open_inner: set_len to   *)
(* the last whole stride.                                                  *)
(* OpenUntruncated is a wrong version of OpenFile that nothing uses: the   *)
(* properties of the writers are checked to fail with it.                  *)
OpenUntruncated(f) == [f EXCEPT !.exists = TRUE]
OpenFile(f) == [f EXCEPT !.exists = TRUE, !.torn = FALSE]

(* A slot more, with or without bytes left over.                           *)
Slot(f, r, t) == [f EXCEPT !.recs = Append(@, r), !.torn = t]

(* write_all of one record that succeeds.  Behind a torn fragment the      *)
(* record's bytes start at an unaligned offset: they complete the fragment *)
(* into a slot that decodes to neither, and leave as many bytes over.      *)
WriteRecord(f, r) == IF f.torn THEN Slot(f, Garbage, TRUE) ELSE Slot(f, r, FALSE)

(* write_all that stops half way (process killed, disk full): some bytes   *)
(* of the record, never all of them, are appended.                         *)
PartialWrites(f) ==
  {[f EXCEPT !.torn = TRUE]} \cup
  IF f.torn THEN {Slot(f, Garbage, t) : t \in BOOLEAN} ELSE {}

(* sync_data                                                               *)
Synced(f) == [f EXCEPT !.durable = Len(f.recs)]

(* The first k slots, with or without bytes left over; no fragment follows *)
(* the last slot unless one did before.                                    *)
Cut(f, k, t) == [f EXCEPT !.recs = SubSeq(f.recs, 1, k), !.durable = k,
                          !.torn = IF k < Len(f.recs) \/ f.torn THEN t ELSE FALSE]

(* What a power failure can leave of a file: any cut at or after the       *)
(* durable slots, and not even the directory entry of a file never synced. *)
AfterPowerLoss(f) ==
  {Cut(f, k, t) : k \in f.durable .. Len(f.recs), t \in BOOLEAN}
  \cup IF f.durable = 0 THEN {NoFile} ELSE {}

(* Every slot decodes to a record that some append wrote.                  *)
Clean(f) == Garbage \notin {f.recs[i] : i \in 1 .. Len(f.recs)}

LastRec(f) == f.recs[Len(f.recs)]
=============================================================================

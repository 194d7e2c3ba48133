----------------------------- MODULE AppendLog ------------------------------
(***************************************************************************)
(* ipc/append_log.rs AppendLog: when the records of one log reach stable   *)
(* storage.  A record is the time it was appended.  The sink is the file   *)
(* itself or a BufWriter over it; the barrier is the periodic sync inside  *)
(* append, an explicit flush, drop, or in group commit a sweeper's         *)
(* flush_buffer_only of the log followed by a sync of the file system.     *)
(*                                                                         *)
(* promised is history: the records that a barrier which has returned      *)
(* without an error covers.  A failed buffer flush is taken to write       *)
(* nothing; torn files of the unbuffered sink are the subject of IdxShard. *)
(*                                                                         *)
(* OpenBackdated, SyncedFirst and DueAfter are wrong versions of the       *)
(* definitions that follow them; no action uses them, and the properties   *)
(* are checked to fail with them.                                          *)
(***************************************************************************)
EXTENDS LogFile, SequencesExt

CONSTANTS
  Interval,    \* sync_interval
  Caps,        \* records the sink may buffer; 0 is the unbuffered sink
  \* bounds of the model
  MaxNow, MaxRecs, MaxKills, MaxOutages, MaxFaults

ASSUME ParamsAssumption == Interval \in Nat /\ Caps \subseteq Nat
ASSUME BoundsAssumption == {MaxNow, MaxRecs, MaxKills, MaxOutages, MaxFaults} \subseteq Nat

VARIABLES
  now,
  f,           \* the file
  buf,         \* records in the BufWriter
  cap,         \* its capacity
  open,
  group,       \* set_group_commit was called
  last_sync,
  swept,       \* records the sweep in progress has pushed to the file
  promised,
  kills, outages, faults

log  == <<buf, cap, open, group, last_sync, swept>>
env  == <<kills, outages, faults>>
vars == <<now, f, log, promised, env>>

Times   == 0 .. MaxNow
NoSweep == -1
Written(g, s) == [g EXCEPT !.recs = @ \o s]

-----------------------------------------------------------------------------
OpenBackdated(c) ==
  /\ ~open
  /\ f' = OpenFile(f)
  /\ open' = TRUE /\ buf' = <<>> /\ cap' = c /\ group' = FALSE
  /\ last_sync' = now - Interval /\ swept' = NoSweep
  /\ UNCHANGED <<now, promised, env>>

OpenLog(c) ==
  /\ ~open
  /\ f' = OpenFile(f)
  /\ open' = TRUE /\ buf' = <<>> /\ cap' = c /\ group' = FALSE
  /\ last_sync' = now /\ swept' = NoSweep
  /\ UNCHANGED <<now, promised, env>>

SetGroupCommit ==
  /\ open /\ ~group
  /\ group' = TRUE
  /\ UNCHANGED <<now, f, buf, cap, open, last_sync, swept, promised, env>>

(* write_all of the sink: a BufWriter without room writes out what it has. *)
Pushed(r) ==
  CASE cap = 0        -> [file |-> Written(f, <<r>>), buf |-> <<>>]
    [] Len(buf) < cap -> [file |-> f, buf |-> Append(buf, r)]
    [] OTHER          -> [file |-> Written(f, buf), buf |-> <<r>>]

(* A barrier over the file g and the buffer b: buf.flush(), then           *)
(* sync_data().  One of the two may fail.                                  *)
SyncedFirst(g, b, flushed, synced) ==
  /\ f' = Written(IF synced THEN Synced(g) ELSE g, IF flushed THEN b ELSE <<>>)
  /\ buf' = IF flushed THEN <<>> ELSE b
Barrier(g, b, flushed, synced) ==
  LET w == IF flushed THEN Written(g, b) ELSE g
  IN  /\ f' = IF synced THEN Synced(w) ELSE w
      /\ buf' = IF flushed THEN <<>> ELSE b

Outcome(flushed, synced) ==
  IF flushed /\ synced THEN faults' = faults
  ELSE /\ flushed \/ (synced /\ buf # <<>>)
       /\ faults < MaxFaults /\ faults' = faults + 1

DueAfter == ~group /\ now - last_sync > Interval
Due == ~group /\ now - last_sync >= Interval

HasRoom == Len(f.recs) + Len(buf) < MaxRecs

AppendRecord ==
  /\ open /\ HasRoom /\ ~Due
  /\ f' = Pushed(now).file /\ buf' = Pushed(now).buf
  /\ UNCHANGED <<now, cap, open, group, last_sync, swept, promised, env>>

(* An append that finds the interval over; its errors are logged, and the  *)
(* interval starts again whatever they are.                                *)
AppendAndSync ==
  /\ open /\ HasRoom /\ Due
  /\ \E flushed, synced \in BOOLEAN :
       /\ Outcome(flushed, synced)
       /\ Barrier(Pushed(now).file, Pushed(now).buf, flushed, synced)
  /\ last_sync' = now
  /\ UNCHANGED <<now, cap, open, group, swept, promised, kills, outages>>

(* flush: the first error is returned and ends the call.                   *)
Flush ==
  /\ open
  /\ \/ /\ Barrier(f, buf, TRUE, TRUE) /\ Outcome(TRUE, TRUE)
        /\ last_sync' = now
        /\ promised' = Len(f.recs) + Len(buf)
     \/ \E flushed \in BOOLEAN :
        /\ Barrier(f, buf, flushed, FALSE) /\ Outcome(flushed, ~flushed)
        /\ UNCHANGED <<last_sync, promised>>
  /\ UNCHANGED <<now, cap, open, group, swept, kills, outages>>

(* The group-commit sweep: flush_buffer_only, then one syncfs for every    *)
(* log, with appends of the writer thread in between.                      *)
FlushBufferOnly ==
  /\ open /\ group /\ swept = NoSweep
  /\ \E flushed \in BOOLEAN :
       /\ Barrier(f, buf, flushed, FALSE) /\ Outcome(flushed, TRUE)
       /\ swept' = IF flushed THEN Len(f.recs) + Len(buf) ELSE Len(f.recs)
  /\ UNCHANGED <<now, cap, open, group, last_sync, promised, kills, outages>>

SyncFs ==
  /\ swept # NoSweep
  /\ f' = Synced(f)
  /\ promised' = IF swept > promised THEN swept ELSE promised
  /\ swept' = NoSweep
  /\ UNCHANGED <<now, buf, cap, open, group, last_sync, env>>

(* Drop: the barrier again, its errors logged.                             *)
DropLog ==
  /\ open
  /\ \E flushed, synced \in BOOLEAN :
       /\ Outcome(flushed, synced)
       /\ Barrier(f, buf, flushed, synced)
       /\ promised' = IF flushed /\ synced THEN Len(f.recs) + Len(buf) ELSE promised
  /\ open' = FALSE /\ swept' = NoSweep
  /\ UNCHANGED <<now, cap, group, last_sync, kills, outages>>

-----------------------------------------------------------------------------
Tick ==
  /\ now < MaxNow
  /\ now' = now + 1
  /\ UNCHANGED <<f, log, promised, env>>

(* What the process had in user space is gone.                             *)
Kill ==
  /\ open /\ kills < MaxKills
  /\ kills' = kills + 1
  /\ open' = FALSE /\ buf' = <<>> /\ swept' = NoSweep
  /\ UNCHANGED <<now, f, cap, group, last_sync, promised, outages, faults>>

PowerLoss ==
  /\ outages < MaxOutages
  /\ outages' = outages + 1
  /\ open' = FALSE /\ buf' = <<>> /\ swept' = NoSweep
  /\ f' \in AfterPowerLoss(f)
  /\ UNCHANGED <<now, cap, group, last_sync, promised, kills, faults>>

Init ==
  /\ now = 0 /\ f = NoFile /\ buf = <<>> /\ cap \in Caps
  /\ open = FALSE /\ group = FALSE /\ last_sync = 0 /\ swept = NoSweep
  /\ promised = 0 /\ kills = 0 /\ outages = 0 /\ faults = 0

Next ==
  \/ \E c \in Caps : OpenLog(c)
  \/ SetGroupCommit \/ AppendRecord \/ AppendAndSync \/ Flush
  \/ FlushBufferOnly \/ SyncFs \/ DropLog
  \/ Tick \/ Kill \/ PowerLoss

Spec == Init /\ [][Next]_vars

-----------------------------------------------------------------------------
TypeOK ==
  /\ now \in Times /\ f \in FileOf(Times) /\ buf \in Seq(Times)
  /\ cap \in Caps /\ {open, group} \subseteq BOOLEAN
  /\ last_sync \in Times /\ swept \in Nat \cup {NoSweep} /\ promised \in Nat
  /\ kills \in 0 .. MaxKills /\ outages \in 0 .. MaxOutages /\ faults \in 0 .. MaxFaults

(* append_log.rs:11: flush is the barrier between specific appends, and    *)
(* drop makes a graceful shutdown fully durable.  What a barrier that      *)
(* returned without an error covers is in the file, and beyond the reach   *)
(* of a power failure, for ever.                                           *)
BarrierHolds == promised <= f.durable /\ f.durable <= Len(f.recs)

(* The records a power failure now would lose.                             *)
AtRisk == SubSeq(f.recs, f.durable + 1, Len(f.recs)) \o buf

(* append_log.rs:38: the loss on a power failure is bounded to Interval    *)
(* per writer.  Without group commit, the records at risk were appended    *)
(* within less than Interval of each other.  The interval restarts when a  *)
(* killed process's log is reopened and when a sync fails, over records    *)
(* that stay at risk, so both are excluded.                                *)
LossWindow ==
  (~group /\ AtRisk # <<>> /\ kills = 0 /\ faults = 0) =>
    Last(AtRisk) - Head(AtRisk) < Interval

-----------------------------------------------------------------------------
(* The inductive invariant.  A sweep turns the length that it saw into a   *)
(* promise only after its syncfs; until then that length stays within the  *)
(* file.                                                                   *)
SweepSound == swept <= Len(f.recs)
BarrierInv == TypeOK /\ BarrierHolds /\ SweepSound

(* A log that was closed without a kill or a fault left nothing at risk,   *)
(* and what is at risk was appended since the last sync began the interval *)
(* that is still running.                                                  *)
Unhurt == kills = 0 /\ faults = 0
ClosedIsDurable == (Unhurt /\ ~open) => f.durable = Len(f.recs) /\ buf = <<>>
SinceSync(t) == t \in Times /\ last_sync <= t /\ t < last_sync + Interval
RiskIsRecent ==
  (Unhurt /\ ~group) =>
    /\ \A i \in f.durable + 1 .. Len(f.recs) : SinceSync(f.recs[i])
    /\ \A i \in 1 .. Len(buf) : SinceSync(buf[i])

LossInv == last_sync <= now /\ ClosedIsDurable /\ RiskIsRecent

LogInv == BarrierInv /\ LossInv
=============================================================================

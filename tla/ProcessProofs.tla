---------------------------- MODULE ProcessProofs ----------------------------
(***************************************************************************)
(* Proofs about what every process of the fleet carries besides its        *)
(* shards, for every value of the constants: what a barrier of AppendLog   *)
(* promises and what the periodic sync bounds between barriers, for every  *)
(* interval, every buffer and any number of kills, power failures and      *)
(* faults; what the window of UdpAuth lets through, for every window,      *)
(* rate, age, number of entries and number of restarts; the clock of the   *)
(* liveness probe (TransportHealth); and the windows and quantiles of the  *)
(* latency histogram (LagHist), for every number of recorders and cells.   *)
(*                                                                         *)
(* BarrierHolds is not inductive by itself: a sweep turns the length that  *)
(* it saw into a promise only after its syncfs, so SweepSound keeps that   *)
(* length within the file until then.  LossWindow compares the ends of     *)
(* what is at risk; that both lie in the running interval (RiskIsRecent)   *)
(* needs that nothing at risk is left behind when a log is closed.  A      *)
(* window of the histogram is true when it is complete: CellInv says what  *)
(* every cell holds while a read is half way, and MaxInv whom the maximum  *)
(* still has to catch up with.                                             *)
(***************************************************************************)
EXTENDS MCProcess, LogFileProofs, Induction

-----------------------------------------------------------------------------
(* The append log (AppendLog).                                             *)

LEMMA Chain ==
  ASSUME NEW a \in Int, NEW wide \in Int, NEW c \in Int, a <= wide, wide <= c
  PROVE  a <= c
  OBVIOUS

(* Appending a sequence of records to a file keeps it one, and what it had *)
(* on stable storage.                                                      *)
LEMMA WrittenFacts ==
  ASSUME NEW R, NEW g \in FileOf(R), NEW s \in Seq(R)
  PROVE  /\ Written(g, s) \in FileOf(R)
         /\ Len(Written(g, s).recs) = Len(g.recs) + Len(s)
         /\ Written(g, s).durable = g.durable
<1>1. g.recs \in Seq(R \cup {Garbage}) /\ s \in Seq(R \cup {Garbage})
  <2>1. s \in Seq(R \cup {Garbage})
    <3>1. \A i \in 1 .. Len(s) : s[i] \in R \cup {Garbage}
      OBVIOUS
    <3> QED  BY <3>1
  <2> QED  BY <2>1, FileFields
<1>2. g.recs \o s \in Seq(R \cup {Garbage}) /\ Len(g.recs \o s) = Len(g.recs) + Len(s)
  BY <1>1
<1>3. Written(g, s) = [g EXCEPT !.recs = g.recs \o s]
  BY DEF Written
<1> QED  BY <1>2, <1>3 DEF FileOf

(* sync_data makes everything in the file durable.                         *)
LEMMA SyncedFacts ==
  ASSUME NEW R, NEW g \in FileOf(R)
  PROVE  /\ Synced(g) \in FileOf(R)
         /\ Synced(g).recs = g.recs
         /\ Synced(g).durable = Len(g.recs)
<1>1. Len(g.recs) \in Nat
  BY FileFields
<1> QED  BY <1>1, SyncedType DEF Synced, FileOf

(* The sink loses no record of the file and none of the buffer.            *)
LEMMA PushedFacts ==
  ASSUME NEW r \in Times, f \in FileOf(Times), buf \in Seq(Times), cap \in Nat
  PROVE  /\ Pushed(r).file \in FileOf(Times) /\ Pushed(r).buf \in Seq(Times)
         /\ Pushed(r).file.durable = f.durable
         /\ Len(Pushed(r).file.recs) >= Len(f.recs)
<1>1. <<r>> \in Seq(Times) /\ Append(buf, r) \in Seq(Times) /\ <<>> \in Seq(Times)
  OBVIOUS
<1>2. Len(f.recs) \in Nat /\ Len(buf) \in Nat /\ Len(<<r>>) = 1
  <2>1. Len(f.recs) \in Nat
    BY FileFields
  <2> QED  BY <2>1
<1>3. CASE cap = 0
  <2>1. Pushed(r) = [file |-> Written(f, <<r>>), buf |-> <<>>]
    BY <1>3 DEF Pushed
  <2>2. /\ Written(f, <<r>>) \in FileOf(Times)
        /\ Len(Written(f, <<r>>).recs) = Len(f.recs) + 1
        /\ Written(f, <<r>>).durable = f.durable
    BY <1>1, <1>2, WrittenFacts
  <2> QED  BY <1>1, <1>2, <2>1, <2>2
<1>4. CASE cap # 0 /\ Len(buf) < cap
  <2>1. Pushed(r) = [file |-> f, buf |-> Append(buf, r)]
    BY <1>4 DEF Pushed
  <2> QED  BY <1>1, <1>2, <2>1
<1>5. CASE cap # 0 /\ ~(Len(buf) < cap)
  <2>1. Pushed(r) = [file |-> Written(f, buf), buf |-> <<r>>]
    BY <1>5 DEF Pushed
  <2>2. /\ Written(f, buf) \in FileOf(Times)
        /\ Len(Written(f, buf).recs) = Len(f.recs) + Len(buf)
        /\ Written(f, buf).durable = f.durable
    BY WrittenFacts
  <2> QED  BY <1>1, <1>2, <2>1, <2>2
<1> QED  BY <1>3, <1>4, <1>5

(* A barrier never takes back what is durable, and one that succeeds makes *)
(* the file and the buffer durable.                                        *)
LEMMA BarrierFacts ==
  ASSUME NEW g \in FileOf(Times), NEW wide \in Seq(Times),
         NEW flushed \in BOOLEAN, NEW synced \in BOOLEAN,
         g.durable <= Len(g.recs), Barrier(g, wide, flushed, synced)
  PROVE  /\ f' \in FileOf(Times) /\ buf' \in Seq(Times)
         /\ g.durable <= f'.durable /\ f'.durable <= Len(f'.recs)
         /\ Len(g.recs) <= Len(f'.recs)
         /\ flushed => Len(f'.recs) = Len(g.recs) + Len(wide)
         /\ flushed /\ synced => f'.durable = Len(g.recs) + Len(wide)
<1> DEFINE w == IF flushed THEN Written(g, wide) ELSE g
<1>1. Len(g.recs) \in Nat /\ g.durable \in Nat /\ Len(wide) \in Nat
  <2>1. Len(g.recs) \in Nat /\ g.durable \in Nat
    BY FileFields
  <2> QED  BY <2>1
<1>2. /\ w \in FileOf(Times) /\ w.durable = g.durable
      /\ Len(w.recs) = IF flushed THEN Len(g.recs) + Len(wide) ELSE Len(g.recs)
  BY WrittenFacts
<1>3. f' = IF synced THEN Synced(w) ELSE w
  BY DEF Barrier
<1>4. buf' = IF flushed THEN <<>> ELSE wide
  BY DEF Barrier
<1> HIDE DEF w
<1>5. /\ Synced(w) \in FileOf(Times) /\ Synced(w).recs = w.recs
      /\ Synced(w).durable = Len(w.recs)
  BY <1>2, SyncedFacts
<1>6. CASE synced
  BY <1>1, <1>2, <1>3, <1>4, <1>5, <1>6
<1>7. CASE ~synced
  BY <1>1, <1>2, <1>3, <1>4, <1>7
<1> QED  BY <1>6, <1>7

-----------------------------------------------------------------------------
(* The files a power failure can leave: nothing that was durable is lost.  *)
LEMMA OutageFacts ==
  ASSUME NEW g \in FileOf(Times), NEW h \in AfterPowerLoss(g), g.durable <= Len(g.recs)
  PROVE  h \in FileOf(Times) /\ g.durable <= h.durable /\ h.durable <= Len(h.recs)
<1>1. Len(g.recs) \in Nat /\ g.durable \in Nat /\ g.recs \in Seq(Times \cup {Garbage})
  BY FileFields
<1>2. h \in FileOf(Times)
  BY AfterPowerLossType
<1>3. CASE h = NoFile /\ g.durable = 0
  BY <1>2, <1>3 DEF NoFile
<1>4. CASE \E k \in g.durable .. Len(g.recs), t \in BOOLEAN : h = Cut(g, k, t)
  <2>1. PICK k \in g.durable .. Len(g.recs), t \in BOOLEAN : h = Cut(g, k, t)
    BY <1>4
  <2>2. k \in Nat /\ k \in 0 .. Len(g.recs)
    BY <1>1
  <2>3. h.recs = SubSeq(g.recs, 1, k) /\ h.durable = k
    BY <2>1, <2>2, CutType
  <2>4. Len(SubSeq(g.recs, 1, k)) = k
    BY <1>1, <2>2
  <2> QED  BY <1>1, <1>2, <2>1, <2>2, <2>3, <2>4
<1> QED  BY <1>3, <1>4 DEF AfterPowerLoss

LEMMA InitInv == Init => BarrierInv
<1> SUFFICES ASSUME Init PROVE BarrierInv
  OBVIOUS
<1>1. 0 \in Times /\ NoFile \in FileOf(Times) /\ <<>> \in Seq(Times)
  BY BoundsAssumption, NoFileType DEF Times
<1>2. TypeOK
  <2>1. now \in Times /\ f \in FileOf(Times) /\ buf \in Seq(Times)
    BY <1>1 DEF Init
  <2>2. cap \in Caps /\ {open, group} \subseteq BOOLEAN
    BY DEF Init
  <2>3. last_sync \in Times /\ swept \in Nat \cup {NoSweep} /\ promised \in Nat
    BY <1>1 DEF Init
  <2>4. kills \in 0 .. MaxKills /\ outages \in 0 .. MaxOutages /\ faults \in 0 .. MaxFaults
    BY BoundsAssumption DEF Init
  <2> QED  BY <2>1, <2>2, <2>3, <2>4 DEF TypeOK
<1>3. BarrierHolds /\ SweepSound
  BY DEF Init, BarrierHolds, SweepSound, NoFile, NoSweep
<1> QED  BY <1>2, <1>3 DEF BarrierInv

(* Every step keeps the invariant.                                         *)
LEMMA NextInv == BarrierInv /\ [Next]_vars => BarrierInv'
<1> SUFFICES ASSUME BarrierInv, [Next]_vars PROVE BarrierInv'
  OBVIOUS
<1>1. /\ now \in Times /\ f \in FileOf(Times) /\ buf \in Seq(Times)
      /\ cap \in Caps /\ cap \in Nat /\ open \in BOOLEAN /\ group \in BOOLEAN
      /\ last_sync \in Times /\ swept \in Nat \cup {NoSweep} /\ promised \in Nat
      /\ kills \in 0 .. MaxKills /\ outages \in 0 .. MaxOutages /\ faults \in 0 .. MaxFaults
  BY ParamsAssumption DEF BarrierInv, TypeOK
<1>2. /\ Len(f.recs) \in Nat /\ f.durable \in Nat
      /\ promised <= f.durable /\ f.durable <= Len(f.recs) /\ swept <= Len(f.recs)
  BY <1>1, FileFields DEF BarrierInv, BarrierHolds, SweepSound
<1>3. /\ now \in Nat /\ MaxKills \in Nat /\ MaxOutages \in Nat /\ MaxFaults \in Nat
      /\ MaxNow \in Nat
  BY <1>1, BoundsAssumption DEF Times
<1>4. Len(buf) \in Nat /\ <<>> \in Seq(Times) /\ NoSweep \in Int /\ NoSweep < 0
  BY <1>1 DEF NoSweep
<1>inv. ASSUME /\ now' \in Times /\ f' \in FileOf(Times) /\ buf' \in Seq(Times)
              /\ cap' \in Caps /\ open' \in BOOLEAN /\ group' \in BOOLEAN
              /\ last_sync' \in Times /\ swept' \in Nat \cup {NoSweep} /\ promised' \in Nat
              /\ kills' \in 0 .. MaxKills /\ outages' \in 0 .. MaxOutages
              /\ faults' \in 0 .. MaxFaults,
              promised' <= f'.durable, f'.durable <= Len(f'.recs), swept' <= Len(f'.recs)
       PROVE  BarrierInv'
  <2>1. {open', group'} \subseteq BOOLEAN
    BY <1>inv
  <2>2. TypeOK'
    BY <1>inv, <2>1, Zenon DEF TypeOK
  <2>3. BarrierHolds' /\ SweepSound'
    BY <1>inv, Zenon DEF BarrierHolds, SweepSound
  <2> QED  BY <2>2, <2>3, Zenon DEF BarrierInv
<1>5. ASSUME NEW flushed \in BOOLEAN, NEW synced \in BOOLEAN, Outcome(flushed, synced)
      PROVE  faults' \in 0 .. MaxFaults
  BY <1>1, <1>3, <1>5 DEF Outcome
<1>6. ASSUME NEW c \in Caps, OpenLog(c)
      PROVE  BarrierInv'
  <2>1. /\ OpenFile(f) \in FileOf(Times) /\ OpenFile(f).recs = f.recs
        /\ OpenFile(f).durable = f.durable
    BY <1>1, OpenFileType DEF OpenFile, FileOf
  <2>2. f' = OpenFile(f) /\ swept' = NoSweep /\ promised' = promised
    BY <1>6 DEF OpenLog
  <2>3. TypeOK'
    <3>1. {open', group'} \subseteq BOOLEAN /\ cap' \in Caps
      BY <1>6 DEF OpenLog
    <3>2. now' \in Times /\ last_sync' \in Times /\ promised' \in Nat
      BY <1>1, <1>6 DEF OpenLog
    <3>3. kills' \in 0 .. MaxKills /\ outages' \in 0 .. MaxOutages /\ faults' \in 0 .. MaxFaults
      BY <1>1, <1>6 DEF OpenLog, env
    <3>4. f' \in FileOf(Times) /\ buf' \in Seq(Times) /\ swept' \in Nat \cup {NoSweep}
      BY <1>4, <1>6, <2>1, <2>2 DEF OpenLog
    <3> QED  BY <3>1, <3>2, <3>3, <3>4 DEF TypeOK
  <2>4. f'.recs = f.recs /\ f'.durable = f.durable
    BY <2>1, <2>2
  <2>5. BarrierHolds' /\ SweepSound'
    BY <1>2, <1>4, <2>2, <2>4 DEF BarrierHolds, SweepSound
  <2> QED  BY <2>3, <2>5 DEF BarrierInv
<1>7. CASE SetGroupCommit
  <2>1. /\ now' = now /\ f' = f /\ buf' = buf /\ cap' = cap /\ open' = open
        /\ group' \in BOOLEAN /\ last_sync' = last_sync /\ swept' = swept
        /\ promised' = promised /\ kills' = kills /\ outages' = outages /\ faults' = faults
    BY <1>7 DEF SetGroupCommit, env
  <2> QED  BY <1>1, <1>2, <1>inv, <2>1
<1>8. CASE AppendRecord
  <2>1. /\ f' \in FileOf(Times) /\ buf' \in Seq(Times)
        /\ f'.durable = f.durable /\ Len(f'.recs) >= Len(f.recs) /\ Len(f'.recs) \in Nat
    BY <1>1, <1>8, PushedFacts, FileFields DEF AppendRecord
  <2>2. /\ now' = now /\ cap' = cap /\ open' = open /\ group' = group
        /\ last_sync' = last_sync /\ swept' = swept /\ promised' = promised
        /\ kills' = kills /\ outages' = outages /\ faults' = faults
    BY <1>8 DEF AppendRecord, env
  <2>3. promised' <= f'.durable /\ f'.durable <= Len(f'.recs) /\ swept' <= Len(f'.recs)
    <3>1. swept \in Int
      BY <1>1, <1>4
    <3>2. swept <= Len(f'.recs)
      BY <1>2, <2>1, <3>1, Chain
    <3>3. f'.durable <= Len(f'.recs)
      BY <1>2, <2>1
    <3> QED  BY <1>2, <2>1, <2>2, <3>2, <3>3
  <2> QED  BY <1>1, <1>inv, <2>1, <2>2, <2>3
<1>9. CASE AppendAndSync
  <2>1. PICK flushed \in BOOLEAN, synced \in BOOLEAN :
          /\ Outcome(flushed, synced)
          /\ Barrier(Pushed(now).file, Pushed(now).buf, flushed, synced)
    BY <1>9 DEF AppendAndSync
  <2>2. /\ Pushed(now).file \in FileOf(Times) /\ Pushed(now).buf \in Seq(Times)
        /\ Pushed(now).file.durable = f.durable
        /\ Len(Pushed(now).file.recs) >= Len(f.recs) /\ Len(Pushed(now).file.recs) \in Nat
    BY <1>1, PushedFacts, FileFields
  <2>3. Pushed(now).file.durable <= Len(Pushed(now).file.recs)
    BY <1>2, <2>2
  <2>4. /\ f' \in FileOf(Times) /\ buf' \in Seq(Times)
        /\ f.durable <= f'.durable /\ f'.durable <= Len(f'.recs)
        /\ Len(Pushed(now).file.recs) <= Len(f'.recs)
    BY <2>1, <2>2, <2>3, BarrierFacts
  <2>5. f'.durable \in Nat /\ Len(f'.recs) \in Nat
    BY <2>4, FileFields
  <2>6. promised' <= f'.durable /\ swept' <= Len(f'.recs)
    <3>1. promised' = promised /\ swept' = swept
      BY <1>9 DEF AppendAndSync
    <3>2. swept \in Int /\ promised \in Int
      BY <1>1, <1>4
    <3>3. Len(f.recs) <= Len(f'.recs)
      BY <1>2, <2>2, <2>4, <2>5, Chain
    <3>4. promised <= f'.durable
      BY <1>2, <2>4, <2>5, <3>2, Chain
    <3>5. swept <= Len(f'.recs)
      BY <1>2, <2>5, <3>2, <3>3, Chain
    <3> QED  BY <3>1, <3>4, <3>5
  <2>7. /\ now' = now /\ cap' = cap /\ open' = open /\ group' = group /\ last_sync' = now
        /\ swept' = swept /\ promised' = promised /\ kills' = kills /\ outages' = outages
    BY <1>9 DEF AppendAndSync
  <2>8. faults' \in 0 .. MaxFaults
    BY <1>5, <2>1
  <2> QED  BY <1>1, <1>inv, <2>4, <2>6, <2>7, <2>8
<1>10. ASSUME NEW flushed \in BOOLEAN, NEW synced \in BOOLEAN, Barrier(f, buf, flushed, synced)
       PROVE  /\ f' \in FileOf(Times) /\ buf' \in Seq(Times)
              /\ f.durable <= f'.durable /\ f'.durable <= Len(f'.recs)
              /\ Len(f.recs) <= Len(f'.recs)
              /\ flushed => Len(f'.recs) = Len(f.recs) + Len(buf)
              /\ flushed /\ synced => f'.durable = Len(f.recs) + Len(buf)
              /\ f'.durable \in Nat /\ Len(f'.recs) \in Nat
  <2>1. /\ f' \in FileOf(Times) /\ buf' \in Seq(Times)
        /\ f.durable <= f'.durable /\ f'.durable <= Len(f'.recs)
        /\ Len(f.recs) <= Len(f'.recs)
        /\ flushed => Len(f'.recs) = Len(f.recs) + Len(buf)
        /\ flushed /\ synced => f'.durable = Len(f.recs) + Len(buf)
    BY <1>1, <1>2, <1>10, BarrierFacts
  <2> QED  BY <2>1, FileFields
<1>11. CASE Flush
  <2>1. CASE /\ Barrier(f, buf, TRUE, TRUE) /\ Outcome(TRUE, TRUE)
             /\ last_sync' = now
             /\ promised' = Len(f.recs) + Len(buf)
    <3>1. /\ f' \in FileOf(Times) /\ buf' \in Seq(Times)
          /\ f'.durable = Len(f.recs) + Len(buf) /\ f'.durable <= Len(f'.recs)
          /\ Len(f.recs) <= Len(f'.recs) /\ Len(f'.recs) \in Nat
      BY <1>10, <2>1
    <3>2. /\ now' = now /\ cap' = cap /\ open' = open /\ group' = group
          /\ swept' = swept /\ kills' = kills /\ outages' = outages
      BY <1>11 DEF Flush
    <3>3. promised' \in Nat /\ promised' <= f'.durable
      BY <1>2, <1>4, <2>1, <3>1
    <3>4. swept' <= Len(f'.recs)
      <4>1. swept \in Int
        BY <1>1, <1>4
      <4> QED  BY <1>2, <3>1, <3>2, <4>1, Chain
    <3>5. faults' \in 0 .. MaxFaults
      BY <1>5, <2>1
    <3> QED  BY <1>1, <1>inv, <2>1, <3>1, <3>2, <3>3, <3>4, <3>5
  <2>2. CASE \E flushed \in BOOLEAN :
               /\ Barrier(f, buf, flushed, FALSE) /\ Outcome(flushed, ~flushed)
               /\ UNCHANGED <<last_sync, promised>>
    <3>1. PICK flushed \in BOOLEAN :
               /\ Barrier(f, buf, flushed, FALSE) /\ Outcome(flushed, ~flushed)
               /\ UNCHANGED <<last_sync, promised>>
      BY <2>2
    <3>2. /\ f' \in FileOf(Times) /\ buf' \in Seq(Times)
          /\ f.durable <= f'.durable /\ f'.durable <= Len(f'.recs)
          /\ Len(f.recs) <= Len(f'.recs) /\ f'.durable \in Nat /\ Len(f'.recs) \in Nat
      BY <1>10, <3>1
    <3>3. /\ now' = now /\ cap' = cap /\ open' = open /\ group' = group
          /\ swept' = swept /\ kills' = kills /\ outages' = outages
      BY <1>11 DEF Flush
    <3>4. promised' <= f'.durable
      BY <1>1, <1>2, <3>1, <3>2, Chain
    <3>5. swept' <= Len(f'.recs)
      <4>1. swept \in Int
        BY <1>1, <1>4
      <4> QED  BY <1>2, <3>2, <3>3, <4>1, Chain
    <3>6. faults' \in 0 .. MaxFaults
      BY <1>5, <3>1
    <3> QED  BY <1>1, <1>inv, <3>1, <3>2, <3>3, <3>4, <3>5, <3>6
  <2> QED  BY <1>11, <2>1, <2>2 DEF Flush
<1>12. CASE FlushBufferOnly
  <2>1. PICK flushed \in BOOLEAN :
          /\ Barrier(f, buf, flushed, FALSE) /\ Outcome(flushed, TRUE)
          /\ swept' = IF flushed THEN Len(f.recs) + Len(buf) ELSE Len(f.recs)
    BY <1>12 DEF FlushBufferOnly
  <2>2. /\ f' \in FileOf(Times) /\ buf' \in Seq(Times)
        /\ f.durable <= f'.durable /\ f'.durable <= Len(f'.recs)
        /\ Len(f.recs) <= Len(f'.recs) /\ f'.durable \in Nat /\ Len(f'.recs) \in Nat
        /\ flushed => Len(f'.recs) = Len(f.recs) + Len(buf)
    BY <1>10, <2>1
  <2>3. swept' \in Nat /\ swept' <= Len(f'.recs)
    BY <1>2, <1>4, <2>1, <2>2
  <2>4. /\ now' = now /\ cap' = cap /\ open' = open /\ group' = group
        /\ last_sync' = last_sync /\ promised' = promised
        /\ kills' = kills /\ outages' = outages
    BY <1>12 DEF FlushBufferOnly
  <2>5. promised' <= f'.durable
    BY <1>1, <1>2, <2>2, <2>4, Chain
  <2>6. faults' \in 0 .. MaxFaults
    BY <1>5, <2>1
  <2> QED  BY <1>1, <1>inv, <2>2, <2>3, <2>4, <2>5, <2>6
<1>13. CASE SyncFs
  <2>1. f' \in FileOf(Times) /\ f'.recs = f.recs /\ f'.durable = Len(f.recs)
    BY <1>1, <1>13, SyncedFacts DEF SyncFs
  <2>2. /\ promised' = IF swept > promised THEN swept ELSE promised
        /\ swept \in Nat /\ swept' = NoSweep
    BY <1>1, <1>13 DEF SyncFs
  <2>3. promised' \in Nat /\ promised' <= f'.durable
    <3>1. promised <= Len(f.recs)
      BY <1>1, <1>2, Chain
    <3> QED  BY <1>1, <1>2, <2>1, <2>2, <3>1
  <2>4. swept' <= Len(f'.recs) /\ f'.durable <= Len(f'.recs)
    BY <1>2, <1>4, <2>1, <2>2
  <2>5. /\ now' = now /\ buf' = buf /\ cap' = cap /\ open' = open /\ group' = group
        /\ last_sync' = last_sync /\ kills' = kills /\ outages' = outages
        /\ faults' = faults
    BY <1>13 DEF SyncFs, env
  <2> QED  BY <1>1, <1>inv, <2>1, <2>2, <2>3, <2>4, <2>5
<1>14. CASE DropLog
  <2>1. PICK flushed \in BOOLEAN, synced \in BOOLEAN :
          /\ Outcome(flushed, synced) /\ Barrier(f, buf, flushed, synced)
          /\ promised' = IF flushed /\ synced THEN Len(f.recs) + Len(buf) ELSE promised
    BY <1>14 DEF DropLog
  <2>2. /\ f' \in FileOf(Times) /\ buf' \in Seq(Times)
        /\ f.durable <= f'.durable /\ f'.durable <= Len(f'.recs)
        /\ f'.durable \in Nat /\ Len(f'.recs) \in Nat
        /\ flushed /\ synced => f'.durable = Len(f.recs) + Len(buf)
    BY <1>10, <2>1
  <2>3. promised' \in Nat /\ promised' <= f'.durable
    BY <1>1, <1>2, <1>4, <2>1, <2>2
  <2>4. swept' = NoSweep /\ swept' <= Len(f'.recs)
    BY <1>4, <1>14, <2>2 DEF DropLog
  <2>5. /\ now' = now /\ cap' = cap /\ open' = FALSE /\ group' = group
        /\ last_sync' = last_sync /\ kills' = kills /\ outages' = outages
    BY <1>14 DEF DropLog
  <2>6. faults' \in 0 .. MaxFaults
    BY <1>5, <2>1
  <2> QED  BY <1>1, <1>inv, <2>2, <2>3, <2>4, <2>5, <2>6
<1>15. CASE Tick
  <2>1. /\ f' = f /\ buf' = buf /\ cap' = cap /\ open' = open
        /\ group' = group /\ last_sync' = last_sync /\ swept' = swept
        /\ promised' = promised /\ kills' = kills /\ outages' = outages /\ faults' = faults
    BY <1>15 DEF Tick, env, log
  <2>2. now' \in Times
    BY <1>3, <1>15 DEF Tick, Times
  <2> QED  BY <1>1, <1>2, <1>inv, <2>1, <2>2
<1>16. CASE Kill
  <2>1. {open', group'} \subseteq BOOLEAN /\ cap' \in Caps
    BY <1>1, <1>16 DEF Kill
  <2>2. kills' \in 0 .. MaxKills /\ outages' \in 0 .. MaxOutages /\ faults' \in 0 .. MaxFaults
    BY <1>1, <1>3, <1>16 DEF Kill
  <2>3. /\ now' \in Times /\ last_sync' \in Times /\ promised' \in Nat
        /\ f' \in FileOf(Times) /\ buf' \in Seq(Times) /\ swept' \in Nat \cup {NoSweep}
    BY <1>1, <1>4, <1>16 DEF Kill
  <2>4. BarrierHolds' /\ SweepSound'
    BY <1>2, <1>4, <1>16 DEF Kill, BarrierHolds, SweepSound
  <2> QED  BY <2>1, <2>2, <2>3, <2>4 DEF BarrierInv, TypeOK
<1>17. CASE PowerLoss
  <2>1. /\ f' \in FileOf(Times) /\ f.durable <= f'.durable /\ f'.durable <= Len(f'.recs)
        /\ f'.durable \in Nat /\ Len(f'.recs) \in Nat
    BY <1>1, <1>2, <1>17, OutageFacts, FileFields DEF PowerLoss
  <2>2. promised' <= f'.durable /\ swept' <= Len(f'.recs) /\ swept' = NoSweep
    BY <1>1, <1>2, <1>4, <1>17, <2>1 DEF PowerLoss
  <2>3. {open', group'} \subseteq BOOLEAN /\ cap' \in Caps
    BY <1>1, <1>17 DEF PowerLoss
  <2>4. kills' \in 0 .. MaxKills /\ outages' \in 0 .. MaxOutages /\ faults' \in 0 .. MaxFaults
    BY <1>1, <1>3, <1>17 DEF PowerLoss
  <2>5. /\ now' \in Times /\ last_sync' \in Times /\ promised' \in Nat
        /\ buf' \in Seq(Times) /\ swept' \in Nat \cup {NoSweep}
    BY <1>1, <1>4, <1>17 DEF PowerLoss
  <2> QED  BY <2>1, <2>2, <2>3, <2>4, <2>5 DEF BarrierInv, TypeOK, BarrierHolds, SweepSound
<1>18. CASE UNCHANGED vars
  <2>1. /\ now' = now /\ f' = f /\ buf' = buf /\ cap' = cap /\ open' = open
        /\ group' = group /\ last_sync' = last_sync /\ swept' = swept
        /\ promised' = promised /\ kills' = kills /\ outages' = outages /\ faults' = faults
    BY <1>18 DEF vars, log, env
  <2> QED  BY <1>1, <1>2, <1>inv, <2>1
<1> QED  BY <1>6, <1>7, <1>8, <1>9, <1>11, <1>12, <1>13, <1>14, <1>15, <1>16, <1>17, <1>18
         DEF Next

(* The strengthened invariant, for every value of the constants.           *)
THEOREM BarriersInductive == Spec => []BarrierInv
<1> QED  BY InitInv, NextInv, PTL DEF Spec

(* The state of a log is well typed.                                       *)
THEOREM LogTypeCorrect == Spec => []TypeOK
<1>1. BarrierInv => TypeOK
  BY DEF BarrierInv
<1> QED  BY <1>1, BarriersInductive, PTL

(* append_log.rs:11: what a barrier without an error covered stays in the  *)
(* file and beyond the reach of a power failure.                           *)
THEOREM BarriersHold == Spec => []BarrierHolds
<1>1. BarrierInv => BarrierHolds
  BY DEF BarrierInv
<1> QED  BY <1>1, BarriersInductive, PTL

-----------------------------------------------------------------------------
(* The loss window.                                                        *)

(* A barrier that wholly succeeds leaves nothing at risk.                  *)
LEMMA FullBarrier ==
  ASSUME NEW g \in FileOf(Times), NEW wide \in Seq(Times), Barrier(g, wide, TRUE, TRUE)
  PROVE  f'.durable = Len(f'.recs) /\ buf' = <<>>
<1>1. Written(g, wide) \in FileOf(Times)
  BY WrittenFacts
<1>2. f' = Synced(Written(g, wide)) /\ buf' = <<>>
  BY DEF Barrier
<1>3. QED BY <1>1, <1>2, SyncedFacts

LEMMA Concatenated ==
  ASSUME NEW S, NEW s \in Seq(S), NEW t \in Seq(S)
  PROVE  /\ s \o t \in Seq(S) /\ Len(s) \in Nat /\ Len(s \o t) = Len(s) + Len(t)
         /\ \A i \in 1 .. Len(s \o t) :
              \/ i \in 1 .. Len(s) /\ (s \o t)[i] = s[i]
              \/ i - Len(s) \in 1 .. Len(t) /\ i > Len(s) /\ (s \o t)[i] = t[i - Len(s)]
  OBVIOUS

(* The records an append adds to the file and the buffer: the new one, and *)
(* what was in the buffer.                                                 *)
LEMMA PushedRecent ==
  ASSUME f \in FileOf(Times), buf \in Seq(Times), cap \in Nat, f.durable <= Len(f.recs),
         NEW r \in Times, SinceSync(r),
         \A i \in f.durable + 1 .. Len(f.recs) : SinceSync(f.recs[i]),
         \A i \in 1 .. Len(buf) : SinceSync(buf[i])
  PROVE  /\ \A i \in f.durable + 1 .. Len(Pushed(r).file.recs) : SinceSync(Pushed(r).file.recs[i])
         /\ \A i \in 1 .. Len(Pushed(r).buf) : SinceSync(Pushed(r).buf[i])
<1>1. f.recs \in Seq(Times \cup {Garbage}) /\ Len(f.recs) \in Nat /\ f.durable \in Nat
  BY FileFields
<1>2. ASSUME NEW s \in Seq(Times), \A i \in 1 .. Len(s) : SinceSync(s[i])
      PROVE  \A i \in f.durable + 1 .. Len(Written(f, s).recs) : SinceSync(Written(f, s).recs[i])
  <2>1. Written(f, s).recs = f.recs \o s
    BY DEF Written, FileOf
  <2>2. s \in Seq(Times \cup {Garbage}) /\ Len(s) \in Nat
    <3>1. \A i \in 1 .. Len(s) : s[i] \in Times \cup {Garbage}
      OBVIOUS
    <3>2. QED BY <3>1
  <2>3. SUFFICES ASSUME NEW i \in f.durable + 1 .. Len(f.recs \o s)
                 PROVE  SinceSync((f.recs \o s)[i])
    BY <2>1
  <2>4. i \in 1 .. Len(f.recs \o s)
    BY <1>1
  <2>5. CASE i \in 1 .. Len(f.recs) /\ (f.recs \o s)[i] = f.recs[i]
    <3>1. i \in f.durable + 1 .. Len(f.recs)
      BY <1>1, <2>3, <2>5
    <3>2. QED BY <2>5, <3>1
  <2>6. CASE i - Len(f.recs) \in 1 .. Len(s) /\ (f.recs \o s)[i] = s[i - Len(f.recs)]
    BY <1>2, <2>6
  <2>7. QED BY <1>1, <2>2, <2>4, <2>5, <2>6, Concatenated
<1>3. <<r>> \in Seq(Times) /\ Len(<<r>>) = 1 /\ <<r>>[1] = r
      /\ Append(buf, r) \in Seq(Times) /\ Len(Append(buf, r)) = Len(buf) + 1
      /\ \A i \in 1 .. Len(buf) + 1 : Append(buf, r)[i] = IF i = Len(buf) + 1 THEN r ELSE buf[i]
  OBVIOUS
<1>4. \A i \in 1 .. Len(<<r>>) : SinceSync(<<r>>[i])
  BY <1>3
<1>5. CASE cap = 0
  <2>1. Pushed(r) = [file |-> Written(f, <<r>>), buf |-> <<>>]
    BY <1>5 DEF Pushed
  <2>2. \A i \in f.durable + 1 .. Len(Written(f, <<r>>).recs) :
          SinceSync(Written(f, <<r>>).recs[i])
    BY <1>2, <1>3, <1>4
  <2>3. Len(<<>>) = 0
    OBVIOUS
  <2>4. QED BY <2>1, <2>2, <2>3
<1>6. CASE cap # 0 /\ Len(buf) < cap
  <2>1. Pushed(r) = [file |-> f, buf |-> Append(buf, r)]
    BY <1>6 DEF Pushed
  <2>2. \A i \in 1 .. Len(buf) + 1 : SinceSync(Append(buf, r)[i])
    BY <1>3
  <2>3. QED BY <1>3, <2>1, <2>2
<1>7. CASE cap # 0 /\ ~(Len(buf) < cap)
  <2>1. Pushed(r) = [file |-> Written(f, buf), buf |-> <<r>>]
    BY <1>7 DEF Pushed
  <2>2. QED BY <1>2, <1>4, <2>1
<1>8. QED BY <1>5, <1>6, <1>7

LEMMA LossStep == BarrierInv /\ LossInv /\ [Next]_vars => LossInv'
<1> SUFFICES ASSUME BarrierInv, LossInv, [Next]_vars PROVE LossInv'
  OBVIOUS
<1>0. TypeOK /\ f.durable <= Len(f.recs)
  BY DEF BarrierInv, BarrierHolds
<1>1. /\ f \in FileOf(Times) /\ buf \in Seq(Times) /\ now \in Times /\ last_sync \in Times
      /\ cap \in Nat /\ kills \in Nat /\ faults \in Nat /\ f.durable <= Len(f.recs)
      /\ Len(f.recs) \in Nat /\ f.durable \in Nat
  <2>1. f \in FileOf(Times) /\ buf \in Seq(Times) /\ now \in Times /\ last_sync \in Times
    BY <1>0 DEF TypeOK
  <2>2. cap \in Nat /\ kills \in Nat /\ faults \in Nat
    BY <1>0, ParamsAssumption, BoundsAssumption DEF TypeOK
  <2>3. QED BY <1>0, <2>1, <2>2, FileFields
<1>2. last_sync' <= now'
  <2>1. /\ now' = now \/ (now' = now + 1 /\ last_sync' = last_sync)
        /\ last_sync' = last_sync \/ last_sync' = now
    BY DEF Next, vars, log, OpenLog, SetGroupCommit, AppendRecord, AppendAndSync, Flush,
           FlushBufferOnly, SyncFs, DropLog, Tick, Kill, PowerLoss
  <2>2. now \in Int /\ last_sync \in Int
    BY <1>1 DEF Times
  <2>3. QED BY <2>1, <2>2 DEF LossInv
<1>3. SUFFICES ASSUME Unhurt' PROVE ClosedIsDurable' /\ RiskIsRecent'
  BY <1>2 DEF LossInv, ClosedIsDurable, RiskIsRecent, SinceSync
<1>4. Unhurt
  <2>1. kills' \in {kills, kills + 1} /\ faults' \in {faults, faults + 1}
    BY DEF Next, vars, env, OpenLog, SetGroupCommit, AppendRecord, AppendAndSync, Flush,
           FlushBufferOnly, SyncFs, DropLog, Tick, Kill, PowerLoss, Outcome
  <2>2. QED BY <1>1, <1>3, <2>1 DEF Unhurt
<1>5. ASSUME f'.durable = Len(f'.recs), buf' = <<>> PROVE ClosedIsDurable' /\ RiskIsRecent'
  <2>1. ClosedIsDurable'
    BY <1>5 DEF ClosedIsDurable
  <2>2. Len(f'.recs) \in Nat => f'.durable + 1 .. Len(f'.recs) = {}
    BY <1>5
  <2>3. Len(f'.recs) \in Nat
    <3>1. f' \in FileOf(Times)
      BY NextInv DEF BarrierInv, TypeOK
    <3>2. QED BY <3>1, FileFields
  <2>4. RiskIsRecent'
    BY <1>5, <2>2, <2>3 DEF RiskIsRecent
  <2>5. QED BY <2>1, <2>4
<1>6. ASSUME f'.recs = f.recs, f'.durable = f.durable, buf' = buf, open' = open, group' = group,
             last_sync' = last_sync
      PROVE  ClosedIsDurable' /\ RiskIsRecent'
  BY <1>4, <1>6 DEF LossInv, ClosedIsDurable, RiskIsRecent, SinceSync, Unhurt
<1>7. \A flushed, synced \in BOOLEAN : Outcome(flushed, synced) => flushed /\ synced
  BY <1>1, <1>3, <1>4 DEF Outcome, Unhurt
<1>8. CASE \E c \in Caps : OpenLog(c)
  <2>1. f.durable = Len(f.recs) /\ buf = <<>>
    BY <1>4, <1>8 DEF OpenLog, LossInv, ClosedIsDurable
  <2>2. f' = OpenFile(f) /\ buf' = <<>>
    BY <1>8 DEF OpenLog
  <2>3. OpenFile(f).recs = f.recs /\ OpenFile(f).durable = f.durable
    BY <1>1, OpenFileType, DurableSlots
  <2>4. QED BY <1>5, <2>1, <2>2, <2>3
<1>9. CASE SetGroupCommit
  BY <1>9 DEF SetGroupCommit, ClosedIsDurable, RiskIsRecent
<1>10. CASE AppendRecord
  <2>1. open /\ open' = open /\ group' = group /\ last_sync' = last_sync
        /\ f' = Pushed(now).file /\ buf' = Pushed(now).buf
    BY <1>10 DEF AppendRecord
  <2>2. ASSUME ~group PROVE RiskIsRecent'
    <3>1. SinceSync(now)
      <4>1. ~(now - last_sync >= Interval)
        BY <1>10, <2>2 DEF AppendRecord, Due
      <4>2. now \in Int /\ last_sync \in Int /\ Interval \in Int
        BY <1>1, ParamsAssumption DEF Times
      <4>3. QED BY <1>1, <4>1, <4>2 DEF SinceSync, LossInv
    <3>2. /\ \A i \in f.durable + 1 .. Len(f.recs) : SinceSync(f.recs[i])
          /\ \A i \in 1 .. Len(buf) : SinceSync(buf[i])
      BY <1>4, <2>2 DEF LossInv, RiskIsRecent
    <3>3. /\ \A i \in f.durable + 1 .. Len(f'.recs) : SinceSync(f'.recs[i])
          /\ \A i \in 1 .. Len(buf') : SinceSync(buf'[i])
      BY <1>1, <2>1, <3>1, <3>2, PushedRecent
    <3>4. f'.durable = f.durable
      BY <1>1, <2>1, PushedFacts
    <3>5. QED BY <2>1, <3>3, <3>4 DEF RiskIsRecent, SinceSync
  <2>3. QED BY <2>1, <2>2 DEF ClosedIsDurable, RiskIsRecent
<1>11. CASE AppendAndSync
  <2>1. Barrier(Pushed(now).file, Pushed(now).buf, TRUE, TRUE)
    BY <1>7, <1>11 DEF AppendAndSync
  <2>2. Pushed(now).file \in FileOf(Times) /\ Pushed(now).buf \in Seq(Times)
    BY <1>1, PushedFacts
  <2>3. QED BY <1>5, <2>1, <2>2, FullBarrier
<1>12. CASE Flush
  <2>1. Barrier(f, buf, TRUE, TRUE)
    BY <1>7, <1>12 DEF Flush
  <2>2. QED BY <1>1, <1>5, <2>1, FullBarrier
<1>13. CASE FlushBufferOnly
  BY <1>13 DEF FlushBufferOnly, ClosedIsDurable, RiskIsRecent
<1>14. CASE SyncFs
  <2>1. f' = Synced(f) /\ UNCHANGED <<buf, open, group, last_sync>>
    BY <1>14 DEF SyncFs
  <2>2. f'.recs = f.recs /\ f'.durable = Len(f.recs)
    BY <1>1, <2>1, SyncedFacts
  <2>3. ClosedIsDurable'
    BY <1>4, <2>1, <2>2 DEF LossInv, ClosedIsDurable
  <2>4. RiskIsRecent'
    <3>1. f'.durable + 1 .. Len(f'.recs) = {}
      BY <1>1, <2>2
    <3>2. QED BY <1>4, <2>1, <3>1 DEF LossInv, RiskIsRecent, SinceSync
  <2>5. QED BY <2>3, <2>4
<1>15. CASE DropLog
  <2>1. Barrier(f, buf, TRUE, TRUE)
    BY <1>7, <1>15 DEF DropLog
  <2>2. QED BY <1>1, <1>5, <2>1, FullBarrier
<1>16. CASE Tick \/ UNCHANGED vars
  BY <1>6, <1>16 DEF Tick, vars, log
<1>17. CASE Kill
  <2>1. kills' = kills + 1
    BY <1>17 DEF Kill
  <2>2. QED BY <1>1, <1>3, <2>1 DEF Unhurt
<1>18. CASE PowerLoss
  <2>1. f' \in AfterPowerLoss(f) /\ buf' = <<>>
    BY <1>18 DEF PowerLoss
  <2>2. f'.durable \in f.durable .. Len(f.recs) /\ f'.recs = SubSeq(f.recs, 1, f'.durable)
    BY <1>1, <2>1, DurableCut
  <2>3. f.recs \in Seq(Times \cup {Garbage})
    BY <1>1, FileFields
  <2>4. f'.durable \in Nat /\ f'.durable <= Len(f.recs)
    BY <1>1, <2>2
  <2>5. Len(f'.recs) = f'.durable
    BY <2>2, <2>3, <2>4
  <2>6. QED BY <1>5, <2>1, <2>5
<1>19. QED BY <1>8, <1>9, <1>10, <1>11, <1>12, <1>13, <1>14, <1>15, <1>16, <1>17, <1>18 DEF Next

(* The whole inductive invariant of a log.                                 *)
THEOREM LogInductive == Spec => []LogInv
<1>1. Init => LossInv
  BY DEF Init, LossInv, ClosedIsDurable, RiskIsRecent, NoFile
<1>2. BarrierInv /\ LossInv /\ [Next]_vars => LossInv'
  BY LossStep
<1>3. BarrierInv /\ LossInv => LogInv
  BY DEF LogInv
<1>4. QED BY <1>1, <1>2, <1>3, BarriersInductive, PTL DEF Spec

LEMMA AfterCut ==
  ASSUME NEW X, NEW v \in Seq(X), NEW d \in Nat, d <= Len(v)
  PROVE  /\ SubSeq(v, d + 1, Len(v)) \in Seq(X) /\ Len(SubSeq(v, d + 1, Len(v))) = Len(v) - d
         /\ \A i \in 1 .. Len(v) - d : SubSeq(v, d + 1, Len(v))[i] = v[d + i]
  OBVIOUS

(* append_log.rs:38: without group commit, what a power failure can take   *)
(* was appended within less than Interval, for every interval and buffer,  *)
(* as long as the process is not killed and no sync fails.                 *)
THEOREM LossIsBounded == Spec => []LossWindow
<1>1. LogInv => LossWindow
  <2> SUFFICES ASSUME LogInv, ~group, AtRisk # <<>>, Unhurt
               PROVE  Last(AtRisk) - Head(AtRisk) < Interval
    BY DEF LossWindow, Unhurt
  <2>1. /\ f.recs \in Seq(Times \cup {Garbage}) /\ Len(f.recs) \in Nat /\ f.durable \in Nat
        /\ f.durable <= Len(f.recs) /\ buf \in Seq(Times) /\ last_sync \in Nat
        /\ Len(buf) \in Nat
    <3>1. TypeOK /\ f.durable <= Len(f.recs)
      BY DEF LogInv, BarrierInv, BarrierHolds
    <3>2. f \in FileOf(Times) /\ buf \in Seq(Times) /\ last_sync \in Nat
      BY <3>1 DEF TypeOK, Times
    <3>3. Len(buf) \in Nat
      BY <3>2
    <3>4. QED BY <3>1, <3>2, <3>3, FileFields
  <2>2. /\ \A i \in f.durable + 1 .. Len(f.recs) : SinceSync(f.recs[i])
        /\ \A i \in 1 .. Len(buf) : SinceSync(buf[i])
    BY DEF LogInv, LossInv, RiskIsRecent
  <2> DEFINE n == Len(f.recs) - f.durable
             s == SubSeq(f.recs, f.durable + 1, Len(f.recs))
  <2>3. s \in Seq(Times \cup {Garbage}) /\ Len(s) = n
        /\ \A i \in 1 .. n : s[i] = f.recs[f.durable + i]
    BY <2>1, AfterCut
  <2>4. \A i \in 1 .. n : f.durable + i \in f.durable + 1 .. Len(f.recs)
    BY <2>1
  <2>5. \A i \in 1 .. Len(s) : SinceSync(s[i])
    BY <2>2, <2>3, <2>4
  <2> HIDE DEF s, n
  <2>6. buf \in Seq(Times \cup {Garbage})
    <3>1. \A i \in 1 .. Len(buf) : buf[i] \in Times \cup {Garbage}
      BY <2>1
    <3>2. QED BY <2>1, <3>1
  <2>7. AtRisk = s \o buf
    BY DEF AtRisk, s
  <2>8. \A i \in 1 .. Len(AtRisk) : SinceSync(AtRisk[i])
    BY <2>2, <2>3, <2>5, <2>6, <2>7, Concatenated
  <2>9. 1 \in 1 .. Len(AtRisk) /\ Len(AtRisk) \in 1 .. Len(AtRisk)
    <3>1. AtRisk \in Seq(Times \cup {Garbage})
      BY <2>3, <2>6, <2>7, Concatenated
    <3>2. QED BY <3>1
  <2>10. Head(AtRisk) = AtRisk[1] /\ Last(AtRisk) = AtRisk[Len(AtRisk)]
    BY DEF Last
  <2>11. SinceSync(Head(AtRisk)) /\ SinceSync(Last(AtRisk))
    BY <2>8, <2>9, <2>10
  <2>12. Interval \in Int /\ Times \subseteq Int
    BY ParamsAssumption DEF Times
  <2>13. /\ Head(AtRisk) \in Int /\ last_sync <= Head(AtRisk)
         /\ Last(AtRisk) \in Int /\ Last(AtRisk) < last_sync + Interval
    BY <2>11, <2>12 DEF SinceSync
  <2>14. QED BY <2>1, <2>12, <2>13
<1>2. QED BY <1>1, LogInductive, PTL

-----------------------------------------------------------------------------
(* Arithmetic: multiples, quotients and slots.                             *)

LEMMA Multiples ==
  ASSUME NEW wide \in Nat \ {0}, NEW k \in Int, NEW t \in Int, wide * k = t
  PROVE  /\ t > 0 => k >= 1 /\ t >= wide
         /\ t < wide => k <= 0
         /\ t < 2 * wide => k <= 1
<1>1. k >= 1 => wide * k >= wide
  BY SMT
<1>2. k <= 0 => wide * k <= 0
  BY SMT
<1>3. k >= 2 => wide * k >= 2 * wide
  BY SMT
<1>4. QED BY <1>1, <1>2, <1>3

(* A slot is marked again one turn of the ring later, and not before.      *)
LEMMA NextTurn ==
  ASSUME NEW x \in Nat, NEW wide \in Nat \ {0}
  PROVE  (x + wide) % wide = x % wide
<1> DEFINE q == x \div wide
           p == (x + wide) \div wide
           r == x % wide
           s == (x + wide) % wide
<1>1. q \in Int /\ r \in 0 .. wide - 1 /\ x = wide * q + r
  BY DivSplit
<1>2. x + wide \in Int
  OBVIOUS
<1>3. p \in Int /\ s \in 0 .. wide - 1 /\ x + wide = wide * p + s
  BY <1>2, DivSplit
<1> HIDE DEF q, p, r, s
<1>4. wide * (p - q) = wide + r - s
  BY <1>1, <1>3, SMT
<1>5. p - q = 1
  BY <1>1, <1>3, <1>4, Multiples
<1>6. wide * (p - q) = wide
  BY <1>5
<1>7. QED BY <1>1, <1>3, <1>4, <1>6 DEF r, s

LEMMA SlotGap ==
  ASSUME NEW x \in Nat, NEW y \in Nat, NEW wide \in Nat \ {0}, x % wide = y % wide, x < y
  PROVE  y - x >= wide
<1> DEFINE m == x \div wide
           n == y \div wide
<1>1. /\ m \in Int /\ x % wide \in Int /\ x = wide * m + (x % wide)
      /\ n \in Int /\ y = wide * n + (y % wide)
  BY DivSplit
<1> HIDE DEF m, n
<1>2. y - x = wide * (n - m)
  BY <1>1
<1>3. QED BY <1>1, <1>2, Multiples

(* Numbers at least wide apart have different quotients.                   *)
LEMMA QuotientGap ==
  ASSUME NEW x \in Nat, NEW y \in Nat, NEW wide \in Nat \ {0}, x + wide <= y
  PROVE  x \div wide < y \div wide
<1> DEFINE m == x \div wide
           n == y \div wide
           r == x % wide
           s == y % wide
<1>1. m \in Int /\ r \in 0 .. wide - 1 /\ x = wide * m + r
  BY DivSplit
<1>2. n \in Int /\ s \in 0 .. wide - 1 /\ y = wide * n + s
  BY DivSplit
<1> HIDE DEF m, n, r, s
<1>3. wide * (n - m) = y - x + r - s
  BY <1>1, <1>2, SMT
<1>4. wide * (n - m) > 0
  BY <1>1, <1>2, <1>3
<1>5. n - m >= 1
  BY <1>1, <1>2, <1>4, Multiples
<1>6. QED BY <1>1, <1>2, <1>5 DEF m, n

LEMMA QuotientMono ==
  ASSUME NEW x \in Nat, NEW y \in Nat, NEW wide \in Nat \ {0}, x <= y
  PROVE  x \div wide \in Nat /\ x \div wide <= y \div wide
<1> DEFINE m == x \div wide
           n == y \div wide
           r == x % wide
           s == y % wide
<1>1. m \in Int /\ r \in 0 .. wide - 1 /\ x = wide * m + r
  BY DivSplit
<1>2. n \in Int /\ s \in 0 .. wide - 1 /\ y = wide * n + s
  BY DivSplit
<1> HIDE DEF m, n, r, s
<1>3. wide * (m - n) = x - y + s - r
  BY <1>1, <1>2, SMT
<1>4. m - n <= 0
  BY <1>1, <1>2, <1>3, Multiples
<1>5. wide * (-m) = r - x
  BY <1>1, SMT
<1>6. -m <= 0
  BY <1>1, <1>5, Multiples
<1>7. QED BY <1>1, <1>2, <1>4, <1>6 DEF m, n

LEMMA RateGrows ==
  ASSUME NEW r \in Nat, NEW x \in Int, NEW y \in Int, x <= y
  PROVE  /\ r * x \in Int /\ r * (x + 1) = r * x + r
         /\ r * x <= r * y
  BY SMT

-----------------------------------------------------------------------------
(* The window of one port: what it remembers was told, and covers what was *)
(* told and can still arrive in time.                                      *)

(* What a datagram that verify does not refuse for its stamp says of it.   *)
Passes(d) == ~Future(d) /\ ~Stale(d)

LEMMA PassedStamp ==
  ASSUME NEW d \in Datagram, clockNow \in Nat, Passes(d)
  PROVE  d.ts \in Nat /\ d.ts <= clockNow + MaxFuture /\ clockNow - d.ts <= MaxAge + DrainGrace
<1>1. MaxFuture \in Nat /\ MaxAge \in Nat /\ DrainGrace \in Nat /\ d.ts \in Nat
  BY UdpAssumption DEF Datagram, Stamps
<1>2. Leeway \in Nat /\ Leeway <= DrainGrace
  BY <1>1 DEF Leeway
<1>3. d.ts <= clockNow + MaxFuture
  BY <1>1 DEF Passes, Future
<1>4. StampAge(d) <= MaxAge + Leeway /\ clockNow - d.ts <= StampAge(d) /\ StampAge(d) \in Int
  BY <1>1, <1>2 DEF Passes, Stale, StampAge
<1>5. QED BY <1>1, <1>2, <1>3, <1>4

LEMMA ToldMore ==
  ASSUME NEW A, NEW B, A \subseteq B, NEW p, NEW st, Told(A, p, st)
  PROVE  Told(B, p, st)
  BY Zenon DEF Told

LEMMA ResetTold ==
  ASSUME NEW A, NEW d \in Datagram, clockNow \in Nat, Passes(d)
  PROVE  Told(A \cup {d}, d.port, ResetTo(d.seq))
<1>1. ResetTo(d.seq).highest = d.seq /\ ResetTo(d.seq).last_ms = clockNow
      /\ ResetTo(d.seq).bits = {UdpSlot(d.seq)}
  BY DEF ResetTo
<1>2. d.seq \in Nat /\ d.seq - d.seq = 0 /\ 0 < Bits
  BY UdpAssumption DEF Datagram
<1>3. d.ts <= clockNow + MaxFuture /\ clockNow - d.ts <= MaxAge + DrainGrace /\ d.seq <= d.seq
  BY <1>2, PassedStamp
<1>4. d \in A \cup {d}
  OBVIOUS
<1> HIDE DEF UdpSlot, ResetTo
<1>5. QED BY <1>1, <1>2, <1>3, <1>4 DEF Told

(* A slot that survives the advance to s belongs to a sequence within Bits *)
(* of s.                                                                   *)
LEMMA AdvancedNear ==
  ASSUME NEW st \in State, NEW s \in Nat, NEW x \in Nat, x <= st.highest, st.highest - x < Bits,
         UdpSlot(x) \notin {UdpSlot(i) : i \in st.highest + 1 .. s}
  PROVE  s - x < Bits
<1> SUFFICES ASSUME s - x >= Bits PROVE FALSE
  BY UdpAssumption
<1>1. Bits \in Nat \ {0} /\ st.highest \in Nat
  BY UdpAssumption DEF State
<1>2. x + Bits \in st.highest + 1 .. s
  BY <1>1
<1>3. UdpSlot(x + Bits) = UdpSlot(x)
  BY <1>1, NextTurn DEF UdpSlot
<1>4. QED BY <1>2, <1>3

LEMMA MarkedTold ==
  ASSUME NEW A, A \subseteq Datagram, NEW st \in State, NEW d \in Datagram, clockNow \in Nat,
         Passes(d), Told(A, d.port, st), ~Refused(st, d.seq)
  PROVE  Told(A \cup {d}, d.port, Marked(st, d.seq))
<1> DEFINE s == d.seq
           B == A \cup {d}
           new == Marked(st, s)
<1>1. s \in Nat /\ st.highest \in Nat /\ Bits \in Nat \ {0} /\ Window \in 1 .. Bits /\ d \in B
  BY UdpAssumption DEF Datagram, State
<1>2. d.ts <= clockNow + MaxFuture /\ clockNow - d.ts <= MaxAge + DrainGrace
  BY PassedStamp
<1>3. CASE Expired(st) \/ s - st.highest >= Bits
  BY <1>3, ResetTold DEF Marked
<1>4. ASSUME ~(Expired(st) \/ s - st.highest >= Bits), s > st.highest
      PROVE  Told(B, d.port, new)
  <2>1. new.highest = s /\ new.last_ms = clockNow /\ new.bits = Advanced(st, s)
    BY <1>4 DEF Marked
  <2>2. ASSUME NEW wide \in Advanced(st, s)
        PROVE  \E a \in B : a.port = d.port /\ UdpSlot(a.seq) = wide /\ a.seq <= s /\ s - a.seq < Bits
    <3>1. CASE wide = UdpSlot(s)
      <4>1. s <= s /\ s - s < Bits
        BY <1>1
      <4>2. QED BY <3>1, <4>1, <1>1
    <3>2. CASE wide # UdpSlot(s)
      <4>1. wide \in st.bits /\ wide \notin {UdpSlot(i) : i \in st.highest + 1 .. s}
        BY <3>2 DEF Advanced
      <4>2. PICK a \in A : a.port = d.port /\ UdpSlot(a.seq) = wide /\ a.seq <= st.highest
                            /\ st.highest - a.seq < Bits
        BY <4>1 DEF Told
      <4>3. a.seq \in Nat
        BY DEF Datagram
      <4>4. s - a.seq < Bits
        BY <4>1, <4>2, <4>3, <1>1, AdvancedNear
      <4>5. a.seq <= s
        BY <4>2, <4>3, <1>1, <1>4
      <4>6. QED BY <4>2, <4>4, <4>5
    <3>3. QED BY <3>1, <3>2
  <2>3. QED BY <2>1, <2>2, <1>1, <1>2 DEF Told
<1>5. ASSUME ~(Expired(st) \/ s - st.highest >= Bits), ~(s > st.highest)
      PROVE  Told(B, d.port, new)
  <2>2. new.highest = st.highest /\ new.last_ms = clockNow /\ new.bits = st.bits \cup {UdpSlot(s)}
    BY <1>5 DEF Marked
  <2>3. s <= st.highest /\ st.highest - s < Bits
    BY <1>1, <1>5 DEF Refused, OutsideWindow
  <2>4. ASSUME NEW wide \in st.bits \cup {UdpSlot(s)}
        PROVE  \E a \in B : a.port = d.port /\ UdpSlot(a.seq) = wide /\ a.seq <= st.highest
                            /\ st.highest - a.seq < Bits
    BY <2>3, <1>1 DEF Told
  <2>5. \E a \in B : a.port = d.port /\ a.seq = st.highest
    BY DEF Told
  <2>6. QED BY <2>2, <2>4, <2>5, <1>1, <1>2 DEF Told
<1>6. QED BY <1>3, <1>4, <1>5

LEMMA UdpSlotType == \A i \in Int : UdpSlot(i) \in 0 .. Bits - 1
  BY UdpAssumption, DivSplit DEF UdpSlot

LEMMA ResetType ==
  ASSUME NEW s \in Nat, clockNow \in UdpTimes
  PROVE  ResetTo(s) \in State /\ ResetTo(s).last_ms = clockNow
  BY UdpSlotType DEF ResetTo, State

LEMMA MarkedType ==
  ASSUME NEW st \in State, NEW s \in Nat, clockNow \in UdpTimes
  PROVE  Marked(st, s) \in State /\ Marked(st, s).last_ms = clockNow
<1>1. st.highest \in Nat /\ st.bits \in SUBSET (0 .. Bits - 1) /\ st.last_ms \in UdpTimes
  BY DEF State
<1>2. Advanced(st, s) \in SUBSET (0 .. Bits - 1)
  BY <1>1, UdpSlotType DEF Advanced
<1>3. [highest |-> s, bits |-> Advanced(st, s), last_ms |-> clockNow] \in State
  BY <1>2 DEF State
<1>4. [highest |-> st.highest, bits |-> st.bits \cup {UdpSlot(s)}, last_ms |-> clockNow] \in State
  BY <1>1, UdpSlotType DEF State
<1>5. QED BY <1>3, <1>4, ResetType DEF Marked

LEMMA ResetCovers ==
  ASSUME NEW d \in Datagram
  PROVE  Covers(ResetTo(d.seq), d)
  BY DEF Covers, ResetTo, Datagram

LEMMA MarkedCoversIt ==
  ASSUME NEW st \in State, NEW d \in Datagram
  PROVE  Covers(Marked(st, d.seq), d)
<1>1. d.seq \in Nat /\ st.highest \in Nat
  BY DEF Datagram, State
<1> HIDE DEF UdpSlot
<1>2. QED BY <1>1, ResetCovers DEF Covers, Marked, Advanced

LEMMA MarkedCoversOthers ==
  ASSUME NEW st \in State, NEW s \in Nat, NEW e \in Datagram, ~Expired(st), Covers(st, e)
  PROVE  Covers(Marked(st, s), e)
<1>1. /\ e.seq \in Nat /\ st.highest \in Nat
      /\ Bits \in Nat \ {0} /\ Window \in 1 .. Bits
  BY UdpAssumption DEF Datagram, State
<1>2. ~Expired(st) /\ e.seq <= st.highest
  BY DEF Covers
<1>3. ASSUME s - st.highest >= Bits PROVE Covers(ResetTo(s), e)
  BY <1>1, <1>2, <1>3 DEF Covers, ResetTo, OutsideWindow
<1>4. ASSUME s > st.highest
      PROVE  Covers([highest |-> s, bits |-> Advanced(st, s), last_ms |-> clockNow], e)
  <2>1. s - e.seq >= Window \/ UdpSlot(e.seq) \in Advanced(st, s)
    <3>1. CASE st.highest - e.seq >= Window
      BY <3>1, <1>1, <1>4
    <3>2. ASSUME UdpSlot(e.seq) \in st.bits, UdpSlot(e.seq) \notin Advanced(st, s)
          PROVE  s - e.seq >= Window
      <4>1. PICK i \in st.highest + 1 .. s : UdpSlot(i) = UdpSlot(e.seq)
        BY <3>2 DEF Advanced
      <4>2. i \in Nat /\ e.seq < i /\ i <= s
        BY <1>1, <1>2
      <4>3. i - e.seq >= Bits
        BY <4>1, <4>2, <1>1, SlotGap DEF UdpSlot
      <4>4. QED BY <4>2, <4>3, <1>1
    <3>3. QED BY <3>1, <3>2 DEF Covers, OutsideWindow
  <2>2. QED BY <2>1, <1>1, <1>2, <1>4 DEF Covers, OutsideWindow
<1>5. Covers([highest |-> st.highest, bits |-> st.bits \cup {UdpSlot(s)}, last_ms |-> clockNow], e)
  BY <1>2 DEF Covers, OutsideWindow
<1>6. QED BY <1>2, <1>3, <1>4, <1>5 DEF Marked

-----------------------------------------------------------------------------
(* Eviction leaves entries as they were, and room for one more.            *)
LEMMA EvictedOK ==
  ASSUME UdpTypeOK, NEW r \in Evicted
  PROVE  /\ \A p \in DOMAIN r : p \in Peers /\ r[p] = replay[p]
         /\ IsFiniteSet(DOMAIN r) /\ Cardinality(DOMAIN r) <= MaxPeers
<1> DEFINE live == {p \in Peers : ~PeerIdle(p)}
<1>1. MaxPeers \in Nat \ {0} /\ Ports \in Nat
  BY UdpAssumption
<1>2. IsFiniteSet(1 .. Ports)
  BY <1>1, FS_Interval
<1>3. IsFiniteSet(Peers) /\ Cardinality(Peers) \in Nat /\ Cardinality(Peers) <= MaxPeers + 1
  BY <1>2, FS_Subset, FS_CardinalityType DEF UdpTypeOK
<1>4. live \subseteq Peers
  OBVIOUS
<1>5. IsFiniteSet(live) /\ Cardinality(live) \in Nat /\ Cardinality(live) <= Cardinality(Peers)
  BY <1>3, <1>4, FS_Subset, FS_CardinalityType
<1> HIDE DEF live
<1>6. CASE Cardinality(Peers) <= MaxPeers
  <2>1. r = replay
    BY <1>6 DEF Evicted
  <2>2. QED BY <2>1, <1>3, <1>6 DEF Peers
<1>7. CASE ~(Cardinality(Peers) <= MaxPeers) /\ Cardinality(live) <= MaxPeers
  <2>1. r = KeptPeers(live)
    BY <1>7 DEF Evicted, live
  <2>2. QED BY <2>1, <1>4, <1>5, <1>7 DEF KeptPeers
<1>8. CASE ~(Cardinality(Peers) <= MaxPeers) /\ ~(Cardinality(live) <= MaxPeers)
  <2>1. PICK p \in live : r = KeptPeers(live \ {p})
    BY <1>8 DEF Evicted, Oldest, live
  <2>2. IsFiniteSet(live \ {p}) /\ Cardinality(live \ {p}) = Cardinality(live) - 1
    BY <1>5, FS_RemoveElement
  <2>3. Cardinality(live \ {p}) <= MaxPeers
    BY <2>2, <1>1, <1>3, <1>5
  <2>4. QED BY <2>1, <2>2, <2>3, <1>4 DEF KeptPeers
<1>9. QED BY <1>6, <1>7, <1>8

(* A datagram let through without an allowance and still in time.          *)
InTime(d) == d \in accepted \ exempt /\ clockNow - d.ts <= MaxAge

(* The ports whose entries are live and were used no earlier than that of  *)
(* a datagram in time are those of the restarts of two freshness periods.  *)
LEMMA FewLivePorts ==
  ASSUME UdpInv, PeersFit, NEW d \in accepted, d.ts <= clockNow, clockNow - d.ts <= MaxAge,
         NEW S, S \subseteq Peers, \A q \in S : d.ts <= replay[q].last_ms
  PROVE  IsFiniteSet(S) /\ Cardinality(S) <= MaxPeers
<1> DEFINE gap == Apart
           before == MaxAge + DrainGrace
           behind == MaxAge + MaxFuture
           up == behind \div gap
           down == before \div gap
           Near(q, a) == a.port = q /\ d.ts - a.ts <= before /\ a.ts <= clockNow + MaxFuture
<1>1. /\ gap \in Nat \ {0} /\ MaxAge \in Nat /\ MaxPeers \in Nat
      /\ MaxFuture \in Nat /\ DrainGrace \in Nat /\ before \in Nat /\ behind \in Nat
      /\ clockNow \in Nat
  BY UdpAssumption DEF PeersFit, Apart, UdpInv, UdpTypeOK, UdpTimes
<1>2. up \in Nat /\ down \in Nat /\ up + down < MaxPeers
  <2>1. up \in Nat /\ down \in Nat
    BY <1>1, QuotientMono
  <2>2. QED BY <2>1 DEF PeersFit
<1>3. \A a \in accepted : a \in sealed /\ a \in Datagram /\ a.port \in Int /\ a.ts \in Nat
  BY DEF UdpInv, UdpTypeOK, Datagram, Stamps
<1>4. \A q \in S : \E a \in accepted : Near(q, a)
  <2> SUFFICES ASSUME NEW q \in S PROVE \E a \in accepted : Near(q, a)
    OBVIOUS
  <2>1. /\ replay[q] \in State /\ Told(accepted, q, replay[q]) /\ d.ts <= replay[q].last_ms
        /\ replay[q].last_ms <= clockNow
    BY DEF UdpInv, UdpTypeOK, Windows
  <2>2. PICK a \in accepted : /\ a.port = q /\ a.ts <= replay[q].last_ms + MaxFuture
                              /\ replay[q].last_ms - a.ts <= MaxAge + DrainGrace
    BY <2>1 DEF Told
  <2>3. replay[q].last_ms \in Nat
    BY <2>1 DEF State, UdpTimes
  <2>4. d.ts - a.ts <= before /\ a.ts <= clockNow + MaxFuture
    BY <2>1, <2>2, <2>3, <1>1, <1>3
  <2>5. QED BY <2>2, <2>4
<1> DEFINE w == [q \in S |-> CHOOSE a \in accepted : Near(q, a)]
<1>5. \A q \in S : w[q] \in accepted /\ w[q].port = q /\ d.ts - w[q].ts <= before
                   /\ w[q].ts <= clockNow + MaxFuture
  BY <1>4
<1>6. \A a, wide \in accepted : a.port < wide.port => a.ts + gap <= wide.ts
  BY <1>3 DEF UdpInv, Starts
<1>7. d.ts \in Nat /\ d.ts <= clockNow /\ clockNow - d.ts <= MaxAge /\ d.port \in Int
  BY <1>3
<1> HIDE DEF gap, up, down, w
<1> DEFINE far == [q \in S |-> IF q = d.port THEN 0
                               ELSE IF q > d.port THEN (w[q].ts - d.ts) \div gap
                               ELSE -((d.ts - w[q].ts) \div gap)]
<1>8. ASSUME NEW q \in S, q > d.port
      PROVE  /\ w[q].ts - d.ts \in Nat /\ far[q] = (w[q].ts - d.ts) \div gap
             /\ far[q] \in 1 .. up
  <2>1. w[q].ts \in Nat /\ d.ts + gap <= w[q].ts /\ w[q].ts <= clockNow + MaxFuture
    BY <1>8, <1>3, <1>5, <1>6
  <2> DEFINE x == w[q].ts - d.ts
  <2>2. x \in Nat /\ x <= behind /\ 0 + gap <= x
    BY <2>1, <1>1, <1>7
  <2>3. far[q] = x \div gap
    BY <1>8, <1>7
  <2> HIDE DEF x, far
  <2>4. x \div gap \in Nat /\ x \div gap <= up
    BY <2>2, <1>1, QuotientMono DEF up
  <2>5. 0 \div gap \in Nat /\ 0 \div gap < x \div gap
    BY <2>2, <1>1, QuotientMono, QuotientGap
  <2>6. QED BY <2>2, <2>3, <2>4, <2>5, <1>2 DEF x
<1>9. ASSUME NEW q \in S, q < d.port
      PROVE  /\ d.ts - w[q].ts \in Nat /\ far[q] = -((d.ts - w[q].ts) \div gap)
             /\ far[q] \in -down .. -1 /\ -far[q] = (d.ts - w[q].ts) \div gap
  <2>1. w[q].ts \in Nat /\ w[q].ts + gap <= d.ts /\ d.ts - w[q].ts <= before /\ q \in Int
    BY <1>9, <1>3, <1>5, <1>6
  <2> DEFINE x == d.ts - w[q].ts
  <2>2. x \in Nat /\ x <= before /\ 0 + gap <= x
    BY <2>1, <1>1, <1>7
  <2>3. far[q] = -(x \div gap)
    BY <2>1, <1>9, <1>7
  <2> HIDE DEF x, far
  <2>4. x \div gap \in Nat /\ x \div gap <= down
    BY <2>2, <1>1, QuotientMono DEF down
  <2>5. 0 \div gap \in Nat /\ 0 \div gap < x \div gap
    BY <2>2, <1>1, QuotientMono, QuotientGap
  <2>6. QED BY <2>2, <2>3, <2>4, <2>5, <1>2 DEF x
<1>10. \A q \in S : q \in Int
  BY <1>3, <1>5
<1>11. \A q \in S : far[q] \in -down .. up
  <2> SUFFICES ASSUME NEW q \in S PROVE far[q] \in -down .. up
    OBVIOUS
  <2>1. q = d.port => far[q] = 0
    OBVIOUS
  <2> HIDE DEF far
  <2>2. QED BY <2>1, <1>2, <1>7, <1>8, <1>9, <1>10
<1>12. ASSUME NEW p \in S, NEW q \in S, p < q
       PROVE  far[p] < far[q]
  <2>1. w[p].ts \in Nat /\ w[q].ts \in Nat /\ w[p].ts + gap <= w[q].ts /\ p \in Int /\ q \in Int
    BY <1>12, <1>3, <1>5, <1>6
  <2>2. (p = d.port => far[p] = 0) /\ (q = d.port => far[q] = 0)
    OBVIOUS
  <2> HIDE DEF far
  <2>3. CASE p > d.port
    <3>1. q > d.port
      BY <2>1, <2>3, <1>7, <1>12
    <3> DEFINE x == w[p].ts - d.ts
               y == w[q].ts - d.ts
    <3>2. x \in Nat /\ y \in Nat /\ far[p] = x \div gap /\ far[q] = y \div gap
      BY <2>3, <3>1, <1>8
    <3>3. x + gap <= y
      BY <2>1, <1>1, <1>7
    <3> HIDE DEF x, y
    <3>4. QED BY <3>2, <3>3, <1>1, QuotientGap
  <2>4. CASE q < d.port
    <3>1. p < d.port
      BY <2>1, <2>4, <1>7, <1>12
    <3> DEFINE x == d.ts - w[p].ts
               y == d.ts - w[q].ts
    <3>2. /\ x \in Nat /\ y \in Nat /\ far[p] \in Int /\ far[q] \in Int
          /\ -far[p] = x \div gap /\ -far[q] = y \div gap
      BY <2>4, <3>1, <1>2, <1>9
    <3>3. y + gap <= x
      BY <2>1, <1>1, <1>7
    <3> HIDE DEF x, y
    <3>4. y \div gap < x \div gap
      BY <3>2, <3>3, <1>1, QuotientGap
    <3>5. QED BY <3>2, <3>4
  <2>5. CASE p <= d.port /\ d.port <= q
    BY <2>1, <2>2, <2>5, <1>2, <1>7, <1>8, <1>9, <1>12
  <2>6. QED BY <2>1, <2>3, <2>4, <2>5, <1>7
<1>13. far \in Injection(S, -down .. up)
  <2>1. far \in [S -> -down .. up]
    BY <1>11
  <2> HIDE DEF far
  <2>2. ASSUME NEW p \in S, NEW q \in S, p # q PROVE far[p] # far[q]
    <3>1. far[p] \in Int /\ far[q] \in Int /\ p \in Int /\ q \in Int
      BY <1>2, <1>10, <1>11
    <3>2. QED BY <2>2, <3>1, <1>12
  <2>3. QED BY <2>1, <2>2 DEF Injection, IsInjective
<1>14. IsFiniteSet(-down .. up) /\ Cardinality(-down .. up) = up + down + 1
  <2> DEFINE low == -down
  <2>1. low \in Int /\ up \in Int /\ ~(low > up) /\ up - low + 1 = up + down + 1
    BY <1>2
  <2> HIDE DEF low
  <2>2. IsFiniteSet(low .. up) /\ Cardinality(low .. up) = (IF low > up THEN 0 ELSE up - low + 1)
    BY <2>1, FS_Interval
  <2>3. QED BY <2>1, <2>2 DEF low
<1> HIDE DEF far
<1>15. IsFiniteSet(S) /\ Cardinality(S) <= up + down + 1 /\ Cardinality(S) \in Nat
  BY <1>13, <1>14, FS_Injection, FS_CardinalityType
<1>16. QED BY <1>1, <1>2, <1>15

(* Eviction keeps the entry of every datagram that is in time.             *)
LEMMA LiveKept ==
  ASSUME UdpInv, Remembered, PeersFit, NEW d, InTime(d), NEW r \in Evicted
  PROVE  d.port \in DOMAIN r
<1> DEFINE live == {p \in Peers : ~PeerIdle(p)}
<1>1. /\ d.port \in Peers /\ d.ts <= replay[d.port].last_ms /\ d \in accepted /\ d.ts <= clockNow
      /\ clockNow - d.ts <= MaxAge
  BY DEF Remembered, InTime
<1>2. d.ts \in Nat /\ clockNow \in Nat /\ MaxAge \in Nat /\ MaxPeers \in Nat
  BY <1>1, UdpAssumption DEF UdpInv, UdpTypeOK, Datagram, UdpTimes, Stamps
<1>3. \A p \in Peers : replay[p].last_ms \in Nat
  BY DEF UdpInv, UdpTypeOK, State, UdpTimes
<1>4. d.port \in live
  BY <1>1, <1>2, <1>3 DEF PeerIdle
<1> HIDE DEF live
<1>5. CASE r = replay
  BY <1>1, <1>5 DEF Peers
<1>6. CASE r = KeptPeers(live)
  BY <1>4, <1>6 DEF KeptPeers
<1>7. ASSUME ~(Cardinality(live) <= MaxPeers), NEW p \in Oldest(live), r = KeptPeers(live \ {p})
      PROVE  d.port \in DOMAIN r
  <2>1. CASE p # d.port
    BY <2>1, <1>4, <1>7 DEF KeptPeers
  <2>2. CASE p = d.port
    <3>1. live \subseteq Peers
      BY DEF live
    <3>2. \A q \in live : d.ts <= replay[q].last_ms
      BY <2>2, <3>1, <1>1, <1>2, <1>3, <1>4 DEF Oldest
    <3>3. Cardinality(live) <= MaxPeers
      BY <1>1, <3>1, <3>2, FewLivePorts
    <3>4. QED BY <3>3, <1>7
  <2>3. QED BY <2>1, <2>2
<1>8. QED BY <1>5, <1>6, <1>7 DEF Evicted, live

-----------------------------------------------------------------------------
(* The steps of the forwarder and of the clock.                            *)

LEMMA UdpInitInv == UdpInit => UdpInv /\ Remembered /\ AtMostOnce /\ FreshNeverRefused
<1> SUFFICES ASSUME UdpInit PROVE UdpInv /\ Remembered /\ AtMostOnce /\ FreshNeverRefused
  OBVIOUS
<1>1. port \in 1 .. Ports
  BY UdpAssumption DEF UdpInit
<1>2. Peers = {} /\ Cardinality(Peers) = 0
  BY FS_EmptySet DEF UdpInit, Peers
<1>3. UdpTypeOK
  BY <1>1, <1>2, UdpAssumption DEF UdpInit, UdpTypeOK, UdpTimes, NotArmed
<1>4. Sealing /\ Starts /\ Windows /\ Remembered
  BY <1>2, UdpAssumption DEF UdpInit, Sealing, Starts, Windows, Remembered
<1>5. QED BY <1>3, <1>4 DEF UdpInv, UdpInit, AtMostOnce, FreshNeverRefused

LEMMA SealInv ==
  ASSUME UdpInv, NEW ts \in Stamps, clockNow - Lag <= ts, ts <= clockNow + Ahead, Seal(ts)
  PROVE  UdpInv'
<1> DEFINE new == [port |-> port, seq |-> sequence, ts |-> ts]
           edge == clockNow + Ahead
<1>1. /\ clockNow' = clockNow /\ port' = port /\ up_at' = up_at /\ replay' = replay
      /\ accepted' = accepted /\ twice' = twice /\ refused' = refused /\ exempt' = exempt
      /\ lapsed' = lapsed /\ grace_until' = grace_until
      /\ sealed' = sealed \cup {new} /\ sequence' = sequence + 1 /\ sealed_now' = sealed_now + 1
      /\ clockNow >= up_at /\ sealed_now < Rate
  BY DEF Seal, ledger
<1>2. /\ Rate \in Nat /\ Rate >= 1 /\ BootTime \in Nat /\ Lag \in Nat /\ Ahead \in Nat
      /\ clockNow \in Nat /\ port \in Nat /\ edge \in Nat
      /\ sequence \in Nat /\ sealed_now \in Nat /\ up_at \in Nat /\ ts \in Nat
  BY UdpAssumption DEF UdpInv, UdpTypeOK, UdpTimes, Stamps
<1>3. new.port = port /\ new.seq = sequence /\ new.ts = ts
  OBVIOUS
<1>4. new \in Datagram /\ \A d \in sealed : d.port \in Nat /\ d.seq \in Nat /\ d.ts \in Nat
  BY DEF UdpInv, UdpTypeOK, Datagram, Stamps
<1> HIDE DEF new
<1>5. UdpTypeOK'
  BY <1>1, <1>2, <1>4 DEF UdpInv, UdpTypeOK, UdpTimes, Peers, Datagram, Stamps, State, NotArmed
<1>6. Sealing'
  <2>1. ASSUME NEW d \in sealed'
        PROVE  /\ d.port <= port' /\ d.ts <= clockNow' + Ahead
               /\ d.port = port' => /\ d.seq < sequence'
                                    /\ sequence' - d.seq <= Rate * (clockNow' + Ahead - d.ts) + sealed_now'
    <3>1. CASE d = new
      <4>1. Rate * 0 <= Rate * (edge - ts) /\ Rate * (edge - ts) \in Int
        BY <1>2, RateGrows
      <4>2. QED BY <3>1, <4>1, <1>1, <1>2, <1>3
    <3>2. CASE d \in sealed
      <4>1. Rate * (edge - d.ts) \in Int
        BY <3>2, <1>2, <1>4
      <4>2. QED BY <3>2, <4>1, <1>1, <1>2, <1>4 DEF UdpInv, Sealing
    <3>3. QED BY <3>1, <3>2, <1>1
  <2>2. ASSUME NEW d \in sealed', NEW e \in sealed', d.port = e.port
        PROVE  /\ d.seq = e.seq => d = e
               /\ e.seq - d.seq < Rate * (clockNow' + Ahead - d.ts + 1)
    <3>1. /\ Rate * (edge - d.ts) \in Int /\ Rate * 0 <= Rate * (edge - d.ts)
          /\ Rate * (edge - d.ts + 1) = Rate * (edge - d.ts) + Rate
      <4>1. edge - d.ts \in Nat
        BY <1>1, <1>2, <1>3, <1>4 DEF UdpInv, Sealing
      <4>2. QED BY <4>1, <1>2, RateGrows
    <3>2. CASE d \in sealed /\ e \in sealed
      BY <3>2, <2>2, <1>1 DEF UdpInv, Sealing
    <3>3. CASE d = new /\ e = new
      BY <3>1, <3>3, <1>1, <1>2, <1>3
    <3>4. CASE d = new /\ e \in sealed
      <4>1. e.seq < sequence
        BY <3>4, <2>2, <1>3 DEF UdpInv, Sealing
      <4>2. QED BY <3>1, <3>4, <4>1, <1>1, <1>2, <1>3, <1>4
    <3>5. CASE d \in sealed /\ e = new
      <4>1. d.port = port
        BY <3>5, <2>2, <1>3
      <4>2. d.seq < sequence /\ sequence - d.seq <= Rate * (clockNow + Ahead - d.ts) + sealed_now
        BY <3>5, <4>1, Zenon DEF UdpInv, Sealing
      <4>3. QED BY <3>1, <3>5, <4>2, <1>1, <1>2, <1>3, <1>4
    <3>6. QED BY <3>2, <3>3, <3>4, <3>5, <1>1
  <2>3. sealed_now' <= Rate'
    BY <1>1, <1>2
  <2>4. QED BY <2>1, <2>2, <2>3 DEF Sealing
<1>7. Starts'
  <2>1. ASSUME NEW d \in sealed', d.port < port' PROVE d.ts + BootTime <= up_at' + Ahead
    BY <2>1, <1>1, <1>2, <1>3 DEF UdpInv, Starts
  <2>2. ASSUME NEW d \in sealed', NEW e \in sealed', d.port < e.port
        PROVE  d.ts + Apart <= e.ts
    <3>1. CASE d \in sealed /\ e \in sealed
      BY <3>1, <2>2 DEF UdpInv, Starts
    <3>2. CASE d = new
      BY <3>2, <2>2, <1>1, <1>2, <1>3, <1>4 DEF UdpInv, Sealing
    <3>3. CASE d \in sealed /\ e = new
      <4>1. d.ts + BootTime <= up_at + Ahead
        BY <3>3, <2>2, <1>3 DEF UdpInv, Starts
      <4>2. QED BY <3>3, <4>1, <1>1, <1>2, <1>3, <1>4 DEF Apart
    <3>4. QED BY <3>1, <3>2, <3>3, <1>1
  <2>3. QED BY <2>1, <2>2 DEF Starts, Apart
<1>8. Windows'
  BY <1>1 DEF UdpInv, Windows, Peers, Told, UdpSlot
<1>9. QED BY <1>5, <1>6, <1>7, <1>8 DEF UdpInv

LEMMA RestartInv ==
  ASSUME UdpInv, RestartSender
  PROVE  UdpInv'
<1>1. /\ clockNow' = clockNow /\ port' = port + 1 /\ up_at' = clockNow + BootTime /\ replay' = replay
      /\ accepted' = accepted /\ twice' = twice /\ refused' = refused /\ port < Ports
      /\ exempt' = exempt /\ lapsed' = lapsed /\ grace_until' = grace_until
      /\ sealed' = sealed /\ sequence' = 0 /\ sealed_now' = sealed_now
  BY DEF RestartSender, ledger
<1>2. /\ BootTime \in Nat /\ Ahead \in Nat /\ clockNow \in Nat /\ port \in 1 .. Ports /\ Ports \in Nat
      /\ \A d \in sealed : d.port \in Nat /\ d.seq \in Nat /\ d.ts \in Nat /\ d.port <= port
                           /\ d.ts <= clockNow + Ahead
  BY UdpAssumption DEF UdpInv, UdpTypeOK, UdpTimes, Sealing, Datagram, Stamps
<1>3. UdpTypeOK'
  BY <1>1, <1>2 DEF UdpInv, UdpTypeOK, UdpTimes, Peers, Datagram, State
<1>4. Sealing' /\ Starts'
  BY <1>1, <1>2 DEF UdpInv, Sealing, Starts, Apart
<1>5. Windows'
  BY <1>1 DEF UdpInv, Windows, Peers, Told, UdpSlot
<1>6. QED BY <1>3, <1>4, <1>5 DEF UdpInv

LEMMA TickInv ==
  ASSUME UdpInv, UdpTick
  PROVE  UdpInv'
<1> DEFINE edge == clockNow + Ahead
<1>1. /\ clockNow' = clockNow + 1 /\ port' = port /\ up_at' = up_at /\ replay' = replay
      /\ accepted' = accepted /\ twice' = twice /\ refused' = refused /\ clockNow < LastTime
      /\ exempt' = exempt /\ lapsed' = lapsed /\ grace_until' = grace_until
      /\ sealed' = sealed /\ sequence' = sequence /\ sealed_now' = 0
  BY DEF UdpTick, ledger
<1>2. /\ Rate \in Nat /\ clockNow \in Nat /\ LastTime \in Nat /\ sealed_now \in Nat /\ sequence \in Nat
      /\ port \in Nat /\ clockNow \in UdpTimes /\ Ahead \in Nat /\ edge \in Nat
      /\ \A d \in sealed : d.port \in Nat /\ d.seq \in Nat /\ d.ts \in Nat
      /\ \A p \in Peers : replay[p].last_ms \in Nat
  BY UdpAssumption DEF UdpInv, UdpTypeOK, UdpTimes, Datagram, Stamps, State
<1>3. UdpTypeOK'
  BY <1>1, <1>2 DEF UdpInv, UdpTypeOK, UdpTimes, Peers, Datagram, State
<1>4. ASSUME NEW d \in sealed
      PROVE  /\ Rate * (edge - d.ts) \in Int /\ Rate * (edge - d.ts + 1) \in Int
             /\ Rate * (edge - d.ts + 1) = Rate * (edge - d.ts) + Rate
             /\ Rate * (edge - d.ts + 1) <= Rate * (edge - d.ts + 2)
             /\ Rate * (edge - d.ts + 2) \in Int
             /\ clockNow + 1 + Ahead - d.ts = edge - d.ts + 1
             /\ clockNow + 1 + Ahead - d.ts + 1 = edge - d.ts + 2
  <2> DEFINE x == edge - d.ts
  <2>1. x \in Int /\ x + 1 \in Int /\ x + 2 \in Int /\ x <= x + 1 /\ x + 1 <= x + 2
    BY <1>2
  <2>2. clockNow + 1 + Ahead - d.ts = x + 1 /\ clockNow + 1 + Ahead - d.ts + 1 = x + 2
    BY <1>2
  <2> HIDE DEF x
  <2>3. Rate * x \in Int /\ Rate * (x + 1) = Rate * x + Rate
    BY <2>1, <1>2, RateGrows
  <2>4. Rate * (x + 1) \in Int /\ Rate * (x + 1) <= Rate * (x + 2) /\ Rate * (x + 2) \in Int
    BY <2>1, <1>2, RateGrows
  <2>5. QED BY <2>2, <2>3, <2>4 DEF x
<1>5. Sealing'
  <2>1. ASSUME NEW d \in sealed
        PROVE  /\ d.port <= port /\ d.ts <= clockNow + 1 + Ahead
               /\ d.port = port => /\ d.seq < sequence
                                   /\ sequence - d.seq <= Rate * (clockNow + 1 + Ahead - d.ts) + 0
    <3>1. /\ d.port <= port /\ d.ts <= clockNow + Ahead /\ sealed_now <= Rate
          /\ d.port = port => /\ d.seq < sequence
                              /\ sequence - d.seq <= Rate * (clockNow + Ahead - d.ts) + sealed_now
      BY Zenon DEF UdpInv, Sealing
    <3>2. QED BY <3>1, <1>2, <1>4
  <2>2. ASSUME NEW d \in sealed, NEW e \in sealed, d.port = e.port
        PROVE  /\ d.seq = e.seq => d = e
               /\ e.seq - d.seq < Rate * (clockNow + 1 + Ahead - d.ts + 1)
    <3>1. (d.seq = e.seq => d = e) /\ e.seq - d.seq < Rate * (clockNow + Ahead - d.ts + 1)
      BY <2>2, Zenon DEF UdpInv, Sealing
    <3>2. QED BY <3>1, <1>2, <1>4
  <2>3. QED BY <2>1, <2>2, <1>1, <1>2 DEF Sealing
<1>6. Starts'
  BY <1>1 DEF UdpInv, Starts, Apart
<1>7. Windows'
  BY <1>1, <1>2 DEF UdpInv, Windows, Peers, Told, UdpSlot
<1>8. QED BY <1>3, <1>5, <1>6, <1>7 DEF UdpInv

(* The grace touches no window.                                            *)
LEMMA GraceInv ==
  ASSUME UdpInv, ArmDrainGrace \/ DisarmDrainGrace
  PROVE  UdpInv'
<1>1. UNCHANGED <<clockNow, port, sequence, sealed_now, up_at, sealed, replay, accepted, twice, refused,
                  exempt, lapsed>>
  BY DEF ArmDrainGrace, DisarmDrainGrace, sender, ledger
<1>2. grace_until' \in {NotArmed} \cup (0 .. LastTime + DrainGrace)
  <2>1. /\ clockNow \in 0 .. LastTime /\ LastTime \in Nat /\ DrainGrace \in Nat
        /\ grace_until' = clockNow + DrainGrace \/ grace_until' = NotArmed
    BY UdpAssumption DEF UdpInv, UdpTypeOK, UdpTimes, ArmDrainGrace, DisarmDrainGrace
  <2>2. QED BY <2>1
<1>3. UdpTypeOK'
  BY <1>1, <1>2 DEF UdpInv, UdpTypeOK, Peers
<1>4. Sealing' /\ Starts'
  BY <1>1 DEF UdpInv, Sealing, Starts, Apart
<1>5. Windows'
  BY <1>1 DEF UdpInv, Windows, Peers, Told, UdpSlot
<1>6. QED BY <1>3, <1>4, <1>5 DEF UdpInv

-----------------------------------------------------------------------------
(* One copy of a datagram arrives: the entries left by eviction, and the   *)
(* decision.                                                               *)
Let(r, d) == ~(d.port \in DOMAIN r /\ Refused(r[d.port], d.seq))
NewState(r, d) == IF d.port \in DOMAIN r THEN Marked(r[d.port], d.seq) ELSE ResetTo(d.seq)
Anew(r, d) == IF d.port \in DOMAIN r /\ ~Expired(r[d.port]) THEN {}
              ELSE {e \in accepted : e.port = d.port}

LEMMA DeliverKeeps ==
  ASSUME UdpInv, NEW d, Deliver(d)
  PROVE  /\ UNCHANGED <<clockNow, port, sequence, sealed_now, up_at, sealed>>
         /\ grace_until' \in {NotArmed} \cup (0 .. LastTime + DrainGrace)
<1>1. UNCHANGED sender /\ clockNow' = clockNow
  BY Zenon DEF Deliver
<1>2. grace_until' = NotArmed \/ grace_until' = grace_until
  BY Zenon DEF Deliver
<1>3. QED BY <1>1, <1>2 DEF UdpInv, UdpTypeOK, sender

LEMMA DeliverCases ==
  ASSUME NEW d, Deliver(d)
  PROVE  \/ UNCHANGED <<replay, accepted, twice, refused, exempt, lapsed>>
         \/ /\ Passes(d)
            /\ \E r \in Evicted :
                 \/ /\ ~Let(r, d) /\ replay' = r
                    /\ refused' = (IF d \in accepted THEN refused ELSE refused \cup {d})
                    /\ UNCHANGED <<accepted, twice, exempt, lapsed>>
                 \/ /\ Let(r, d) /\ replay' = With(r, d.port, NewState(r, d))
                    /\ accepted' = accepted \cup {d}
                    /\ twice' = (IF d \in accepted THEN twice \cup {d} ELSE twice)
                    /\ exempt' = (IF Allowed(d) THEN exempt \cup {d} ELSE exempt)
                    /\ lapsed' = lapsed \cup Anew(r, d)
                    /\ refused' = refused
<1>1. ~Future(d) /\ (\/ Stale(d) /\ UNCHANGED <<replay, ledger>>
                     \/ ~Stale(d) /\ \E r \in Evicted : Refuse(d, r) \/ Accept(d, r))
  BY Zenon DEF Deliver
<1>2. CASE Stale(d) /\ UNCHANGED <<replay, ledger>>
  BY <1>2 DEF ledger
<1>3. ASSUME ~Stale(d), NEW r \in Evicted, Refuse(d, r)
      PROVE  /\ ~Let(r, d) /\ replay' = r
             /\ refused' = (IF d \in accepted THEN refused ELSE refused \cup {d})
             /\ UNCHANGED <<accepted, twice, exempt, lapsed>>
  BY <1>3 DEF Refuse, Let
<1>4. ASSUME ~Stale(d), NEW r \in Evicted, Accept(d, r)
      PROVE  /\ Let(r, d) /\ replay' = With(r, d.port, NewState(r, d))
             /\ accepted' = accepted \cup {d}
             /\ twice' = (IF d \in accepted THEN twice \cup {d} ELSE twice)
             /\ exempt' = (IF Allowed(d) THEN exempt \cup {d} ELSE exempt)
             /\ lapsed' = lapsed \cup Anew(r, d)
             /\ refused' = refused
  BY <1>4 DEF Accept, Let, NewState, Anew
<1>5. CASE ~Stale(d) /\ \E r \in Evicted : Refuse(d, r) \/ Accept(d, r)
  <2>1. PICK r \in Evicted : Refuse(d, r) \/ Accept(d, r)
    BY <1>5
  <2>2. Passes(d)
    BY <1>1, <1>5 DEF Passes
  <2>3. CASE Refuse(d, r)
    BY <2>2, <2>3, <1>3, <1>5
  <2>4. CASE Accept(d, r)
    BY <2>2, <2>4, <1>4, <1>5
  <2>5. QED BY <2>1, <2>3, <2>4
<1>6. QED BY <1>1, <1>2, <1>5

(* What the new entry of the port is, when the datagram is let through.    *)
LEMMA NewStateOK ==
  ASSUME UdpInv, NEW d \in sealed, Passes(d), NEW r \in Evicted, Let(r, d)
  PROVE  /\ NewState(r, d) \in State /\ NewState(r, d).last_ms = clockNow
         /\ Told(accepted \cup {d}, d.port, NewState(r, d))
<1>1. d \in Datagram /\ d.seq \in Nat /\ clockNow \in UdpTimes /\ clockNow \in Nat /\ accepted \subseteq Datagram
  BY UdpAssumption DEF UdpInv, UdpTypeOK, Datagram, UdpTimes
<1>2. CASE d.port \notin DOMAIN r
  <2>1. NewState(r, d) = ResetTo(d.seq)
    BY <1>2 DEF NewState
  <2>2. QED BY <2>1, <1>1, ResetType, ResetTold
<1>3. CASE d.port \in DOMAIN r
  <2>1. d.port \in Peers /\ r[d.port] = replay[d.port]
    BY <1>3, EvictedOK DEF UdpInv
  <2>2. r[d.port] \in State /\ Told(accepted, d.port, r[d.port]) /\ ~Refused(r[d.port], d.seq)
    BY <2>1, <1>3 DEF UdpInv, UdpTypeOK, Windows, Let
  <2>3. NewState(r, d) = Marked(r[d.port], d.seq)
    BY <1>3 DEF NewState
  <2>4. QED BY <2>2, <2>3, <1>1, MarkedType, MarkedTold
<1>4. QED BY <1>2, <1>3

LEMMA DeliverInv ==
  ASSUME UdpInv, NEW d \in sealed, Deliver(d)
  PROVE  UdpInv'
<1>1. /\ UNCHANGED <<clockNow, port, sequence, sealed_now, up_at, sealed>>
      /\ grace_until' \in {NotArmed} \cup (0 .. LastTime + DrainGrace)
  BY DeliverKeeps
<1>2. Sealing' /\ Starts'
  BY <1>1 DEF UdpInv, Sealing, Starts, Apart
<1>3. /\ d \in Datagram /\ d.port \in 1 .. Ports /\ clockNow \in Nat /\ MaxPeers \in Nat
      /\ Peers \subseteq 1 .. Ports /\ accepted \subseteq sealed /\ twice \subseteq accepted
      /\ refused \subseteq sealed /\ exempt \subseteq accepted /\ lapsed \subseteq accepted
  BY UdpAssumption DEF UdpInv, UdpTypeOK, UdpTimes, Datagram
<1>4. ASSUME NEW r \in Evicted, ~Let(r, d), replay' = r,
             UNCHANGED <<accepted, twice, exempt, lapsed>>,
             refused' = (IF d \in accepted THEN refused ELSE refused \cup {d})
      PROVE  UdpInv'
  <2>1. /\ \A p \in Peers' : p \in Peers /\ replay'[p] = replay[p]
        /\ IsFiniteSet(Peers') /\ Cardinality(Peers') <= MaxPeers
    BY <1>4, EvictedOK DEF UdpInv, Peers
  <2>2. Cardinality(Peers') \in Nat
    BY <2>1, FS_CardinalityType
  <2>3. UdpTypeOK'
    <3>1. \A p \in Peers' : p \in 1 .. Ports /\ replay'[p] \in State
      BY <2>1, <1>3 DEF UdpInv, UdpTypeOK
    <3>2. refused' \subseteq sealed /\ Cardinality(Peers') <= MaxPeers + 1
      BY <2>1, <2>2, <1>3, <1>4
    <3>3. QED BY <3>1, <3>2, <1>1, <1>3, <1>4 DEF UdpInv, UdpTypeOK
  <2>4. Windows'
    BY <2>1, <1>1, <1>4 DEF UdpInv, Windows, Told, UdpSlot
  <2>5. QED BY <2>3, <2>4, <1>2 DEF UdpInv
<1>5. ASSUME Passes(d), NEW r \in Evicted, Let(r, d), replay' = With(r, d.port, NewState(r, d)),
             accepted' = accepted \cup {d}, refused' = refused,
             twice' = (IF d \in accepted THEN twice \cup {d} ELSE twice),
             exempt' = (IF Allowed(d) THEN exempt \cup {d} ELSE exempt),
             lapsed' = lapsed \cup Anew(r, d)
      PROVE  UdpInv'
  <2>1. /\ \A p \in DOMAIN r : p \in Peers /\ r[p] = replay[p]
        /\ IsFiniteSet(DOMAIN r) /\ Cardinality(DOMAIN r) <= MaxPeers
    BY <1>5, EvictedOK DEF UdpInv
  <2>2. /\ Peers' = DOMAIN r \cup {d.port}
        /\ \A p \in Peers' : replay'[p] = IF p = d.port THEN NewState(r, d) ELSE r[p]
    BY <1>5 DEF Peers, With
  <2>3. Cardinality(Peers') \in Nat /\ Cardinality(Peers') <= MaxPeers + 1
    <3>1. Cardinality(DOMAIN r) \in Nat
      BY <2>1, FS_CardinalityType
    <3>2. Cardinality(DOMAIN r \cup {d.port}) \in {Cardinality(DOMAIN r), Cardinality(DOMAIN r) + 1}
      BY <2>1, FS_AddElement
    <3>3. QED BY <3>1, <3>2, <2>1, <2>2, <1>3
  <2>4. /\ NewState(r, d) \in State /\ NewState(r, d).last_ms = clockNow
        /\ Told(accepted \cup {d}, d.port, NewState(r, d))
    BY <1>1, <1>5, NewStateOK
  <2>5. \A p \in Peers' : p \in 1 .. Ports /\ replay'[p] \in State
    BY <2>1, <2>2, <2>4, <1>3 DEF UdpInv, UdpTypeOK
  <2>6. /\ accepted' \subseteq sealed /\ refused' \subseteq sealed
        /\ twice' \subseteq accepted' /\ exempt' \subseteq accepted' /\ lapsed' \subseteq accepted'
    BY <1>3, <1>5 DEF Anew
  <2>7. UdpTypeOK'
    BY <2>3, <2>5, <2>6, <1>1, <1>3 DEF UdpInv, UdpTypeOK
  <2>8. \A p \in Peers' : replay'[p].last_ms <= clockNow /\ Told(accepted \cup {d}, p, replay'[p])
    <3> SUFFICES ASSUME NEW p \in Peers'
                 PROVE  replay'[p].last_ms <= clockNow /\ Told(accepted \cup {d}, p, replay'[p])
      OBVIOUS
    <3>1. CASE p = d.port
      BY <3>1, <2>2, <2>4, <1>3
    <3>2. CASE p # d.port
      <4>1. p \in Peers /\ replay'[p] = replay[p]
        BY <3>2, <2>1, <2>2
      <4>2. replay[p].last_ms <= clockNow /\ Told(accepted, p, replay[p])
        BY <4>1 DEF UdpInv, Windows
      <4>3. QED BY <4>1, <4>2, ToldMore
    <3>3. QED BY <3>1, <3>2
  <2>9. Windows'
    BY <2>8, <1>1, <1>5 DEF Windows, Told, UdpSlot
  <2>10. QED BY <2>7, <2>9, <1>2 DEF UdpInv
<1>6. CASE UNCHANGED <<replay, accepted, twice, refused, exempt, lapsed>>
  <2>1. UdpTypeOK'
    BY <1>1, <1>3, <1>6 DEF UdpInv, UdpTypeOK, Peers
  <2>2. Windows'
    BY <1>1, <1>6 DEF UdpInv, Windows, Peers, Told, UdpSlot
  <2>3. QED BY <2>1, <2>2, <1>2 DEF UdpInv
<1>7. QED BY <1>4, <1>5, <1>6, DeliverCases

LEMMA UdpNextInv == UdpInv /\ [UdpNext]_udpVars => UdpInv'
<1> SUFFICES ASSUME UdpInv, [UdpNext]_udpVars
             PROVE  UdpInv'
  OBVIOUS
<1>1. CASE UNCHANGED udpVars
  <2>1. UNCHANGED <<clockNow, port, sequence, sealed_now, up_at, sealed, replay, grace_until, accepted,
                    twice, refused, exempt, lapsed>>
    BY <1>1 DEF udpVars, sender, ledger
  <2>2. UdpTypeOK'
    BY <2>1 DEF UdpInv, UdpTypeOK, Peers
  <2>3. Sealing' /\ Starts'
    BY <2>1 DEF UdpInv, Sealing, Starts, Apart
  <2>4. Windows'
    BY <2>1 DEF UdpInv, Windows, Peers, Told, UdpSlot
  <2>5. QED BY <2>2, <2>3, <2>4 DEF UdpInv
<1>2. CASE UdpNext
  BY <1>2, SealInv, RestartInv, TickInv, GraceInv, DeliverInv DEF UdpNext
<1>3. QED BY <1>1, <1>2

(* The types, and where every entry's memory comes from.                   *)
THEOREM UdpTypeCorrect == UdpSpec => []UdpInv
<1>1. QED BY UdpInitInv, UdpNextInv, PTL DEF UdpSpec

-----------------------------------------------------------------------------
(* A datagram in time is refused only if it was let through before.        *)

LEMMA FreshLetThrough ==
  ASSUME UdpInv, WindowFits, NEW d \in sealed, Passes(d), d \notin accepted,
         NEW r \in Evicted
  PROVE  Let(r, d)
<1> SUFFICES ASSUME d.port \in DOMAIN r, Refused(r[d.port], d.seq) PROVE FALSE
  BY DEF Let
<1> DEFINE st == replay[d.port]
           old == clockNow + Ahead - d.ts + 1
           most == MaxAge + DrainGrace + Ahead + 1
<1>1. d.port \in Peers /\ r[d.port] = st
  BY EvictedOK DEF UdpInv
<1>2. st \in State /\ Told(accepted, d.port, st)
  BY <1>1 DEF UdpInv, UdpTypeOK, Windows
<1>3. /\ d.seq \in Nat /\ d.ts \in Nat /\ clockNow \in Nat /\ st.highest \in Nat
      /\ \A a \in accepted : a \in sealed /\ a.seq \in Nat
      /\ Rate \in Nat /\ Bits \in Nat \ {0} /\ Window \in 1 .. Bits
      /\ MaxAge \in Nat /\ DrainGrace \in Nat /\ Ahead \in Nat
  BY <1>2, UdpAssumption DEF UdpInv, UdpTypeOK, UdpTimes, Datagram, State, Stamps
<1> HIDE DEF st
<1>4. d.seq <= st.highest /\ (st.highest - d.seq >= Window \/ UdpSlot(d.seq) \in st.bits)
  BY <1>1 DEF Refused, OutsideWindow
<1>5. PICK a \in accepted : a.port = d.port /\ a.seq = st.highest
  BY <1>2 DEF Told
<1>6. a.seq - d.seq < Rate * old
  BY <1>3, <1>5 DEF UdpInv, Sealing
<1>7. old <= most /\ old \in Int /\ most \in Int
  <2>1. d \in Datagram
    BY DEF UdpInv, UdpTypeOK
  <2>2. clockNow - d.ts <= MaxAge + DrainGrace
    BY <2>1, <1>3, PassedStamp
  <2>3. QED BY <2>2, <1>3
<1> HIDE DEF old
<1>8. Rate * old \in Int /\ Rate * old <= Rate * most /\ Rate * most \in Int
  BY <1>3, <1>7, RateGrows
<1>9. st.highest - d.seq < Window
  BY <1>3, <1>5, <1>6, <1>8 DEF WindowFits
<1>10. UdpSlot(d.seq) \in st.bits
  BY <1>3, <1>4, <1>9
<1>11. PICK wide \in accepted : /\ wide.port = d.port /\ UdpSlot(wide.seq) = UdpSlot(d.seq)
                             /\ wide.seq <= st.highest /\ st.highest - wide.seq < Bits
  BY <1>2, <1>10 DEF Told
<1>12. wide.seq # d.seq
  BY <1>3, <1>11 DEF UdpInv, Sealing
<1>13. ASSUME wide.seq < d.seq PROVE FALSE
  <2>1. d.seq - wide.seq >= Bits
    BY <1>3, <1>11, <1>13, SlotGap DEF UdpSlot
  <2>2. QED BY <2>1, <1>3, <1>4, <1>11
<1>14. ASSUME d.seq < wide.seq PROVE FALSE
  <2>1. wide.seq - d.seq >= Bits
    BY <1>3, <1>11, <1>14, SlotGap DEF UdpSlot
  <2>2. QED BY <2>1, <1>3, <1>9, <1>11
<1>15. QED BY <1>3, <1>11, <1>12, <1>13, <1>14

LEMMA RefusedNext ==
  ASSUME UdpInv, WindowFits, FreshNeverRefused, [UdpNext]_udpVars
  PROVE  FreshNeverRefused'
<1>1. ASSUME NEW d \in sealed, Deliver(d) PROVE FreshNeverRefused'
  <2>1. Passes(d) /\ d \notin accepted => \A r \in Evicted : Let(r, d)
    BY FreshLetThrough
  <2>2. refused' = refused
    BY <1>1, <2>1, DeliverCases
  <2>3. QED BY <2>2 DEF FreshNeverRefused
<1>2. ASSUME NEW ts \in Stamps, Seal(ts) PROVE FreshNeverRefused'
  BY <1>2 DEF Seal, ledger, FreshNeverRefused
<1>3. CASE RestartSender \/ UdpTick \/ ArmDrainGrace \/ DisarmDrainGrace
  BY <1>3 DEF RestartSender, UdpTick, ArmDrainGrace, DisarmDrainGrace, ledger, FreshNeverRefused
<1>4. CASE UNCHANGED udpVars
  BY <1>4 DEF udpVars, ledger, FreshNeverRefused
<1>5. QED BY <1>1, <1>2, <1>3, <1>4 DEF UdpNext

(* udp_auth.rs:40: with a window of one freshness period, the grace and    *)
(* the skew of the clocks included, no datagram that arrives in time for   *)
(* the first time is refused.                                              *)
THEOREM NoFreshRefused == ASSUME WindowFits PROVE UdpSpec => []FreshNeverRefused
<1>1. UdpInv /\ FreshNeverRefused /\ [UdpNext]_udpVars => FreshNeverRefused'
  BY RefusedNext
<1>2. QED BY <1>1, UdpInitInv, UdpTypeCorrect, PTL DEF UdpSpec

-----------------------------------------------------------------------------
(* What is let through twice had its window started anew, and passed on an *)
(* allowance.                                                              *)

(* The entry that let e through is there, and knows it.                    *)
Knows(r, e) == e.port \in DOMAIN r /\ ~Expired(r[e.port]) /\ Covers(r[e.port], e)

(* A datagram in time and without an allowance is known after eviction.    *)
LEMMA InTimeKnown ==
  ASSUME UdpInv, Remembered, PeersFit, NEW e, InTime(e), NEW r \in Evicted
  PROVE  Knows(r, e) /\ e.ts <= r[e.port].last_ms /\ e \notin lapsed
<1>1. /\ e \in accepted \ exempt /\ clockNow - e.ts <= MaxAge /\ e \notin lapsed
      /\ e.port \in Peers /\ e.ts <= replay[e.port].last_ms
  BY DEF Remembered, InTime
<1>2. e.port \in DOMAIN r
  BY LiveKept
<1>3. r[e.port] = replay[e.port] /\ replay[e.port] \in State
  BY <1>2, EvictedOK DEF UdpInv, UdpTypeOK
<1>4. Covers(replay[e.port], e)
  BY <1>1 DEF Remembered
<1>5. /\ clockNow \in Nat /\ MaxAge \in Nat /\ e.ts \in Nat /\ replay[e.port].last_ms \in Nat
  BY <1>1, <1>3, UdpAssumption DEF UdpInv, UdpTypeOK, Datagram, Stamps, State, UdpTimes
<1>6. ~Expired(replay[e.port])
  BY <1>1, <1>5 DEF Expired
<1>7. QED BY <1>1, <1>2, <1>3, <1>4, <1>6 DEF Knows

(* What is accepted again was forgotten.                                   *)
LEMMA AgainForgotten ==
  ASSUME UdpInv, Remembered, NEW d \in accepted, NEW r \in Evicted, Let(r, d)
  PROVE  d \in lapsed \cup Anew(r, d) /\ ~Knows(r, d)
<1>1. ~Knows(r, d)
  BY DEF Knows, Let, Covers, Refused
<1>2. ASSUME d \notin lapsed, d \notin Anew(r, d) PROVE FALSE
  <2>1. d.port \in DOMAIN r /\ ~Expired(r[d.port])
    BY <1>2 DEF Anew
  <2>2. d.port \in Peers /\ r[d.port] = replay[d.port]
    BY <2>1, EvictedOK DEF UdpInv
  <2>3. Covers(r[d.port], d)
    BY <2>2, <1>2 DEF Remembered
  <2>4. QED BY <2>1, <2>3, <1>1 DEF Knows
<1>3. QED BY <1>1, <1>2

LEMMA OnceStep ==
  ASSUME UdpInv, Remembered, PeersFit, AtMostOnce, NEW d \in sealed, Deliver(d)
  PROVE  Remembered' /\ AtMostOnce'
<1>1. clockNow' = clockNow
  BY DeliverKeeps
<1>2. /\ d \in Datagram /\ d.seq \in Nat /\ clockNow \in Nat /\ clockNow \in UdpTimes
      /\ accepted \subseteq Datagram /\ d.ts \in Nat /\ MaxAge \in Nat
      /\ lapsed \subseteq accepted /\ exempt \subseteq accepted
  BY UdpAssumption DEF UdpInv, UdpTypeOK, UdpTimes, Datagram, Stamps
<1>3. \A st, e : Covers(st, e)' <=> Covers(st, e)
  BY DEF Covers, OutsideWindow, UdpSlot
<1>4. ASSUME NEW r \in Evicted, replay' = r, UNCHANGED <<accepted, twice, exempt, lapsed>>
      PROVE  Remembered' /\ AtMostOnce'
  <2>1. \A p \in DOMAIN r : p \in Peers /\ r[p] = replay[p]
    BY EvictedOK DEF UdpInv
  <2>2. ASSUME NEW e \in accepted \ lapsed, e.port \in DOMAIN r
        PROVE  e.seq <= r[e.port].highest
               /\ (OutsideWindow(r[e.port], e.seq) \/ UdpSlot(e.seq) \in r[e.port].bits)
    BY <2>1, <2>2 DEF Remembered, Covers
  <2>3. ASSUME NEW e \in accepted \ exempt
        PROVE  /\ e.ts <= clockNow
               /\ clockNow - e.ts <= MaxAge =>
                    e \notin lapsed /\ e.port \in DOMAIN r /\ e.ts <= r[e.port].last_ms
    BY InTimeKnown DEF InTime, Knows, Remembered
  <2>4. QED BY <2>2, <2>3, <1>1, <1>4 DEF Remembered, AtMostOnce, Peers, Covers, OutsideWindow, UdpSlot
<1>5. ASSUME Passes(d), NEW r \in Evicted, Let(r, d), replay' = With(r, d.port, NewState(r, d)),
             accepted' = accepted \cup {d}, twice' = (IF d \in accepted THEN twice \cup {d} ELSE twice),
             exempt' = (IF Allowed(d) THEN exempt \cup {d} ELSE exempt),
             lapsed' = lapsed \cup Anew(r, d)
      PROVE  Remembered' /\ AtMostOnce'
  <2>1. ASSUME d \notin exempt' PROVE d.ts <= clockNow /\ clockNow - d.ts <= MaxAge
    <3>1. ~Allowed(d)
      BY <2>1, <1>5
    <3>2. QED BY <3>1, <1>2 DEF Allowed, StampAge
  <2>2. ASSUME d \in accepted PROVE d \in exempt' /\ d \in lapsed'
    <3>1. d \in lapsed' /\ ~Knows(r, d)
      BY <2>2, <1>5, AgainForgotten
    <3>2. ASSUME d \notin exempt' PROVE FALSE
      <4>1. d \notin exempt
        BY <3>2, <1>5
      <4>2. InTime(d)
        BY <2>1, <2>2, <3>2, <4>1 DEF InTime
      <4>3. QED BY <3>1, <4>2, InTimeKnown
    <3>3. QED BY <3>1, <3>2
  <2>3. AtMostOnce'
    BY <2>2, <1>5 DEF AtMostOnce
  <2>4. /\ Peers' = DOMAIN r \cup {d.port}
        /\ \A p \in Peers' : replay'[p] = IF p = d.port THEN NewState(r, d) ELSE r[p]
    BY <1>5 DEF Peers, With
  <2>5. \A p \in DOMAIN r : p \in Peers /\ r[p] = replay[p] /\ r[p] \in State
    BY EvictedOK DEF UdpInv, UdpTypeOK
  <2>6. ASSUME NEW e \in accepted' \ lapsed', e.port \in Peers'
        PROVE  Covers(replay'[e.port], e)
    <3>1. CASE e.port # d.port
      <4>1. e \in accepted \ lapsed /\ e.port \in DOMAIN r /\ e.port \in Peers
            /\ replay'[e.port] = replay[e.port]
        BY <3>1, <2>4, <2>5, <2>6, <1>5
      <4>2. QED BY <4>1 DEF Remembered
    <3>2. CASE e = d
      <4>1. replay'[d.port] = NewState(r, d)
        BY <2>4
      <4>2. CASE d.port \in DOMAIN r
        BY <3>2, <4>1, <4>2, <2>5, <1>2, MarkedCoversIt DEF NewState
      <4>3. CASE d.port \notin DOMAIN r
        BY <3>2, <4>1, <4>3, <1>2, ResetCovers DEF NewState
      <4>4. QED BY <4>2, <4>3
    <3>3. CASE e # d /\ e.port = d.port
      <4>1. e \in accepted \ lapsed /\ e \notin Anew(r, d)
        BY <3>3, <2>6, <1>5
      <4>2. d.port \in DOMAIN r /\ ~Expired(r[d.port])
        BY <3>3, <4>1 DEF Anew
      <4>3. Covers(r[d.port], e) /\ e \in Datagram /\ r[d.port] \in State
        BY <3>3, <4>1, <4>2, <2>5, <1>2 DEF Remembered
      <4>4. replay'[e.port] = Marked(r[d.port], d.seq)
        BY <3>3, <4>2, <2>4 DEF NewState
      <4>5. QED BY <4>2, <4>3, <4>4, <1>2, MarkedCoversOthers
    <3>4. QED BY <3>1, <3>2, <3>3
  <2>7. ASSUME NEW e \in accepted' \ exempt'
        PROVE  /\ e.ts <= clockNow
               /\ clockNow - e.ts <= MaxAge =>
                    e \notin lapsed' /\ e.port \in Peers' /\ e.ts <= replay'[e.port].last_ms
    <3>1. NewState(r, d).last_ms = clockNow
      BY <1>5, NewStateOK
    <3>2. CASE e = d
      <4>1. d \notin accepted
        BY <3>2, <2>2, <2>7
      <4>2. d \notin lapsed'
        BY <4>1, <1>2, <1>5 DEF Anew
      <4>3. QED BY <3>1, <3>2, <4>2, <2>1, <2>4, <2>7
    <3>3. CASE e # d
      <4>1. e \in accepted \ exempt /\ e.ts <= clockNow
        BY <3>3, <2>7, <1>5 DEF Remembered
      <4>2. ASSUME clockNow - e.ts <= MaxAge
            PROVE  e \notin lapsed' /\ e.port \in Peers' /\ e.ts <= replay'[e.port].last_ms
        <5>1. Knows(r, e) /\ e.ts <= r[e.port].last_ms /\ e \notin lapsed
          BY <4>1, <4>2, InTimeKnown DEF InTime
        <5>2. e \notin Anew(r, d)
          BY <5>1 DEF Knows, Anew
        <5>3. e.port \in Peers' /\ replay'[e.port] \in {NewState(r, d), r[e.port]}
          BY <5>1, <2>4 DEF Knows
        <5>4. QED BY <5>1, <5>2, <5>3, <3>1, <4>1, <1>5
      <4>3. QED BY <4>1, <4>2
    <3>4. QED BY <3>2, <3>3
  <2>8. Remembered'
    BY <2>6, <2>7, <1>1 DEF Remembered, Covers, OutsideWindow, UdpSlot
  <2>9. QED BY <2>3, <2>8
<1>6. CASE UNCHANGED <<replay, accepted, twice, refused, exempt, lapsed>>
  BY <1>1, <1>6 DEF Remembered, AtMostOnce, Peers, Covers, OutsideWindow, UdpSlot
<1>7. QED BY <1>4, <1>5, <1>6, DeliverCases

LEMMA OnceNext ==
  ASSUME UdpInv, Remembered, PeersFit, AtMostOnce, [UdpNext]_udpVars
  PROVE  Remembered' /\ AtMostOnce'
<1>1. ASSUME UNCHANGED <<accepted, twice, exempt, lapsed, replay>>,
             clockNow' = clockNow \/ clockNow' = clockNow + 1
      PROVE  Remembered' /\ AtMostOnce'
  <2>1. ASSUME NEW e \in accepted \ exempt
        PROVE  /\ e.ts <= clockNow'
               /\ clockNow' - e.ts <= MaxAge =>
                    e \notin lapsed /\ e.port \in Peers /\ e.ts <= replay[e.port].last_ms
    <3>1. e.ts \in Nat /\ clockNow \in Nat /\ MaxAge \in Nat
      BY UdpAssumption DEF UdpInv, UdpTypeOK, Datagram, UdpTimes, Stamps
    <3>2. /\ e.ts <= clockNow
          /\ clockNow - e.ts <= MaxAge =>
               e \notin lapsed /\ e.port \in Peers /\ e.ts <= replay[e.port].last_ms
      BY DEF Remembered
    <3>3. clockNow' - e.ts <= MaxAge => clockNow - e.ts <= MaxAge
      BY <3>1, <1>1
    <3>4. e.ts <= clockNow'
      BY <3>1, <3>2, <1>1
    <3>5. QED BY <3>2, <3>3, <3>4
  <2>2. QED BY <2>1, <1>1 DEF Remembered, AtMostOnce, Covers, OutsideWindow, UdpSlot, Peers
<1>2. ASSUME NEW ts \in Stamps, Seal(ts) PROVE Remembered' /\ AtMostOnce'
  BY <1>1, <1>2 DEF Seal, ledger
<1>3. CASE RestartSender \/ UdpTick \/ ArmDrainGrace \/ DisarmDrainGrace
  BY <1>1, <1>3 DEF RestartSender, UdpTick, ArmDrainGrace, DisarmDrainGrace, ledger
<1>4. CASE UNCHANGED udpVars
  BY <1>1, <1>4 DEF udpVars, ledger
<1>5. QED BY <1>2, <1>3, <1>4, OnceStep DEF UdpNext

(* udp_auth.rs:55: however the network repeats a datagram, and however the *)
(* windows are reset, evicted and begun again, it counts once, when the    *)
(* map holds an entry for every start that can be fresh at once: only one  *)
(* whose window was begun again, and which an allowance let through, can   *)
(* count twice.                                                            *)
THEOREM CountedOnce == ASSUME PeersFit PROVE UdpSpec => []AtMostOnce
<1>1. UdpInv /\ Remembered /\ AtMostOnce /\ [UdpNext]_udpVars => Remembered' /\ AtMostOnce'
  BY OnceNext
<1>2. QED BY <1>1, UdpInitInv, UdpTypeCorrect, PTL DEF UdpSpec

-----------------------------------------------------------------------------
(* The health probe (TransportHealth).                                     *)

(* An age the clock can produce is not changed by the width of the u64.    *)
LEMMA NoWrap ==
  ASSUME NEW x \in Nat, NEW w \in Nat, x < w
  PROVE  x % w = x
  OBVIOUS

LEMMA ProbeInitInv == ProbeInit => ProbeInv
  BY ProbeAssumption DEF ProbeInit, ProbeInv, ProbeTypeOK, DeadIsReported, Clock, NoStamp

(* The receiving thread and the clock only make frames newer.              *)
LEMMA FramesInv ==
  ASSUME ProbeInv, ProbeTick \/ MarkFrame \/ Store
  PROVE  ProbeInv'
<1> USE ProbeAssumption DEF ProbeInv, ProbeTypeOK, Clock, NoStamp
<1>1. CASE ProbeTick
  BY <1>1 DEF ProbeTick, DeadIsReported
<1>2. CASE MarkFrame
  BY <1>2 DEF MarkFrame, DeadIsReported
<1>3. CASE Store
  BY <1>3 DEF Store, DeadIsReported
<1>4. QED BY <1>1, <1>2, <1>3

LEMMA LoadInv ==
  ASSUME ProbeInv, LoadFrame
  PROVE  ProbeInv'
<1> USE ProbeAssumption DEF ProbeInv, ProbeTypeOK, Clock, NoStamp
<1>1. Age \in 0 .. Wrap - 1
  BY DEF Age
<1>2. ProbeTypeOK'
  BY <1>1 DEF LoadFrame
<1>3. DeadIsReported'
  <2> SUFFICES ASSUME answer' = "ok", entered' >= Grace, entered' >= arrived' + Stall
               PROVE  FALSE
    BY DEF LoadFrame, DeadIsReported
  <2>1. read - last_frame_ms \in Nat /\ read - last_frame_ms < Wrap
    BY DEF LoadFrame
  <2>2. Age = read - last_frame_ms
    BY <2>1, NoWrap DEF Age
  <2>3. ~Live(Age)
    BY <2>2 DEF LoadFrame, Live
  <2>4. QED BY <2>3 DEF LoadFrame
<1>4. QED BY <1>2, <1>3 DEF LoadFrame

LEMMA ProbeNextInv == ProbeInv /\ [ProbeNext]_probe => ProbeInv'
<1> SUFFICES ASSUME ProbeInv, [ProbeNext]_probe
             PROVE  ProbeInv'
  OBVIOUS
<1>1. CASE Health
  BY <1>1, ProbeAssumption DEF Health, ProbeInv, ProbeTypeOK, DeadIsReported, Clock, NoStamp
<1>2. CASE ReadClock
  BY <1>2, ProbeAssumption DEF ReadClock, ProbeInv, ProbeTypeOK, DeadIsReported, Clock, NoStamp
<1>3. CASE UNCHANGED probe
  BY <1>3 DEF probe, ProbeInv, ProbeTypeOK, DeadIsReported
<1>4. QED BY <1>1, <1>2, <1>3, FramesInv, LoadInv DEF ProbeNext

(* metrics.rs: the two readings of the clock and the stamp never get ahead *)
(* of each other the wrong way round.                                      *)
THEOREM ProbeInductive == ProbeSpec => []ProbeInv
BY ProbeInitInv, ProbeNextInv, PTL DEF ProbeSpec

(* metrics.rs health: once the transport has been dead for the stall       *)
(* period, the next probe says so.                                         *)
THEOREM DeadTransportReported == ProbeSpec => []DeadIsReported
<1>1. ProbeInv => DeadIsReported
  BY DEF ProbeInv
<1>2. QED BY <1>1, ProbeInductive, PTL

-----------------------------------------------------------------------------
(* The latency histogram (LagHist): the buckets.                           *)
LEMMA BitFacts ==
  ASSUME NEW x \in Nat
  PROVE  /\ BitLength(x) \in 0 .. x /\ x < 2 ^ BitLength(x)
         /\ \A m \in Nat : m < BitLength(x) => 2 ^ m <= x
<1> DEFINE T == {n \in Nat : n <= x /\ x < 2 ^ n}
<1>1. x \in T
  BY PowerAbove
<1>2. PICK n \in T : \A m \in T : n <= m
  BY <1>1, LeastNat
<1>3. \A m \in Nat : 2 ^ m \in Nat
  BY PowerNext
<1>4. \A m \in 0 .. n - 1 : 2 ^ m <= x
  <2>1. TAKE m \in 0 .. n - 1
  <2>2. m \in Nat /\ m < n /\ n <= x /\ m \notin T
    BY <1>2
  <2>3. ~(x < 2 ^ m)
    BY <2>2
  <2>4. 2 ^ m \in Nat
    BY <1>3, <2>2
  <2>5. QED BY <2>3, <2>4
<1>5. n \in 0 .. x /\ x < 2 ^ n
  BY <1>2
<1> HIDE DEF T
<1>6. /\ BitLength(x) \in 0 .. x /\ x < 2 ^ BitLength(x)
      /\ \A m \in 0 .. BitLength(x) - 1 : 2 ^ m <= x
  BY <1>4, <1>5 DEF BitLength
<1>7. ASSUME NEW m \in Nat, m < BitLength(x)
      PROVE  2 ^ m <= x
  <2>1. m \in 0 .. BitLength(x) - 1
    BY <1>6, <1>7
  <2>2. QED BY <1>6, <2>1
<1>8. QED BY <1>6, <1>7

LEMMA LagsNat == Lags \subseteq Nat /\ IsFiniteSet(Lags) /\ \A x \in Lags : x <= Unbounded
<1>1. Unbounded \in Nat /\ Lags \subseteq 0 .. Unbounded
  BY LagAssumption
<1>2. IsFiniteSet(0 .. Unbounded)
  BY <1>1, FS_Interval
<1>3. IsFiniteSet(Lags)
  BY <1>1, <1>2, FS_Subset
<1>4. QED BY <1>1, <1>3

LEMMA BucketFacts ==
  ASSUME NEW x \in Lags
  PROVE  /\ Bucket(x) \in Cells
         /\ \A y \in Lags : y <= x => Bucket(y) <= Bucket(x)
         /\ \A k \in Cells : Bucket(x) <= k => x <= Edge(k)
         /\ Bucket(x) < K - 1 => Edge(Bucket(x)) <= 2 * x
<1>1. K \in Nat /\ K >= 2 /\ Unbounded \in Nat
  BY LagAssumption
<1>2. \A y \in Lags : /\ y \in Nat /\ y <= Unbounded /\ BitLength(y) \in Nat /\ y < 2 ^ BitLength(y)
                      /\ \A m \in Nat : m < BitLength(y) => 2 ^ m <= y
  BY LagsNat, BitFacts
<1>3. \A n \in Nat : 2 ^ n \in Nat
  BY PowerNext
<1>4. \A y \in Lags : /\ Bucket(y) \in Cells /\ Bucket(y) <= BitLength(y)
                      /\ Bucket(y) < K - 1 => Bucket(y) = BitLength(y)
                      /\ BitLength(y) <= K - 1 => Bucket(y) = BitLength(y)
  BY <1>1, <1>2 DEF Bucket, Smaller, Cells
<1>5. ASSUME NEW y \in Lags, y <= x
      PROVE  Bucket(y) <= Bucket(x)
  <2> SUFFICES ASSUME Bucket(y) > Bucket(x)
               PROVE  FALSE
    BY <1>1, <1>4 DEF Cells
  <2>1. Bucket(x) \in Nat /\ Bucket(y) \in Nat /\ Bucket(y) <= K - 1
    BY <1>1, <1>4 DEF Cells
  <2>2. BitLength(x) = Bucket(x)
    BY <1>1, <1>4, <2>1
  <2>3. BitLength(x) < BitLength(y)
    BY <1>2, <1>4, <2>1, <2>2
  <2>4. 2 ^ BitLength(x) <= y
    BY <1>2, <2>3
  <2>5. x < 2 ^ BitLength(x) /\ 2 ^ BitLength(x) \in Nat /\ x \in Nat /\ y \in Nat
    BY <1>2, <1>3
  <2>6. QED BY <1>5, <2>4, <2>5
<1>6. ASSUME NEW k \in Cells, Bucket(x) <= k
      PROVE  x <= Edge(k)
  <2>1. CASE k + 1 = K
    BY <1>2, <2>1 DEF Edge
  <2>2. CASE k + 1 # K
    <3>1. k \in Nat /\ k < K - 1 /\ Bucket(x) \in Nat
      BY <1>1, <1>4, <2>2 DEF Cells
    <3>2. BitLength(x) <= k
      BY <1>1, <1>4, <1>6, <3>1
    <3>3. 2 ^ BitLength(x) <= 2 ^ k
      BY <1>2, <3>1, <3>2, PowerGrows
    <3>4. x < 2 ^ BitLength(x) /\ 2 ^ BitLength(x) \in Nat /\ 2 ^ k \in Nat /\ x \in Nat
      BY <1>2, <1>3, <3>1
    <3>5. Edge(k) = 2 ^ k - 1
      BY <2>2 DEF Edge
    <3>6. QED BY <3>3, <3>4, <3>5
  <2>3. QED BY <2>1, <2>2
<1>7. ASSUME Bucket(x) < K - 1
      PROVE  Edge(Bucket(x)) <= 2 * x
  <2> DEFINE n == Bucket(x)
  <2>1. n \in Nat /\ n = BitLength(x) /\ n + 1 # K /\ x \in Nat
    BY <1>1, <1>2, <1>4, <1>7 DEF Cells
  <2>2. Edge(n) = 2 ^ n - 1
    BY <2>1 DEF Edge
  <2>3. CASE n = 0
    BY <2>1, <2>2, <2>3, PowerZero
  <2>4. CASE n # 0
    <3>1. n - 1 \in Nat /\ n - 1 < BitLength(x) /\ n = (n - 1) + 1
      BY <2>1, <2>4
    <3>2. 2 ^ (n - 1) <= x
      BY <1>2, <3>1
    <3>3. 2 ^ (n - 1) \in Nat /\ 2 ^ ((n - 1) + 1) = 2 * 2 ^ (n - 1)
      BY <3>1, PowerNext
    <3>4. 2 ^ n = 2 * 2 ^ (n - 1)
      BY <3>1, <3>3
    <3> DEFINE p == 2 ^ (n - 1)
    <3>5. p \in Nat /\ p <= x /\ Edge(n) = 2 * p - 1
      BY <2>2, <3>2, <3>3, <3>4
    <3> HIDE DEF p
    <3>6. QED BY <2>1, <3>5
  <2>5. QED BY <2>3, <2>4
<1>8. QED BY <1>4, <1>5, <1>6, <1>7

-----------------------------------------------------------------------------
LEMMA Wrapped ==
  ASSUME NEW v \in Nat, NEW t \in Nat \ {0}
  PROVE  v % t \in 0 .. t - 1 /\ v % t <= v /\ (v < t => v % t = v)
<1>1. v \div t \in Int /\ v % t \in 0 .. t - 1 /\ v = t * (v \div t) + (v % t)
  BY DivSplit
<1> DEFINE q == v \div t
           m == v % t
<1>2. q \in Int /\ m \in Int /\ 0 <= m /\ m < t /\ v = t * q + m
  BY <1>1
<1> HIDE DEF q, m
<1>3. ASSUME q < 0
      PROVE  FALSE
  <2>1. t * q <= 0 - t
    BY <1>2, <1>3
  <2>2. QED BY <1>2, <2>1
<1>4. ASSUME q > 0
      PROVE  t * q >= t
  BY <1>2, <1>4
<1>5. CASE q = 0
  BY <1>1, <1>2, <1>5 DEF m
<1>6. CASE q > 0
  BY <1>1, <1>2, <1>4, <1>6 DEF m
<1>7. QED BY <1>2, <1>3, <1>5, <1>6

LEMMA Powers == 2 ^ Width \in Nat \ {0}
  BY LagAssumption, PowerNext

(* The threads that are about to count.                                    *)
LEMMA Threading ==
  ASSUME NEW P, P \subseteq Recorders
  PROVE  IsFiniteSet(P) /\ Cardinality(P) \in Nat
  BY LagAssumption, FS_Subset, FS_CardinalityType

LEMMA ThreadMore ==
  ASSUME NEW P, P \subseteq Recorders, NEW Q, NEW r \in Recorders, Q = P \cup {r}
  PROVE  Cardinality(Q) <= Cardinality(P) + 1
<1>1. IsFiniteSet(P) /\ Cardinality(P) \in Nat
  BY Threading
<1>2. CASE r \in P
  <2>1. Q = P
    BY <1>2
  <2>2. QED BY <1>1, <2>1
<1>3. CASE r \notin P
  <2>1. Cardinality(P \cup {r}) = Cardinality(P) + 1
    BY <1>1, <1>3, Added
  <2>2. QED BY <1>1, <2>1
<1>4. QED BY <1>2, <1>3

LEMMA ThreadLess ==
  ASSUME NEW P, P \subseteq Recorders, NEW Q, NEW r \in P, Q = P \ {r}
  PROVE  Cardinality(Q) = Cardinality(P) - 1 /\ Cardinality(P) \in Nat
<1>1. IsFiniteSet(P)
  BY Threading
<1>2. QED BY <1>1, Removed

LEMMA LagStart == LagInit => CountInv
<1> SUFFICES ASSUME LagInit PROVE CountInv
  OBVIOUS
<1>1. K \in Nat /\ K >= 2 /\ Unbounded \in Nat /\ MaxSamples \in Nat
  BY LagAssumption
<1>2. 2 ^ Width \in Nat /\ 0 \in 0 .. 2 ^ Width - 1
  BY Powers
<1>3. Zeros \in Counters /\ None \in Snap
  BY <1>2 DEF Zeros, None, Snap, Counters
<1>4. Nothing \in [Lags -> 0 .. MaxSamples]
  BY <1>1 DEF Nothing
<1>5. rec \in [Recorders -> [at : {"idle", "count", "load", "raise"}, ms : Lags \cup {0}]]
  BY DEF LagInit, Resting
<1>6. \A r \in Recorders : rec[r].at = "idle"
  BY DEF LagInit, Resting
<1>7. win.b \in Counters /\ win.max \in 0 .. Unbounded
  BY <1>1, <1>3 DEF LagInit, None
<1>8. LagTypeOK
  <2>1. b \in Counters /\ {part, prev} \subseteq Snap /\ {fresh, took} \subseteq [Lags -> 0 .. MaxSamples]
    BY <1>3, <1>4 DEF LagInit
  <2>2. overlap \in [last : BOOLEAN, this : BOOLEAN] /\ drained \in BOOLEAN
    BY DEF LagInit
  <2>3. samples \in 0 .. MaxSamples /\ cell = Idle /\ max = 0 /\ restarted = FALSE /\ spanned = FALSE
    BY <1>1 DEF LagInit
  <2>4. QED BY <1>5, <1>7, <2>1, <2>2, <2>3 DEF LagTypeOK
<1>9. Cardinality({}) = 0
  BY FS_EmptySet
<1>10. \A x : Counting(x) = {} /\ Entering(x) = {}
  BY <1>6 DEF Counting, Entering
<1>11. \A x \in Lags : fresh[x] + Cardinality(Counting(x)) <= samples
  BY <1>9, <1>10 DEF LagInit, Nothing
<1>12. \A k \in Cells : b[k] + Cardinality(Entering(k)) <= samples
  BY <1>9, <1>10 DEF LagInit, Zeros
<1>13. QED BY <1>6, <1>8, <1>11, <1>12 DEF CountInv

(* One thread moves: what it is about to do decides what is still to come. *)
LEMMA RecordCounts ==
  ASSUME CountInv, NEW r \in Recorders, NEW ms \in Lags, Record(r, ms)
  PROVE  CountInv'
<1> USE DEF Record
<1>1. LagTypeOK /\ MaxSamples \in Nat
  BY LagAssumption DEF CountInv
<1>2. /\ rec' \in [Recorders -> [at : {"idle", "count", "load", "raise"}, ms : Lags \cup {0}]]
      /\ rec'[r] = [at |-> "count", ms |-> ms] /\ \A q \in Recorders \ {r} : rec'[q] = rec[q]
  BY <1>1 DEF LagTypeOK
<1>3. samples \in 0 .. MaxSamples /\ samples' \in 0 .. MaxSamples /\ samples' = samples + 1
  BY <1>1 DEF LagTypeOK
<1>4. overlap' \in [last : BOOLEAN, this : BOOLEAN]
  BY <1>1 DEF LagTypeOK
<1>5. LagTypeOK'
  BY <1>1, <1>2, <1>3, <1>4 DEF LagTypeOK, atomics, reading
<1>6. \A q \in Recorders : rec'[q].at # "idle" => rec'[q].ms \in Lags
  BY <1>2 DEF CountInv
<1>7. ASSUME NEW x \in Lags
      PROVE  fresh'[x] + Cardinality(Counting(x)') <= samples'
  <2>1. Counting(x)' = Counting(x) \/ Counting(x)' = Counting(x) \cup {r}
    BY <1>2 DEF Counting
  <2>0. Counting(x) \subseteq Recorders
    BY DEF Counting
  <2>2. Cardinality(Counting(x)') <= Cardinality(Counting(x)) + 1
    <3>1. CASE Counting(x)' = Counting(x)
      BY <2>0, <3>1, Threading
    <3>2. CASE Counting(x)' = Counting(x) \cup {r}
      BY <2>0, <3>2, ThreadMore
    <3>3. QED BY <2>1, <3>1, <3>2
  <2>3. /\ Cardinality(Counting(x)) \in Nat /\ Cardinality(Counting(x)') \in Nat /\ fresh[x] \in Nat
        /\ fresh[x] + Cardinality(Counting(x)) <= samples /\ fresh' = fresh
    <3>1. Counting(x) \subseteq Recorders /\ Counting(x)' \subseteq Recorders
      BY DEF Counting
    <3>2. QED BY <1>1, <3>1, Threading DEF LagTypeOK, CountInv
  <2>4. QED BY <1>3, <2>2, <2>3
<1>8. ASSUME NEW k \in Cells
      PROVE  b'[k] + Cardinality(Entering(k)') <= samples'
  <2>1. Entering(k)' = Entering(k) \/ Entering(k)' = Entering(k) \cup {r}
    BY <1>2 DEF Entering
  <2>0. Entering(k) \subseteq Recorders
    BY DEF Entering
  <2>2. Cardinality(Entering(k)') <= Cardinality(Entering(k)) + 1
    <3>1. CASE Entering(k)' = Entering(k)
      BY <2>0, <3>1, Threading
    <3>2. CASE Entering(k)' = Entering(k) \cup {r}
      BY <2>0, <3>2, ThreadMore
    <3>3. QED BY <2>1, <3>1, <3>2
  <2>3. /\ Cardinality(Entering(k)) \in Nat /\ Cardinality(Entering(k)') \in Nat /\ b[k] \in Nat
        /\ b[k] + Cardinality(Entering(k)) <= samples /\ b' = b
    <3>1. Entering(k) \subseteq Recorders /\ Entering(k)' \subseteq Recorders
      BY DEF Entering
    <3>2. b[k] \in Nat
      BY <1>1, Powers DEF LagTypeOK, Counters
    <3>3. QED BY <1>1, <3>1, <3>2, Threading DEF CountInv, atomics
  <2>4. QED BY <1>3, <2>2, <2>3
<1>9. QED BY <1>5, <1>6, <1>7, <1>8 DEF CountInv

LEMMA CountCounts ==
  ASSUME CountInv, NEW r \in Recorders, Count(r)
  PROVE  CountInv'
<1> USE DEF Count, Move
<1> DEFINE ms == rec[r].ms
<1>1. LagTypeOK /\ MaxSamples \in Nat /\ rec[r].at = "count" /\ ms \in Lags
  BY LagAssumption DEF CountInv
<1>2. /\ rec' \in [Recorders -> [at : {"idle", "count", "load", "raise"}, ms : Lags \cup {0}]]
      /\ rec'[r].at = "load" /\ rec'[r].ms = ms /\ \A q \in Recorders \ {r} : rec'[q] = rec[q]
  BY <1>1 DEF LagTypeOK
<1>3. samples \in 0 .. MaxSamples /\ samples' = samples
  BY <1>1 DEF LagTypeOK
<1>4. /\ fresh \in [Lags -> Nat] /\ fresh' \in [Lags -> Nat] /\ fresh'[ms] = fresh[ms] + 1
      /\ \A x \in Lags \ {ms} : fresh'[x] = fresh[x]
  BY <1>1 DEF LagTypeOK
<1>5. Bucket(ms) \in Cells
  BY <1>1, BucketFacts
<1>6. \A k \in Cells : b[k] \in Nat /\ (b[k] + 1) % 2 ^ Width \in 0 .. 2 ^ Width - 1 /\ (b[k] + 1) % 2 ^ Width <= b[k] + 1
  <2>1. TAKE k \in Cells
  <2>2. b[k] \in Nat /\ 2 ^ Width \in Nat \ {0}
    BY <1>1, Powers DEF LagTypeOK, Counters
  <2> DEFINE top == 2 ^ Width
             v == b[k] + 1
  <2>3. v \in Nat /\ top \in Nat \ {0}
    BY <2>2
  <2> HIDE DEF v, top
  <2>4. v % top \in 0 .. top - 1 /\ v % top <= v
    BY <2>3, Wrapped
  <2>6. QED BY <2>2, <2>4 DEF v, top
<1>7. /\ b' \in Counters /\ b'[Bucket(ms)] <= b[Bucket(ms)] + 1
      /\ \A k \in Cells \ {Bucket(ms)} : b'[k] = b[k]
  BY <1>1, <1>5, <1>6 DEF LagTypeOK, Counters
<1>8. \A q \in Recorders : rec'[q].at # "idle" => rec'[q].ms \in Lags
  BY <1>1, <1>2 DEF CountInv
<1>9. ASSUME NEW x \in Lags
      PROVE  fresh'[x] + Cardinality(Counting(x)') <= samples'
  <2>0. /\ Cardinality(Counting(x)) \in Nat /\ Cardinality(Counting(x)') \in Nat
        /\ fresh[x] + Cardinality(Counting(x)) <= samples
    <3>1. Counting(x) \subseteq Recorders /\ Counting(x)' \subseteq Recorders
      BY DEF Counting
    <3>2. QED BY <3>1, Threading DEF CountInv
  <2>1. CASE x = ms
    <3>1. Counting(x)' = Counting(x) \ {r} /\ r \in Counting(x) /\ Counting(x) \subseteq Recorders
      BY <1>1, <1>2, <2>1 DEF Counting
    <3>2. Cardinality(Counting(x)') = Cardinality(Counting(x)) - 1
      BY <3>1, ThreadLess
    <3>3. QED BY <1>3, <1>4, <2>0, <2>1, <3>2
  <2>2. CASE x # ms
    <3>1. Counting(x)' = Counting(x)
      BY <1>1, <1>2, <2>2 DEF Counting
    <3>2. QED BY <1>3, <1>4, <2>0, <2>2, <3>1
  <2>3. QED BY <2>1, <2>2
<1>10. ASSUME NEW k \in Cells
       PROVE  b'[k] + Cardinality(Entering(k)') <= samples'
  <2>0. /\ Cardinality(Entering(k)) \in Nat /\ Cardinality(Entering(k)') \in Nat
        /\ b[k] + Cardinality(Entering(k)) <= samples /\ b[k] \in Nat /\ b'[k] \in Nat
    <3>1. Entering(k) \subseteq Recorders /\ Entering(k)' \subseteq Recorders
      BY DEF Entering
    <3>2. b'[k] \in Nat
      BY <1>7, Powers DEF Counters
    <3>3. QED BY <1>6, <3>1, <3>2, Threading DEF CountInv
  <2>1. CASE k = Bucket(ms)
    <3>1. Entering(k)' = Entering(k) \ {r} /\ r \in Entering(k) /\ Entering(k) \subseteq Recorders
      BY <1>1, <1>2, <2>1 DEF Entering
    <3>2. Cardinality(Entering(k)') = Cardinality(Entering(k)) - 1
      BY <3>1, ThreadLess
    <3>3. b'[k] <= b[k] + 1
      BY <1>7, <2>1
    <3>4. QED BY <1>3, <2>0, <3>2, <3>3
  <2>2. CASE k # Bucket(ms)
    <3>1. Entering(k)' = Entering(k)
      BY <1>1, <1>2, <2>2 DEF Entering
    <3>2. QED BY <1>3, <1>7, <2>0, <2>2, <3>1
  <2>3. QED BY <2>1, <2>2
<1>11. fresh' \in [Lags -> 0 .. MaxSamples]
  <2>1. ASSUME NEW x \in Lags
        PROVE  fresh'[x] \in 0 .. MaxSamples
    <3>1. Counting(x)' \subseteq Recorders
      BY DEF Counting
    <3>2. Cardinality(Counting(x)') \in Nat
      BY <3>1, Threading
    <3>3. QED BY <1>1, <1>3, <1>4, <1>9, <3>2
  <2>2. QED BY <1>4, <2>1
<1> HIDE DEF ms
<1>12. LagTypeOK'
  BY <1>1, <1>2, <1>7, <1>11 DEF LagTypeOK, reading
<1>13. QED BY <1>8, <1>9, <1>10, <1>12 DEF CountInv

(* The other steps of a thread leave alone what is still to be counted.    *)
LEMMA SameToCome ==
  ASSUME CountInv, LagTypeOK', b' = b, fresh' = fresh, samples' = samples,
         \A r \in Recorders : /\ rec'[r].at = "count" => rec'[r] = rec[r]
                              /\ rec[r].at = "count" => rec'[r] = rec[r]
                              /\ rec'[r].at # "idle" => rec'[r].ms \in Lags
  PROVE  CountInv'
<1>1. \A x : Counting(x)' = Counting(x) /\ Entering(x)' = Entering(x)
  BY DEF Counting, Entering
<1>2. QED BY <1>1 DEF CountInv

LEMMA MaxCounts ==
  ASSUME CountInv, NEW r \in Recorders, LoadMax(r) \/ RaiseMax(r)
  PROVE  CountInv'
<1>1. LagTypeOK /\ (rec[r].at # "idle" => rec[r].ms \in Lags)
  BY DEF CountInv
<1>2. /\ rec' \in [Recorders -> [at : {"idle", "count", "load", "raise"}, ms : Lags \cup {0}]]
      /\ \A q \in Recorders \ {r} : rec'[q] = rec[q]
      /\ rec'[r] = Resting \/ (rec'[r].at = "raise" /\ rec'[r].ms = rec[r].ms)
      /\ rec[r].at # "count" /\ rec[r].at # "idle"
  BY <1>1 DEF LoadMax, RaiseMax, Move, LagTypeOK, Resting
<1>3. max' \in Lags \cup {0}
  <2>1. rec[r].ms \in Lags /\ max \in Lags \cup {0}
    BY <1>1, <1>2 DEF LagTypeOK
  <2>2. CASE LoadMax(r)
    BY <2>1, <2>2 DEF LoadMax, atomics
  <2>3. CASE RaiseMax(r)
    BY <2>1, <2>3 DEF RaiseMax, Larger
  <2>4. QED BY <2>2, <2>3
<1>4. UNCHANGED <<drained, b, reading, history>>
  BY DEF LoadMax, RaiseMax, atomics
<1>5. LagTypeOK'
  BY <1>1, <1>2, <1>3, <1>4 DEF LagTypeOK, reading, history
<1>6. \A q \in Recorders : /\ rec'[q].at = "count" => rec'[q] = rec[q]
                           /\ rec[q].at = "count" => rec'[q] = rec[q]
                           /\ rec'[q].at # "idle" => rec'[q].ms \in Lags
  BY <1>1, <1>2 DEF Resting, CountInv
<1>7. QED BY <1>4, <1>5, <1>6, SameToCome DEF history

LEMMA BeginCounts ==
  ASSUME CountInv, Begin
  PROVE  CountInv'
<1>1. LagTypeOK
  BY DEF CountInv
<1>2. K \in Nat /\ K >= 2 /\ MaxSamples \in Nat
  BY LagAssumption
<1>3. None \in Snap /\ Nothing \in [Lags -> 0 .. MaxSamples] /\ 0 \in Cells
  BY <1>2, Powers DEF None, Snap, Counters, Zeros, Nothing, Cells
<1>4. overlap' \in [last : BOOLEAN, this : BOOLEAN]
  BY <1>1 DEF LagTypeOK, Begin
<1>5. LagTypeOK'
  BY <1>1, <1>3, <1>4 DEF LagTypeOK, Begin, atomics
<1>6. \A q \in Recorders : rec'[q] = rec[q] /\ (rec'[q].at # "idle" => rec'[q].ms \in Lags)
  BY DEF Begin, CountInv
<1>7. QED BY <1>5, <1>6, SameToCome DEF Begin, atomics

LEMMA ReadCounts ==
  ASSUME CountInv, ReadBucket
  PROVE  CountInv'
<1>1. LagTypeOK /\ cell \in Cells
  BY DEF CountInv, ReadBucket
<1>2. K \in Nat /\ K >= 2 /\ MaxSamples \in Nat
  BY LagAssumption
<1>3. b' \in Counters /\ \A k \in Cells : b[k] \in Nat /\ b'[k] \in Nat /\ b'[k] <= b[k]
  <2>1. \A k \in Cells : b[k] \in 0 .. 2 ^ Width - 1
    BY <1>1 DEF LagTypeOK, Counters
  <2>2. b' \in Counters /\ \A k \in Cells : b'[k] \in {0, b[k]}
    BY <1>1, Powers DEF LagTypeOK, Counters, ReadBucket, Swapped
  <2>3. QED BY <2>1, <2>2, Powers
<1>4. part' \in Snap
  BY <1>1 DEF LagTypeOK, Snap, Counters, ReadBucket
<1>5. /\ fresh' \in [Lags -> 0 .. MaxSamples] /\ took' \in [Lags -> 0 .. MaxSamples]
      /\ \A x \in Lags : fresh[x] \in Nat /\ fresh'[x] \in Nat /\ fresh'[x] <= fresh[x]
  BY <1>1, <1>2 DEF LagTypeOK, ReadBucket, Collected
<1>6. cell' \in Cells \cup {K, Idle}
  BY <1>1, <1>2 DEF ReadBucket, Cells
<1>7. LagTypeOK'
  BY <1>1, <1>3, <1>4, <1>5, <1>6 DEF LagTypeOK, ReadBucket
<1>8. rec' = rec /\ samples' = samples
  BY DEF ReadBucket
<1>9. \A x : Counting(x)' = Counting(x) /\ Entering(x)' = Entering(x)
  BY <1>8 DEF Counting, Entering
<1>10. \A x : Cardinality(Counting(x)) \in Nat /\ Cardinality(Entering(x)) \in Nat
  <2>1. \A x : Counting(x) \subseteq Recorders /\ Entering(x) \subseteq Recorders
    BY DEF Counting, Entering
  <2>2. QED BY <2>1, Threading
<1>11. samples \in Nat
  BY <1>1, <1>2 DEF LagTypeOK
<1>12. ASSUME NEW x \in Lags
       PROVE  fresh'[x] + Cardinality(Counting(x)') <= samples'
  <2>1. fresh[x] + Cardinality(Counting(x)) <= samples
    BY DEF CountInv
  <2>2. QED BY <1>5, <1>8, <1>9, <1>10, <1>11, <2>1
<1>13. ASSUME NEW k \in Cells
       PROVE  b'[k] + Cardinality(Entering(k)') <= samples'
  <2>1. b[k] + Cardinality(Entering(k)) <= samples
    BY DEF CountInv
  <2>2. QED BY <1>3, <1>8, <1>9, <1>10, <1>11, <2>1
<1>14. QED BY <1>7, <1>8, <1>12, <1>13 DEF CountInv

(* What since returns of two snapshots.                                    *)
LEMMA SinceFacts ==
  ASSUME NEW s \in Snap, NEW p \in Snap
  PROVE  LET w == Since(s, p) IN
         /\ w.b \in Counters /\ w.max \in 0 .. Unbounded /\ \A k \in Cells : w.b[k] <= s.b[k]
         /\ (\A k \in Cells : s.b[k] >= p.b[k]) => \A k \in Cells : w.b[k] = s.b[k] - p.b[k]
         /\ \A k \in Cells, x \in Lags :
              (\A j \in Cells : s.b[j] >= p.b[j]) /\ s.b[k] > p.b[k] /\ Bucket(x) = k /\ x <= s.max => x <= w.max
<1> DEFINE w == Since(s, p)
           d == [k \in Cells |-> s.b[k] - p.b[k]]
           top == {k \in Cells : d[k] > 0}
<1>1. K \in Nat /\ K >= 2 /\ Unbounded \in Nat /\ 2 ^ Width \in Nat
  BY LagAssumption, Powers
<1>2. s.b \in Counters /\ p.b \in Counters /\ s.max \in Lags \cup {0}
  BY DEF Snap
<1>3. \A k \in Cells : s.b[k] \in 0 .. 2 ^ Width - 1 /\ p.b[k] \in 0 .. 2 ^ Width - 1
  BY <1>2 DEF Counters
<1>4. s.max \in 0 .. Unbounded
  <2>1. \A x \in Lags : x \in 0 .. Unbounded
    BY LagAssumption
  <2>2. 0 \in 0 .. Unbounded
    BY <1>1
  <2>3. QED BY <1>2, <2>1, <2>2
<1>5. CASE \E k \in Cells : s.b[k] < p.b[k]
  <2>1. w = s
    BY <1>5 DEF Since
  <2>2. ~(\A k \in Cells : s.b[k] >= p.b[k])
    BY <1>1, <1>3, <1>5
  <2> HIDE DEF w
  <2>3. \A k \in Cells : w.b[k] <= s.b[k]
    BY <1>1, <1>3, <2>1
  <2>4. w.b \in Counters /\ w.max \in 0 .. Unbounded
    BY <1>2, <1>4, <2>1
  <2>5. QED BY <2>2, <2>3, <2>4 DEF w
<1>6. CASE ~(\E k \in Cells : s.b[k] < p.b[k])
  <2>1. w = [b |-> d, max |-> IF top = {} THEN 0 ELSE Smaller(Edge(Max(top)), s.max)]
    BY <1>6 DEF Since
  <2>2. \A k \in Cells : d[k] = s.b[k] - p.b[k] /\ d[k] \in 0 .. 2 ^ Width - 1 /\ d[k] <= s.b[k]
    BY <1>1, <1>3, <1>6
  <2>3. d \in Counters
    BY <2>2 DEF Counters
  <2>4. \A k \in top : /\ Max(top) \in top /\ k <= Max(top) /\ k \in Nat /\ Max(top) \in Cells
    <3>1. top \in SUBSET (0 .. K - 1) /\ K - 1 \in Nat
      BY <1>1 DEF Cells
    <3>2. top # {} => Max(top) \in top /\ \A y \in top : y <= Max(top)
      BY <3>1, MaxBelow
    <3>3. QED BY <3>1, <3>2
  <2>5. \A k \in Cells : Edge(k) \in Nat
    <3>1. \A k \in Cells : 2 ^ k \in Nat \ {0}
      BY <1>1, PowerNext DEF Cells
    <3>2. QED BY <1>1, <3>1 DEF Edge
  <2> HIDE DEF d, top
  <2>6. w.b = d /\ w.max = IF top = {} THEN 0 ELSE Smaller(Edge(Max(top)), s.max)
    BY <2>1
  <2> HIDE DEF w
  <2>7. w.max \in 0 .. Unbounded
    <3>1. CASE top = {}
      BY <1>1, <2>6, <3>1
    <3>2. CASE top # {}
      <4>1. Edge(Max(top)) \in Nat
        BY <2>4, <2>5, <3>2
      <4>2. QED BY <1>1, <1>4, <2>6, <3>2, <4>1 DEF Smaller
    <3>3. QED BY <3>1, <3>2
  <2>8. ASSUME NEW k \in Cells, NEW x \in Lags, s.b[k] > p.b[k], Bucket(x) = k, x <= s.max
        PROVE  x <= w.max
    <3>1. k \in top
      BY <1>1, <1>3, <2>2, <2>8 DEF top
    <3>2. Max(top) \in Cells /\ Bucket(x) <= Max(top)
      BY <2>4, <2>8, <3>1
    <3>3. x <= Edge(Max(top))
      BY <3>2, BucketFacts
    <3>4. QED BY <2>6, <2>8, <3>1, <3>3 DEF Smaller
  <2>9. QED BY <2>2, <2>3, <2>6, <2>7, <2>8 DEF w
<1>7. QED BY <1>5, <1>6

LEMMA ReadMaxCounts ==
  ASSUME CountInv, ReadMax
  PROVE  CountInv'
<1>1. LagTypeOK
  BY DEF CountInv
<1>2. K \in Nat /\ K >= 2 /\ Unbounded \in Nat
  BY LagAssumption
<1> DEFINE s == [part EXCEPT !.max = max]
<1>3. s \in Snap /\ prev \in Snap /\ None \in Snap
  BY <1>1, Powers DEF LagTypeOK, Snap, None, Zeros, Counters
<1>4. s.b \in Counters /\ s.max \in 0 .. Unbounded
  BY <1>2, <1>3, LagAssumption DEF Snap
<1>5. Since(s, prev).b \in Counters /\ Since(s, prev).max \in 0 .. Unbounded
  BY <1>3, SinceFacts
<1>6. win'.b \in Counters /\ win'.max \in 0 .. Unbounded /\ prev' \in Snap /\ part' \in Snap
  <2>1. win' = (IF drained THEN s ELSE Since(s, prev)) /\ prev' = (IF drained THEN prev ELSE s) /\ part' = None
    BY DEF ReadMax
  <2> HIDE DEF s
  <2>2. CASE drained
    BY <1>3, <1>4, <2>1, <2>2
  <2>3. CASE ~drained
    BY <1>3, <1>5, <2>1, <2>3
  <2>4. QED BY <2>2, <2>3
<1>7. max' \in Lags \cup {0} /\ cell' \in Cells \cup {K, Idle} /\ restarted' \in BOOLEAN /\ spanned' \in BOOLEAN
  BY <1>1 DEF LagTypeOK, ReadMax
<1>8. LagTypeOK'
  BY <1>1, <1>6, <1>7 DEF LagTypeOK, ReadMax
<1>9. \A q \in Recorders : rec'[q] = rec[q] /\ (rec'[q].at # "idle" => rec'[q].ms \in Lags)
  BY DEF ReadMax, CountInv
<1>10. QED BY <1>8, <1>9, SameToCome DEF ReadMax

LEMMA RestartCounts ==
  ASSUME CountInv, Restart
  PROVE  CountInv'
<1>1. LagTypeOK
  BY DEF CountInv
<1>2. rec' \in [Recorders -> [at : {"idle", "count", "load", "raise"}, ms : Lags \cup {0}]]
      /\ \A r \in Recorders : rec'[r].at = "idle"
  BY DEF Restart, Resting
<1>3. b' \in Counters /\ \A k \in Cells : b'[k] = 0
  BY Powers DEF Restart, Zeros, Counters
<1>4. LagTypeOK'
  BY <1>1, <1>2, <1>3 DEF LagTypeOK, Restart, reading
<1>5. \A x : Counting(x)' = {} /\ Entering(x)' = {}
  BY <1>2 DEF Counting, Entering
<1>6. Cardinality({}) = 0
  BY FS_EmptySet
<1>7. samples \in Nat /\ samples' = samples /\ fresh' = fresh
  BY <1>1, LagAssumption DEF LagTypeOK, Restart
<1>8. ASSUME NEW x \in Lags
      PROVE  fresh'[x] + Cardinality(Counting(x)') <= samples'
  <2>1. fresh[x] + Cardinality(Counting(x)) <= samples /\ fresh[x] \in Nat
    BY <1>1 DEF CountInv, LagTypeOK
  <2>2. Cardinality(Counting(x)) \in Nat
    BY Threading DEF Counting
  <2>3. QED BY <1>5, <1>6, <1>7, <2>1, <2>2
<1>9. \A k \in Cells : b'[k] + Cardinality(Entering(k)') <= samples'
  BY <1>3, <1>5, <1>6, <1>7
<1>10. QED BY <1>2, <1>4, <1>8, <1>9 DEF CountInv

-----------------------------------------------------------------------------
(* What a cell holds against the history.                                  *)

LEMMA InBuckets ==
  ASSUME NEW k \in Cells
  PROVE  InBucket(k) \in SUBSET Lags /\ IsFiniteSet(InBucket(k))
<1>1. InBucket(k) \in SUBSET Lags
  BY DEF InBucket
<1>2. QED BY <1>1, LagsNat, FS_Subset

LEMMA TotalIsSum == \A h, S : Total(h, S) = SumOf(h, S)
  BY DEF Total, SumOf

LEMMA TotalNat ==
  ASSUME NEW h, \A x \in Lags : h[x] \in Nat, NEW k \in Cells
  PROVE  /\ Total(h, InBucket(k)) \in Nat /\ Summable(h, InBucket(k))
         /\ \A x \in InBucket(k) : h[x] <= Total(h, InBucket(k))
<1>1. InBucket(k) \in SUBSET InBucket(k) /\ Summable(h, InBucket(k))
  BY InBuckets DEF Summable
<1>2. SumOf(h, InBucket(k)) \in Nat
  BY <1>1, SumNat
<1>3. ASSUME NEW x \in InBucket(k)
      PROVE  h[x] <= SumOf(h, InBucket(k))
  <2>1. SumOf(h, InBucket(k)) = h[x] + SumOf(h, InBucket(k) \ {x})
    BY <1>1, SumTaken
  <2>2. InBucket(k) \ {x} \in SUBSET InBucket(k)
    OBVIOUS
  <2>3. SumOf(h, InBucket(k) \ {x}) \in Nat /\ h[x] \in Nat
    BY <1>1, <2>2, SumNat DEF Summable
  <2>4. QED BY <2>1, <2>3
<1>4. QED BY <1>1, <1>2, <1>3, TotalIsSum

LEMMA TotalSame ==
  ASSUME NEW h, \A x \in Lags : h[x] \in Nat, NEW k \in Cells, NEW g, \A x \in InBucket(k) : g[x] = h[x]
  PROVE  Total(g, InBucket(k)) = Total(h, InBucket(k))
<1>1. Summable(h, InBucket(k))
  BY TotalNat
<1>2. QED BY <1>1, SumSame, TotalIsSum

LEMMA TotalZero ==
  ASSUME NEW k \in Cells, NEW h, \A x \in InBucket(k) : h[x] = 0
  PROVE  Total(h, InBucket(k)) = 0
  BY InBuckets, SumZero, TotalIsSum

LEMMA TotalMore ==
  ASSUME NEW h, \A x \in Lags : h[x] \in Nat, NEW a \in Lags, NEW g,
         g[a] = h[a] + 1, \A x \in Lags \ {a} : g[x] = h[x]
  PROVE  /\ Total(g, InBucket(Bucket(a))) = Total(h, InBucket(Bucket(a))) + 1
         /\ \A k \in Cells \ {Bucket(a)} : Total(g, InBucket(k)) = Total(h, InBucket(k))
<1> DEFINE D == InBucket(Bucket(a))
<1>1. Bucket(a) \in Cells
  BY BucketFacts
<1>2. a \in D /\ D \subseteq Lags /\ Summable(h, D)
  BY <1>1, TotalNat DEF InBucket
<1>3. \A x \in D \ {a} : g[x] = h[x]
  BY <1>2
<1>4. h[a] + 1 \in Nat
  OBVIOUS
<1> HIDE DEF D
<1>5. SumOf(g, D) = SumOf(h, D) + 1
  BY <1>2, <1>3, <1>4, SumAdded
<1>6. ASSUME NEW k \in Cells \ {Bucket(a)}
      PROVE  Total(g, InBucket(k)) = Total(h, InBucket(k))
  <2>1. \A x \in InBucket(k) : g[x] = h[x]
    BY DEF InBucket
  <2>2. QED BY <2>1, TotalSame
<1>7. QED BY <1>5, <1>6, TotalIsSum DEF D

LEMMA LagNumbers ==
  ASSUME LagTypeOK
  PROVE  /\ \A x \in Lags : fresh[x] \in Nat /\ took[x] \in Nat
         /\ \A k \in Cells : b[k] \in Nat /\ part.b[k] \in Nat /\ prev.b[k] \in Nat /\ win.b[k] \in Nat
         /\ \A k \in Cells : k \in Nat /\ k < K /\ k > Idle /\ K \in Nat
         /\ cell \in Int
<1>1. \A c \in Counters, k \in Cells : c[k] \in Nat
  BY Powers DEF Counters
<1>2. b \in Counters /\ part.b \in Counters /\ prev.b \in Counters /\ win.b \in Counters
  BY DEF LagTypeOK, Snap
<1>3. \A x \in Lags : fresh[x] \in Nat /\ took[x] \in Nat
  BY LagAssumption DEF LagTypeOK
<1>4. K \in Nat /\ cell \in Int /\ \A k \in Cells : k \in Nat /\ k < K /\ k > Idle
  BY LagAssumption DEF LagTypeOK, Cells, Idle
<1>5. QED BY <1>1, <1>2, <1>3, <1>4

LEMMA CellStart == LagInit => CellInv
<1> SUFFICES ASSUME LagInit PROVE CellInv
  OBVIOUS
<1>1. \A k \in Cells : Total(Nothing, InBucket(k)) = 0
  <2>1. TAKE k \in Cells
  <2>2. \A x \in InBucket(k) : Nothing[x] = 0
    BY DEF InBucket, Nothing
  <2>3. QED BY <2>2, TotalZero
<1>2. \A k \in Cells : k \in Nat /\ ~(k < Idle) /\ Zeros[k] = 0
  BY LagAssumption DEF Cells, Idle, Zeros
<1>3. WindowsPartition
  BY <1>1, <1>2 DEF WindowsPartition, LagInit, None
<1>4. QED BY <1>1, <1>2, <1>3 DEF CellInv, LagInit, None

LEMMA SameCells ==
  ASSUME CellInv, UNCHANGED <<drained, b, cell, part, prev, win, fresh, took, restarted, spanned>>
  PROVE  CellInv'
  BY DEF CellInv, WindowsPartition, Completed

LEMMA CountCells ==
  ASSUME CountersHold, CountInv, CellInv, NEW r \in Recorders, Count(r)
  PROVE  CellInv'
<1> DEFINE a == rec[r].ms
<1>1. LagTypeOK /\ a \in Lags /\ rec[r].at = "count"
  BY DEF CountInv, Count
<1>2. /\ \A x \in Lags : fresh[x] \in Nat /\ took[x] \in Nat
      /\ \A k \in Cells : b[k] \in Nat /\ part.b[k] \in Nat /\ prev.b[k] \in Nat
  BY <1>1, LagNumbers
<1>3. fresh'[a] = fresh[a] + 1 /\ \A x \in Lags \ {a} : fresh'[x] = fresh[x]
  BY <1>1 DEF Count, LagTypeOK
<1>4. Bucket(a) \in Cells
  BY <1>1, BucketFacts
<1>5. b[Bucket(a)] + 1 < 2 ^ Width
  <2>1. Entering(Bucket(a)) \subseteq Recorders /\ r \in Entering(Bucket(a))
    BY <1>1 DEF Entering
  <2>2. Cardinality(Entering(Bucket(a))) \in Nat /\ IsFiniteSet(Entering(Bucket(a)))
    BY <2>1, Threading
  <2>3. Cardinality(Entering(Bucket(a))) >= 1
    <3>1. Cardinality(Entering(Bucket(a)) \ {r}) \in Nat
               /\ Cardinality(Entering(Bucket(a)) \ {r}) = Cardinality(Entering(Bucket(a))) - 1
      BY <2>1, <2>2, Removed
    <3>2. QED BY <2>2, <3>1
  <2>4. b[Bucket(a)] + Cardinality(Entering(Bucket(a))) <= samples /\ samples <= MaxSamples
    BY <1>1, <1>4, LagAssumption DEF CountInv, LagTypeOK
  <2>5. samples \in Nat /\ MaxSamples \in Nat /\ 2 ^ Width \in Nat /\ b[Bucket(a)] \in Nat
    BY <1>1, <1>2, <1>4, LagAssumption, Powers DEF LagTypeOK
  <2>6. QED BY <2>2, <2>3, <2>4, <2>5 DEF CountersHold
<1>6. (b[Bucket(a)] + 1) % 2 ^ Width = b[Bucket(a)] + 1
  <2>1. b[Bucket(a)] + 1 \in Nat /\ 2 ^ Width \in Nat \ {0}
    BY <1>2, <1>4, Powers
  <2>2. QED BY <1>5, <2>1, Wrapped
<1>7. b'[Bucket(a)] = b[Bucket(a)] + 1 /\ \A k \in Cells \ {Bucket(a)} : b'[k] = b[k]
  BY <1>1, <1>4, <1>6 DEF Count, LagTypeOK, Counters
<1>8. UNCHANGED <<drained, cell, part, prev, win, took, restarted, spanned>>
  BY DEF Count, reading
<1> HIDE DEF a
<1>9. /\ Total(fresh', InBucket(Bucket(a))) = Total(fresh, InBucket(Bucket(a))) + 1
      /\ \A k \in Cells \ {Bucket(a)} : Total(fresh', InBucket(k)) = Total(fresh, InBucket(k))
  BY <1>1, <1>2, <1>3, TotalMore
<1>10. \A k \in Cells : Total(fresh, InBucket(k)) \in Nat
  BY <1>2, TotalNat
<1>11. \A k \in Cells : \/ b'[k] = b[k] /\ Total(fresh', InBucket(k)) = Total(fresh, InBucket(k))
                        \/ b'[k] = b[k] + 1 /\ Total(fresh', InBucket(k)) = Total(fresh, InBucket(k)) + 1
  BY <1>7, <1>9
<1>12. WindowsPartition'
  BY <1>8 DEF CellInv, WindowsPartition, Completed
<1>13. QED BY <1>2, <1>8, <1>10, <1>11, <1>12 DEF CellInv

LEMMA BeginCells ==
  ASSUME CountInv, CellInv, Begin
  PROVE  CellInv'
<1>1. LagTypeOK
  BY DEF CountInv
<1>2. \A k \in Cells : k \in Nat /\ k >= 0 /\ ~(k < 0) /\ ~(k < Idle) /\ k >= Idle
  BY <1>1, LagNumbers DEF Idle
<1>3. cell = Idle /\ cell' = 0 /\ UNCHANGED <<drained, b, prev, fresh, restarted>>
  BY DEF Begin, atomics
<1>4. WindowsPartition'
  BY <1>3 DEF WindowsPartition, Completed, Idle
<1>5. QED BY <1>2, <1>3, <1>4 DEF CellInv

LEMMA ReadCells ==
  ASSUME CountInv, CellInv, ReadBucket
  PROVE  CellInv'
<1>1. LagTypeOK /\ cell \in Cells /\ cell' = cell + 1 /\ UNCHANGED <<drained, prev, restarted>>
  BY DEF CountInv, ReadBucket
<1>2. /\ \A x \in Lags : fresh[x] \in Nat /\ took[x] \in Nat
      /\ \A k \in Cells : b[k] \in Nat /\ part.b[k] \in Nat /\ prev.b[k] \in Nat /\ k \in Nat
      /\ cell \in Nat
  BY <1>1, LagNumbers
<1>3. /\ part'.b[cell] = b[cell] /\ \A k \in Cells \ {cell} : part'.b[k] = part.b[k] /\ b'[k] = b[k]
      /\ drained => b'[cell] = 0
      /\ ~drained => b'[cell] = b[cell]
  BY <1>1 DEF ReadBucket, Swapped, LagTypeOK, Snap, Counters
<1>4. ASSUME NEW k \in Cells \ {cell}
      PROVE  Total(fresh', InBucket(k)) = Total(fresh, InBucket(k)) /\ Total(took', InBucket(k)) = Total(took, InBucket(k))
  <2>1. \A x \in InBucket(k) : fresh'[x] = fresh[x] /\ took'[x] = took[x]
    BY <1>1 DEF ReadBucket, Collected, InBucket
  <2>2. QED BY <1>2, <2>1, TotalSame
<1>5. Total(fresh', InBucket(cell)) = 0
  <2>1. \A x \in InBucket(cell) : fresh'[x] = 0
    BY <1>1 DEF ReadBucket, Collected, InBucket
  <2>2. QED BY <1>1, <2>1, TotalZero
<1>6. Total(took', InBucket(cell)) = Total(fresh, InBucket(cell))
  <2>1. \A x \in InBucket(cell) : took'[x] = fresh[x]
    BY <1>1 DEF ReadBucket, Collected, InBucket
  <2>2. QED BY <1>1, <1>2, <2>1, TotalSame
<1>7. \A k \in Cells : Total(fresh, InBucket(k)) \in Nat
  BY <1>2, TotalNat
<1>8. WindowsPartition'
  BY <1>1, <1>2 DEF WindowsPartition, Completed, Idle
<1>9. drained => ~restarted
  BY DEF CellInv
<1> DEFINE Cell(k, d, t, c, bk, partk, prevk, left, seen) ==
       /\ d => bk = left
       /\ ~d /\ k < c => bk = partk + left
       /\ ~d /\ k >= c /\ ~t => bk = prevk + left
       /\ t /\ k >= c => bk <= left
       /\ d /\ k < c => partk = seen
       /\ ~d /\ k < c /\ ~t => partk = prevk + seen
       /\ t /\ k < c => partk <= seen
<1>10. \A k \in Cells : Cell(k, drained, restarted, cell, b[k], part.b[k], prev.b[k],
                            Total(fresh, InBucket(k)), Total(took, InBucket(k)))
  BY DEF CellInv
<1>11. ASSUME NEW k \in Cells
       PROVE  Cell(k, drained', restarted', cell', b'[k], part'.b[k], prev'.b[k],
                  Total(fresh', InBucket(k)), Total(took', InBucket(k)))
  <2>1. CASE k = cell
    <3>1. ~(k < cell) /\ k >= cell /\ k < cell' /\ ~(k >= cell')
      BY <1>1, <1>2, <2>1
    <3>2. /\ drained => b[k] = Total(fresh, InBucket(k))
          /\ ~drained /\ ~restarted => b[k] = prev.b[k] + Total(fresh, InBucket(k))
          /\ restarted => b[k] <= Total(fresh, InBucket(k))
      BY <1>10, <3>1
    <3>3. part'.b[k] = b[k] /\ (drained => b'[k] = 0) /\ (~drained => b'[k] = b[k])
          /\ Total(fresh', InBucket(k)) = 0 /\ Total(took', InBucket(k)) = Total(fresh, InBucket(k))
          /\ prev'.b[k] = prev.b[k] /\ b[k] \in Nat /\ Total(fresh, InBucket(k)) \in Nat
      BY <1>1, <1>2, <1>3, <1>5, <1>6, <1>7, <2>1
    <3>4. QED BY <1>1, <1>9, <3>1, <3>2, <3>3
  <2>2. CASE k # cell
    <3>1. (k < cell <=> k < cell') /\ (k >= cell <=> k >= cell')
      BY <1>1, <1>2, <2>2
    <3>2. b'[k] = b[k] /\ part'.b[k] = part.b[k] /\ Total(fresh', InBucket(k)) = Total(fresh, InBucket(k))
          /\ Total(took', InBucket(k)) = Total(took, InBucket(k)) /\ prev' = prev
      BY <1>1, <1>3, <1>4, <2>2
    <3>3. QED BY <1>1, <1>10, <3>1, <3>2
  <2>3. QED BY <2>1, <2>2
<1>12. QED BY <1>1, <1>8, <1>9, <1>11 DEF CellInv

LEMMA ReadMaxCells ==
  ASSUME CountInv, CellInv, ReadMax
  PROVE  CellInv'
<1>1. LagTypeOK /\ cell = K /\ cell' = Idle /\ ~restarted' /\ spanned' = restarted
      /\ UNCHANGED <<drained, b, fresh, took>>
  BY DEF CountInv, ReadMax
<1>2. /\ \A x \in Lags : fresh[x] \in Nat /\ took[x] \in Nat
      /\ \A k \in Cells : /\ b[k] \in Nat /\ part.b[k] \in Nat /\ prev.b[k] \in Nat
                          /\ k < cell /\ k >= Idle /\ ~(k < Idle)
  <2>1. \A k \in Cells : k \in Nat /\ k < K /\ k > Idle /\ K \in Nat
    BY <1>1, LagNumbers
  <2>2. \A k \in Cells : k < cell /\ k >= Idle /\ ~(k < Idle)
    BY <1>1, <2>1 DEF Idle
  <2>3. QED BY <1>1, <2>2, LagNumbers
<1> DEFINE s == [part EXCEPT !.max = max]
<1>3. s \in Snap /\ s.b = part.b /\ prev \in Snap
  BY <1>1 DEF LagTypeOK, Snap
<1>4. win' = (IF drained THEN s ELSE Since(s, prev)) /\ prev' = (IF drained THEN prev ELSE s)
  BY DEF ReadMax
<1> HIDE DEF s
<1>5. \A k \in Cells : Total(took, InBucket(k)) \in Nat /\ Total(fresh, InBucket(k)) \in Nat
  BY <1>2, TotalNat
<1>6. /\ \A k \in Cells : Since(s, prev).b[k] <= s.b[k]
      /\ (\A k \in Cells : s.b[k] >= prev.b[k]) => \A k \in Cells : Since(s, prev).b[k] = s.b[k] - prev.b[k]
  BY <1>3, SinceFacts
<1>7. \A k \in Cells :
        /\ drained => b[k] = Total(fresh, InBucket(k)) /\ part.b[k] = Total(took, InBucket(k))
        /\ ~drained => b[k] = part.b[k] + Total(fresh, InBucket(k))
        /\ ~drained /\ ~restarted => part.b[k] = prev.b[k] + Total(took, InBucket(k))
        /\ restarted => part.b[k] <= Total(took, InBucket(k))
  BY <1>2 DEF CellInv
<1>8. Since(s, prev).b \in Counters
  BY <1>3, SinceFacts
<1>9. \A k \in Cells : Since(s, prev).b[k] \in Nat
  BY <1>8, Powers DEF Counters
<1>10. WindowsPartition'
  <2>1. CASE drained
    <3>1. drained => ~restarted
      BY DEF CellInv
    <3>2. \A k \in Cells : win'.b[k] = Total(took, InBucket(k))
      BY <1>3, <1>4, <1>7, <2>1
    <3>3. QED BY <1>1, <1>5, <3>2 DEF WindowsPartition
  <2>2. CASE ~drained /\ restarted
    <3>1. \A k \in Cells : win'.b[k] <= Total(took, InBucket(k))
      <4>1. TAKE k \in Cells
      <4>2. win'.b[k] <= s.b[k] /\ s.b[k] = part.b[k] /\ win'.b[k] \in Nat
        BY <1>3, <1>4, <1>6, <1>9, <2>2
      <4>3. part.b[k] <= Total(took, InBucket(k))
        BY <1>7, <2>2
      <4>4. QED BY <1>2, <1>5, <4>2, <4>3
    <3>2. QED BY <1>1, <2>2, <3>1 DEF WindowsPartition
  <2>3. CASE ~drained /\ ~restarted
    <3>1. \A k \in Cells : s.b[k] >= prev.b[k] /\ s.b[k] - prev.b[k] = Total(took, InBucket(k))
      BY <1>2, <1>3, <1>5, <1>7, <2>3
    <3>2. \A k \in Cells : win'.b[k] = Total(took, InBucket(k))
      BY <1>4, <1>6, <2>3, <3>1
    <3>3. QED BY <1>1, <1>5, <3>2 DEF WindowsPartition
  <2>4. QED BY <2>1, <2>2, <2>3
<1>11. drained \/ prev'.b = part.b
  BY <1>3, <1>4
<1>12. QED BY <1>1, <1>2, <1>7, <1>10, <1>11 DEF CellInv

LEMMA RestartCells ==
  ASSUME CountInv, CellInv, Restart
  PROVE  CellInv'
<1>1. LagTypeOK /\ ~drained /\ cell = Idle /\ restarted' /\ UNCHANGED <<drained, cell, fresh>>
  BY DEF CountInv, Restart, reading
<1>2. \A k \in Cells : b'[k] = 0 /\ k >= Idle /\ ~(k < Idle)
  <2>1. \A k \in Cells : k \in Nat /\ k > Idle
    BY <1>1, LagNumbers
  <2>2. QED BY <2>1 DEF Restart, Zeros, Idle
<1>3. \A k \in Cells : Total(fresh, InBucket(k)) \in Nat
  BY <1>1, LagNumbers, TotalNat
<1>4. WindowsPartition'
  BY <1>1 DEF WindowsPartition, Completed
<1>5. QED BY <1>1, <1>2, <1>3, <1>4 DEF CellInv

-----------------------------------------------------------------------------
(* What the maximum bounds.                                                *)
LEMMA MaxStart == LagInit => MaxInv
<1> SUFFICES ASSUME LagInit PROVE MaxInv
  OBVIOUS
<1>1. \A x \in Lags : ~(fresh[x] > 0) /\ ~(took[x] > 0)
  BY DEF LagInit, Nothing
<1>2. cell = Idle
  BY DEF LagInit
<1>3. QED BY <1>1, <1>2 DEF MaxInv

LEMMA SameMax ==
  ASSUME MaxInv, UNCHANGED <<max, rec, cell, win, fresh, took, overlap, restarted, spanned>>
  PROVE  MaxInv'
  BY DEF MaxInv, Completed, Raising

LEMMA RecordMax ==
  ASSUME CountInv, MaxInv, NEW r \in Recorders, NEW ms \in Lags, Record(r, ms)
  PROVE  MaxInv'
<1>1. LagTypeOK
  BY DEF CountInv
<1>2. /\ rec[r].at = "idle" /\ rec'[r].at = "count" /\ \A q \in Recorders \ {r} : rec'[q] = rec[q]
      /\ UNCHANGED <<max, cell, win, fresh, took, restarted, spanned>>
  BY <1>1 DEF Record, LagTypeOK, atomics, reading
<1>3. overlap'.last = overlap.last /\ overlap'.this = (overlap.this \/ cell # Idle)
  BY <1>1 DEF Record, LagTypeOK
<1>4. CASE cell # Idle
  <2>1. overlap'.this /\ cell' # Idle
    BY <1>2, <1>3, <1>4
  <2>2. QED BY <2>1 DEF MaxInv, Completed
<1>5. CASE cell = Idle
  <2>1. cell' = Idle /\ (overlap'.this <=> overlap.this)
    BY <1>2, <1>3, <1>5
  <2>2. \A x : Raising(x) => Raising(x)'
    BY <1>2 DEF Raising
  <2>3. Completed' <=> Completed
    BY <1>2 DEF Completed
  <2>4. (Completed /\ ~overlap.this)' => \A x \in Lags : fresh'[x] > 0 => x <= max' \/ Raising(x)'
    BY <1>2, <2>1, <2>2, <2>3 DEF MaxInv
  <2>5. (Completed /\ ~spanned /\ ~overlap.this /\ ~overlap.last)' =>
          \A x \in Lags : took'[x] > 0 => x <= win'.max
    BY <1>2, <1>3, <2>1, <2>3 DEF MaxInv
  <2>6. QED BY <2>1, <2>4, <2>5 DEF MaxInv
<1>6. QED BY <1>4, <1>5

(* While a thread records, a read that is not overlapped is over.          *)
LEMMA ThreadMax ==
  ASSUME MaxInv, NEW r \in Recorders, rec[r].at # "idle",
         UNCHANGED <<cell, win, took, overlap, restarted, spanned>>,
         \A x \in Lags : fresh'[x] > 0 => \/ x <= max' \/ Raising(x)'
                                          \/ fresh[x] > 0 /\ ~(x <= max \/ Raising(x))
  PROVE  MaxInv'
<1>1. cell = Idle \/ overlap.this
  BY DEF MaxInv
<1>2. (Completed' <=> Completed) /\ (cell' = Idle \/ overlap'.this)
  BY <1>1 DEF Completed
<1>3. (Completed /\ ~overlap.this) => \A x \in Lags : fresh[x] > 0 => x <= max \/ Raising(x)
  BY DEF MaxInv
<1>4. (Completed /\ ~overlap.this)' => \A x \in Lags : fresh'[x] > 0 => x <= max' \/ Raising(x)'
  BY <1>2, <1>3
<1>5. (Completed /\ ~spanned /\ ~overlap.this /\ ~overlap.last)' =>
        \A x \in Lags : took'[x] > 0 => x <= win'.max
  BY <1>2 DEF MaxInv
<1>6. QED BY <1>2, <1>4, <1>5 DEF MaxInv

LEMMA CountMax ==
  ASSUME CountInv, MaxInv, NEW r \in Recorders, Count(r)
  PROVE  MaxInv'
<1>1. LagTypeOK /\ rec[r].ms \in Lags /\ rec[r].at = "count"
  BY DEF CountInv, Count
<1>2. /\ rec'[r].at = "load" /\ rec'[r].ms = rec[r].ms /\ \A q \in Recorders \ {r} : rec'[q] = rec[q]
      /\ UNCHANGED <<max, cell, win, took, overlap, restarted, spanned>>
  BY <1>1 DEF Count, Move, LagTypeOK, reading
<1>3. \A x \in Lags : x # rec[r].ms => fresh'[x] = fresh[x]
  BY <1>1 DEF Count, LagTypeOK
<1>4. Raising(rec[r].ms)'
  BY <1>2 DEF Raising
<1>5. \A x : Raising(x) => Raising(x)'
  BY <1>1, <1>2 DEF Raising
<1>6. QED BY <1>1, <1>2, <1>3, <1>4, <1>5, ThreadMax

LEMMA LagNumber == \A x \in Lags \cup {0} : x \in Nat
BY LagsNat

LEMMA LoadMaxMax ==
  ASSUME CountInv, MaxInv, NEW r \in Recorders, LoadMax(r)
  PROVE  MaxInv'
<1>1. LagTypeOK /\ rec[r].at = "load" /\ rec[r].ms \in Lags
  BY DEF CountInv, LoadMax
<1>2. /\ \A q \in Recorders \ {r} : rec'[q] = rec[q]
      /\ UNCHANGED <<max, cell, win, fresh, took, overlap, restarted, spanned>>
  BY <1>1 DEF LoadMax, Move, LagTypeOK, atomics, reading, history
<1>3. \/ rec'[r].at = "raise" /\ rec'[r].ms = rec[r].ms
      \/ rec[r].ms <= max
  <2>1. CASE rec[r].ms > max
    BY <1>1, <2>1 DEF LoadMax, Move, LagTypeOK
  <2>2. CASE ~(rec[r].ms > max)
    <3>1. rec[r].ms \in Nat /\ max \in Nat
      BY <1>1, LagNumber DEF LagTypeOK
    <3>2. QED BY <2>2, <3>1
  <2>3. QED BY <2>1, <2>2
<1>4. ASSUME NEW x \in Lags, Raising(x)
      PROVE  x <= max' \/ Raising(x)'
  <2>1. PICK q \in Recorders : rec[q].ms = x /\ rec[q].at \in {"load", "raise"}
    BY <1>4 DEF Raising
  <2>2. CASE q = r
    BY <1>2, <1>3, <2>1, <2>2 DEF Raising
  <2>3. CASE q # r
    BY <1>2, <2>1, <2>3 DEF Raising
  <2>4. QED BY <2>2, <2>3
<1>5. QED BY <1>1, <1>2, <1>4, ThreadMax

LEMMA RaiseMaxMax ==
  ASSUME CountInv, MaxInv, NEW r \in Recorders, RaiseMax(r)
  PROVE  MaxInv'
<1>1. LagTypeOK /\ rec[r].at = "raise" /\ rec[r].ms \in Lags
  BY DEF CountInv, RaiseMax
<1>2. /\ \A q \in Recorders \ {r} : rec'[q] = rec[q]
      /\ UNCHANGED <<cell, win, fresh, took, overlap, restarted, spanned>>
  BY <1>1 DEF RaiseMax, LagTypeOK, reading, history
<1>3. rec[r].ms \in Nat /\ max \in Nat /\ rec[r].ms <= max' /\ max <= max' /\ max' \in Nat
  <2>1. rec[r].ms \in Nat /\ max \in Nat
    BY <1>1, LagNumber DEF LagTypeOK
  <2>2. QED BY <2>1 DEF RaiseMax, Larger
<1>4. ASSUME NEW x \in Lags, x <= max \/ Raising(x)
      PROVE  x <= max' \/ Raising(x)'
  <2>1. CASE x <= max
    BY <1>3, <2>1, LagsNat
  <2>2. CASE Raising(x)
    <3>1. PICK q \in Recorders : rec[q].ms = x /\ rec[q].at \in {"load", "raise"}
      BY <2>2 DEF Raising
    <3>2. CASE q = r
      BY <1>3, <3>1, <3>2
    <3>3. CASE q # r
      BY <1>2, <3>1, <3>3 DEF Raising
    <3>4. QED BY <3>2, <3>3
  <2>3. QED BY <1>4, <2>1, <2>2
<1>5. QED BY <1>1, <1>2, <1>4, ThreadMax

LEMMA BeginMax ==
  ASSUME CountInv, MaxInv, Begin
  PROVE  MaxInv'
<1>1. LagTypeOK
  BY DEF CountInv
<1>2. /\ cell = Idle /\ cell' = 0 /\ overlap'.last = overlap.this
      /\ overlap'.this = (\E r \in Recorders : rec[r].at # "idle")
      /\ UNCHANGED <<max, rec, fresh, restarted>>
  BY DEF Begin, atomics
<1>3. \A x \in Lags : took'[x] = 0
  BY DEF Begin, Nothing
<1>4. \A x \in Lags : Bucket(x) \in Nat /\ ~(Bucket(x) < 0)
  BY BucketFacts, LagAssumption DEF Cells
<1>5. ASSUME ~overlap'.this
      PROVE  /\ \A r \in Recorders : rec'[r].at = "idle"
             /\ \A x \in Lags : Bucket(x) < cell' => fresh'[x] = 0
             /\ (~restarted' /\ ~overlap'.last) => \A x \in Lags : fresh'[x] > 0 \/ took'[x] > 0 => x <= max'
  <2>1. \A r \in Recorders : rec[r].at = "idle" /\ rec'[r].at = "idle"
    BY <1>2, <1>5
  <2>2. \A x \in Lags : ~Raising(x)
    BY <2>1 DEF Raising
  <2>3. ASSUME ~restarted', ~overlap'.last, NEW x \in Lags, fresh'[x] > 0 \/ took'[x] > 0
        PROVE  x <= max'
    <3>1. fresh[x] > 0
      BY <1>2, <1>3, <2>3
    <3>2. Completed /\ ~overlap.this
      BY <1>2, <2>3 DEF Completed
    <3>3. x <= max \/ Raising(x)
      BY <3>1, <3>2 DEF MaxInv
    <3>4. QED BY <1>2, <2>2, <3>3
  <2>4. QED BY <1>2, <1>4, <2>1, <2>3
<1>6. ~Completed'
  BY <1>2 DEF Completed, Idle
<1>7. QED BY <1>5, <1>6 DEF MaxInv

LEMMA ReadBucketMax ==
  ASSUME CountInv, MaxInv, ReadBucket
  PROVE  MaxInv'
<1>1. LagTypeOK /\ cell \in Cells /\ cell' = cell + 1
      /\ UNCHANGED <<max, rec, overlap, restarted>>
  BY DEF CountInv, ReadBucket
<1>2. cell \in Nat /\ cell # Idle /\ cell' # Idle
  BY <1>1, LagNumbers DEF Idle
<1>3. \A x \in Lags : /\ fresh'[x] = (IF Bucket(x) = cell THEN 0 ELSE fresh[x])
                      /\ took'[x] = (IF Bucket(x) = cell THEN fresh[x] ELSE took[x])
  BY DEF ReadBucket, Collected
<1>4. \A x \in Lags : Bucket(x) \in Nat
  BY BucketFacts, LagAssumption DEF Cells
<1>5. ASSUME ~overlap'.this
      PROVE  /\ \A r \in Recorders : rec'[r].at = "idle"
             /\ \A x \in Lags : Bucket(x) < cell' => fresh'[x] = 0
             /\ (~restarted' /\ ~overlap'.last) => \A x \in Lags : fresh'[x] > 0 \/ took'[x] > 0 => x <= max'
  <2>1. /\ \A r \in Recorders : rec[r].at = "idle"
        /\ \A x \in Lags : Bucket(x) < cell => fresh[x] = 0
        /\ (~restarted /\ ~overlap.last) => \A x \in Lags : fresh[x] > 0 \/ took[x] > 0 => x <= max
    BY <1>1, <1>2, <1>5 DEF MaxInv
  <2>2. ASSUME NEW x \in Lags, Bucket(x) < cell'
        PROVE  fresh'[x] = 0
    <3>1. Bucket(x) = cell \/ Bucket(x) < cell
      BY <1>1, <1>2, <1>4, <2>2
    <3>2. QED BY <1>3, <2>1, <3>1
  <2>3. ASSUME ~restarted', ~overlap'.last, NEW x \in Lags, fresh'[x] > 0 \/ took'[x] > 0
        PROVE  x <= max'
    <3>1. fresh[x] > 0 \/ took[x] > 0
      BY <1>3, <2>3
    <3>2. QED BY <1>1, <2>1, <2>3, <3>1
  <2>4. QED BY <1>1, <2>1, <2>2, <2>3
<1>6. ~Completed'
  BY <1>2 DEF Completed
<1>7. QED BY <1>5, <1>6 DEF MaxInv

LEMMA ReadMaxMax ==
  ASSUME CountInv, CellInv, MaxInv, ReadMax
  PROVE  MaxInv'
<1>1. LagTypeOK /\ cell = K /\ cell' = Idle /\ ~restarted' /\ spanned' = restarted
      /\ UNCHANGED <<drained, b, rec, fresh, took, overlap>>
  BY DEF CountInv, ReadMax
<1>2. /\ \A x \in Lags : fresh[x] \in Nat /\ took[x] \in Nat
      /\ \A k \in Cells : part.b[k] \in Nat /\ prev.b[k] \in Nat /\ k < cell
      /\ cell # Idle
  <2>1. \A k \in Cells : k \in Nat /\ k < K
    BY <1>1, LagNumbers
  <2>2. K # Idle
    BY LagAssumption DEF Idle
  <2>3. QED BY <1>1, <2>1, <2>2, LagNumbers
<1>3. \A x \in Lags : Bucket(x) \in Cells
  BY BucketFacts
<1>4. ~overlap.this => \A x \in Lags : fresh[x] = 0
  BY <1>2, <1>3 DEF MaxInv
<1>5. (Completed /\ ~overlap.this)' => \A x \in Lags : fresh'[x] > 0 => x <= max' \/ Raising(x)'
  BY <1>1, <1>4
<1> DEFINE s == [part EXCEPT !.max = max]
<1>6. s \in Snap /\ s.b = part.b /\ s.max = max /\ prev \in Snap
  BY <1>1 DEF LagTypeOK, Snap
<1>7. win' = (IF drained THEN s ELSE Since(s, prev))
  BY DEF ReadMax
<1> HIDE DEF s
<1>8. ASSUME ~restarted, ~overlap.this, ~overlap.last, NEW x \in Lags, took[x] > 0
      PROVE  x <= win'.max
  <2>1. x <= max
    BY <1>2, <1>8 DEF MaxInv
  <2>2. CASE drained
    BY <1>6, <1>7, <2>1, <2>2
  <2>3. CASE ~drained
    <3>1. \A k \in Cells : part.b[k] = prev.b[k] + Total(took, InBucket(k)) /\ Total(took, InBucket(k)) \in Nat
      BY <1>2, <1>8, <2>3, TotalNat DEF CellInv
    <3>2. \A k \in Cells : s.b[k] >= prev.b[k]
      BY <1>2, <1>6, <3>1
    <3>3. took[x] <= Total(took, InBucket(Bucket(x)))
      BY <1>2, <1>3, TotalNat DEF InBucket
    <3>4. s.b[Bucket(x)] > prev.b[Bucket(x)]
      BY <1>2, <1>3, <1>6, <1>8, <3>1, <3>3
    <3>5. x <= Since(s, prev).max
      BY <1>3, <1>6, <2>1, <3>2, <3>4, SinceFacts
    <3>6. QED BY <1>7, <2>3, <3>5
  <2>4. QED BY <2>2, <2>3
<1>9. (Completed /\ ~spanned /\ ~overlap.this /\ ~overlap.last)' =>
        \A x \in Lags : took'[x] > 0 => x <= win'.max
  BY <1>1, <1>8
<1>10. QED BY <1>1, <1>5, <1>9 DEF MaxInv

LEMMA RestartMax ==
  ASSUME Restart
  PROVE  MaxInv'
  BY DEF Restart, reading, MaxInv, Completed

LEMMA LagInitInv == LagInit => LagInv
BY LagStart, CellStart, MaxStart DEF LagInv

LEMMA LagCounts == CountInv /\ [LagNext]_lagVars => CountInv'
<1> SUFFICES ASSUME CountInv, [LagNext]_lagVars PROVE CountInv'
  OBVIOUS
<1>1. CASE UNCHANGED lagVars
  BY <1>1 DEF lagVars, atomics, reading, history, CountInv, LagTypeOK, Counting, Entering
<1>2. QED
  BY <1>1, RecordCounts, CountCounts, MaxCounts, BeginCounts, ReadCounts, ReadMaxCounts, RestartCounts DEF LagNext

LEMMA LagNextInv == CountersHold /\ LagInv /\ [LagNext]_lagVars => LagInv'
<1> SUFFICES ASSUME CountersHold, LagInv, [LagNext]_lagVars PROVE LagInv'
  OBVIOUS
<1>1. CountInv /\ CellInv /\ MaxInv /\ CountInv'
  BY LagCounts DEF LagInv
<1>2. ASSUME NEW r \in Recorders, NEW ms \in Lags, Record(r, ms)
      PROVE  CellInv' /\ MaxInv'
  <2>1. UNCHANGED <<drained, b, cell, part, prev, win, fresh, took, restarted, spanned>>
    BY <1>2 DEF Record, atomics, reading
  <2>2. QED BY <1>1, <1>2, <2>1, SameCells, RecordMax
<1>3. ASSUME NEW r \in Recorders, Count(r)
      PROVE  CellInv' /\ MaxInv'
  BY <1>1, <1>3, CountCells, CountMax
<1>4. ASSUME NEW r \in Recorders, LoadMax(r) \/ RaiseMax(r)
      PROVE  CellInv' /\ MaxInv'
  <2>1. UNCHANGED <<drained, b, cell, part, prev, win, fresh, took, restarted, spanned>>
    BY <1>4 DEF LoadMax, RaiseMax, atomics, reading, history
  <2>2. QED BY <1>1, <1>4, <2>1, SameCells, LoadMaxMax, RaiseMaxMax
<1>5. CASE Begin
  BY <1>1, <1>5, BeginCells, BeginMax DEF LagInv
<1>6. CASE ReadBucket
  BY <1>1, <1>6, ReadCells, ReadBucketMax DEF LagInv
<1>7. CASE ReadMax
  BY <1>1, <1>7, ReadMaxCells, ReadMaxMax DEF LagInv
<1>8. CASE Restart
  BY <1>1, <1>8, RestartCells, RestartMax DEF LagInv
<1>9. CASE UNCHANGED lagVars
  <2>1. UNCHANGED <<drained, b, cell, part, prev, win, fresh, took, restarted, spanned>> /\ UNCHANGED <<max, rec, overlap>>
    BY <1>9 DEF lagVars, atomics, reading, history
  <2>2. QED BY <1>1, <2>1, SameCells, SameMax DEF LagInv
<1>10. QED BY <1>1, <1>2, <1>3, <1>4, <1>5, <1>6, <1>7, <1>8, <1>9 DEF LagNext, LagInv

-----------------------------------------------------------------------------
(* The quantile of a window, and the sample of that rank.                  *)
LEMMA CellTaken ==
  ASSUME NEW h, Summable(h, Cells), NEW S \in SUBSET Cells, NEW k \in S
  PROVE  SumOf(h, S) = h[k] + SumOf(h, S \ {k})
  BY SumTaken

LEMMA BucketSums ==
  ASSUME LagTypeOK, \A k \in Cells : win.b[k] = Total(took, InBucket(k))
  PROVE  /\ Summable(win.b, Cells) /\ Summable(took, Lags)
         /\ \A n \in 0 .. K : Total(win.b, 0 .. n - 1) = Total(took, {y \in Lags : Bucket(y) < n})
<1> DEFINE h == win.b
           Below(n) == {y \in Lags : Bucket(y) < n}
           T == {n \in Nat : n <= K => SumOf(h, 0 .. n - 1) = SumOf(took, Below(n))}
<1>1. K \in Nat /\ \A k \in Cells : h[k] \in Nat
  BY LagNumbers, LagAssumption
<1>2. IsFiniteSet(Cells)
  <2>1. 0 \in Int /\ K - 1 \in Int
    BY LagAssumption
  <2>2. QED BY <2>1, FS_Interval DEF Cells
<1>3. Summable(h, Cells)
  BY <1>1, <1>2 DEF Summable
<1>4. Summable(took, Lags)
  BY LagNumbers, LagsNat DEF Summable
<1>5. \A y \in Lags : Bucket(y) \in Nat
  BY <1>1, BucketFacts DEF Cells
<1>6. 0 \in T
  <2>1. 0 .. 0 - 1 = {} /\ Below(0) = {}
    BY <1>5
  <2>2. SumOf(h, 0 .. 0 - 1) = 0 /\ SumOf(took, Below(0)) = 0
    BY <2>1, SumNone
  <2>3. QED BY <2>2
<1>7. ASSUME NEW n \in Nat, n \in T
      PROVE  n + 1 \in T
  <2> SUFFICES ASSUME n + 1 <= K
               PROVE  SumOf(h, 0 .. (n + 1) - 1) = SumOf(took, Below(n + 1))
    OBVIOUS
  <2>1. n \in Cells /\ 0 .. (n + 1) - 1 \in SUBSET Cells /\ n \in 0 .. (n + 1) - 1
        /\ (0 .. (n + 1) - 1) \ {n} = 0 .. n - 1
    BY <1>1 DEF Cells
  <2>2. SumOf(h, 0 .. (n + 1) - 1) = h[n] + SumOf(h, (0 .. (n + 1) - 1) \ {n})
    <3> DEFINE S == 0 .. (n + 1) - 1
    <3>1. S \in SUBSET Cells /\ n \in S
      BY <2>1
    <3> HIDE DEF S, h
    <3>2. SumOf(h, S) = h[n] + SumOf(h, S \ {n})
      BY <1>3, <3>1, CellTaken
    <3>3. QED BY <3>2 DEF S
  <2>3. SumOf(h, (0 .. (n + 1) - 1) \ {n}) = SumOf(h, 0 .. n - 1)
    BY <2>1
  <2>4. SumOf(h, 0 .. n - 1) = SumOf(took, Below(n))
    BY <1>1, <1>7
  <2>5. h[n] = SumOf(took, InBucket(n))
    BY <2>1, TotalIsSum
  <2>6. Below(n + 1) = InBucket(n) \cup Below(n) /\ InBucket(n) \cap Below(n) = {}
        /\ InBucket(n) \in SUBSET Lags /\ Below(n) \in SUBSET Lags
    BY <1>5 DEF InBucket
  <2> HIDE DEF Below
  <2>7. SumOf(took, InBucket(n) \cup Below(n)) = SumOf(took, InBucket(n)) + SumOf(took, Below(n))
    BY <1>4, <2>6, SumJoined
  <2>8. SumOf(took, Below(n + 1)) = SumOf(took, InBucket(n) \cup Below(n))
    BY <2>6
  <2>9. QED BY <2>2, <2>3, <2>4, <2>5, <2>7, <2>8
<1> HIDE DEF T
<1>8. \A n \in Nat : n \in T
  BY <1>6, <1>7, Inductively
<1>9. ASSUME NEW n \in 0 .. K
      PROVE  Total(win.b, 0 .. n - 1) = Total(took, Below(n))
  <2>1. n \in Nat /\ n <= K
    BY <1>1
  <2>2. SumOf(h, 0 .. n - 1) = SumOf(took, Below(n))
    BY <1>8, <2>1 DEF T
  <2>3. QED BY <2>2, TotalIsSum
<1>10. QED BY <1>3, <1>4, <1>9

LEMMA RankedFacts ==
  ASSUME Summable(took, Lags), NEW rank \in 1 .. Total(took, Lags)
  PROVE  /\ Ranked(rank) \in Lags /\ took[Ranked(rank)] > 0
         /\ Total(took, {y \in Lags : y <= Ranked(rank)}) >= rank
         /\ Total(took, {y \in Lags : y < Ranked(rank)}) < rank
<1> DEFINE Upto(x) == {y \in Lags : y <= x}
           Below(x) == {y \in Lags : y < x}
           T == {x \in Lags : SumOf(took, Upto(x)) >= rank}
<1>1. Lags \subseteq Nat /\ IsFiniteSet(Lags) /\ \A x \in Lags : took[x] \in Nat
  BY LagsNat DEF Summable
<1>2. SumOf(took, Lags) \in Nat /\ rank \in Nat /\ rank >= 1 /\ rank <= SumOf(took, Lags)
  <2>1. SumOf(took, Lags) \in Nat
    BY SumNat
  <2>2. QED BY <2>1, TotalIsSum
<1>3. Lags # {}
  <2>1. Lags = {} => SumOf(took, Lags) = 0
    BY SumNone
  <2>2. QED BY <1>2, <2>1
<1>4. Max(Lags) \in T
  <2>1. Max(Lags) \in Lags /\ \A y \in Lags : y <= Max(Lags)
    BY <1>1, <1>3, MaxFinite
  <2>2. Upto(Max(Lags)) = Lags
    BY <2>1
  <2>3. SumOf(took, Upto(Max(Lags))) = SumOf(took, Lags)
    BY <2>2
  <2>4. QED BY <1>2, <2>1, <2>3
<1>5. PICK x \in T : \A y \in T : x <= y
  <2>1. T \subseteq Nat /\ T # {}
    BY <1>1, <1>4
  <2>2. QED BY <2>1, LeastNat
<1>6. SumOf(took, Below(x)) < rank
  <2>1. Below(x) \in SUBSET Lags /\ Below(x) \subseteq Nat
    BY <1>1
  <2>2. CASE Below(x) = {}
    <3>1. SumOf(took, Below(x)) = 0
      BY <2>2, SumNone
    <3>2. QED BY <1>2, <3>1
  <2>3. CASE Below(x) # {}
    <3>1. IsFiniteSet(Below(x))
      BY <1>1, <2>1, FS_Subset
    <3>2. Max(Below(x)) \in Below(x) /\ \A y \in Below(x) : y <= Max(Below(x))
      BY <2>1, <2>3, <3>1, MaxFinite
    <3>3. PICK z \in Below(x) : z = Max(Below(x))
      BY <3>2
    <3>4. z \in Nat /\ z < x /\ x \in Nat /\ z \in Lags
      BY <1>1, <1>5
    <3>5. Upto(z) = Below(x)
      <4>1. \A y \in Lags : y \in Nat /\ (y < x => y <= z)
        BY <1>1, <3>2, <3>3
      <4>2. \A y \in Lags : y <= z <=> y < x
        BY <3>4, <4>1
      <4>3. QED BY <4>2
    <3>6. z \notin T
      BY <1>5, <3>4
    <3>7. ~(SumOf(took, Upto(z)) >= rank)
      BY <3>4, <3>6
    <3>8. SumOf(took, Upto(z)) = SumOf(took, Below(x))
      BY <3>5
    <3>9. SumOf(took, Below(x)) \in Nat
      BY <2>1, SumNat
    <3>10. QED BY <1>2, <3>7, <3>8, <3>9
  <2>4. QED BY <2>2, <2>3
<1>7. x \in Lags /\ SumOf(took, Upto(x)) >= rank
  BY <1>5
<1> HIDE DEF T
<1>8. /\ Ranked(rank) \in Lags /\ SumOf(took, Upto(Ranked(rank))) >= rank
      /\ SumOf(took, Below(Ranked(rank))) < rank
  <2>1. Ranked(rank) = CHOOSE y \in Lags : SumOf(took, Upto(y)) >= rank /\ SumOf(took, Below(y)) < rank
    BY TotalIsSum DEF Ranked
  <2> HIDE DEF Upto, Below
  <2>2. QED BY <1>6, <1>7, <2>1
<1> DEFINE r == Ranked(rank)
<1>9. r \in Lags /\ SumOf(took, Upto(r)) >= rank /\ SumOf(took, Below(r)) < rank
  BY <1>8
<1> HIDE DEF r
<1>10. took[r] > 0
  <2>0. r \in Lags /\ r <= r /\ \A y \in Lags : y < r <=> (y <= r /\ y # r)
    BY <1>1, <1>9
  <2>1. Upto(r) \in SUBSET Lags /\ r \in Upto(r) /\ Upto(r) \ {r} = Below(r) /\ Below(r) \in SUBSET Lags
    BY <2>0
  <2>2. SumOf(took, Upto(r)) = took[r] + SumOf(took, Upto(r) \ {r})
    BY <2>1, SumTaken
  <2>3. SumOf(took, Upto(r) \ {r}) = SumOf(took, Below(r)) /\ SumOf(took, Below(r)) \in Nat
    BY <2>1, SumNat
  <2>4. took[r] \in Nat
    BY <1>1, <1>9
  <2>5. QED BY <1>2, <1>9, <2>2, <2>3, <2>4
<1>11. QED BY <1>9, <1>10, TotalIsSum DEF r

LEMMA QuantileIs ==
  ASSUME LagTypeOK, \A k \in Cells : win.b[k] = Total(took, InBucket(k)),
         NEW rank \in 1 .. Total(took, Lags)
  PROVE  Quantile(win, rank) = Smaller(Edge(Bucket(Ranked(rank))), win.max)
<1> DEFINE x == Ranked(rank)
           j == Bucket(x)
           h == win.b
           Holds(k) == Total(h, 0 .. k) >= rank /\ Total(h, 0 .. k - 1) < rank
<1>1. Summable(h, Cells) /\ Summable(took, Lags) /\ K \in Nat
  BY BucketSums, LagAssumption
<1>2. \A n \in 0 .. K : Total(h, 0 .. n - 1) = Total(took, {y \in Lags : Bucket(y) < n})
  BY BucketSums
<1>3. /\ x \in Lags /\ Total(took, {y \in Lags : y <= x}) >= rank
      /\ Total(took, {y \in Lags : y < x}) < rank
  BY <1>1, RankedFacts
<1>4. \A S \in SUBSET Lags : Total(took, S) \in Nat /\ \A P \in SUBSET S : Total(took, P) <= Total(took, S)
  <2>1. \A S \in SUBSET Lags : SumOf(took, S) \in Nat
    BY <1>1, SumNat
  <2>2. \A S \in SUBSET Lags : \A P \in SUBSET S : SumOf(took, P) <= SumOf(took, S)
    BY <1>1, SumMore
  <2>3. QED BY <2>1, <2>2, TotalIsSum
<1>5. \A S \in SUBSET Cells : Total(h, S) \in Nat /\ \A P \in SUBSET S : Total(h, P) <= Total(h, S)
  <2>1. \A S \in SUBSET Cells : SumOf(h, S) \in Nat
    BY <1>1, SumNat
  <2>2. \A S \in SUBSET Cells : \A P \in SUBSET S : SumOf(h, P) <= SumOf(h, S)
    BY <1>1, SumMore
  <2>3. QED BY <2>1, <2>2, TotalIsSum
<1>6. rank \in Nat
  BY <1>4
<1>7. /\ j \in Cells /\ j \in Nat /\ \A y \in Lags : Bucket(y) \in Nat /\ y \in Nat /\ x \in Nat
      /\ \A y \in Lags : y <= x => Bucket(y) <= j
      /\ \A y \in Lags : x <= y => j <= Bucket(y)
  <2>1. x \in Lags
    BY <1>3
  <2> HIDE DEF x
  <2>2. \A y \in Lags : Bucket(y) \in Cells /\ \A z \in Lags : z <= y => Bucket(z) <= Bucket(y)
    BY BucketFacts
  <2>3. \A k \in Cells : k \in Nat
    BY <1>1 DEF Cells
  <2>4. QED BY <2>1, <2>2, <2>3, LagsNat
<1> HIDE DEF x, j, h
<1>8. Holds(j)
  <2>1. j \in 0 .. K /\ j + 1 \in 0 .. K /\ (j + 1) - 1 = j
    BY <1>1, <1>7 DEF Cells
  <2> DEFINE Near == {y \in Lags : Bucket(y) < j + 1}
             Far == {y \in Lags : Bucket(y) < j}
             Upto == {y \in Lags : y <= x}
             Below == {y \in Lags : y < x}
  <2>2. Total(h, 0 .. (j + 1) - 1) = Total(took, Near) /\ Total(h, 0 .. j - 1) = Total(took, Far)
    BY <1>2, <2>1
  <2>3. 0 .. (j + 1) - 1 = 0 .. j
    BY <2>1
  <2>4. Upto \subseteq Near /\ Far \subseteq Below
    BY <1>7
  <2>5. Upto \in SUBSET Near /\ Near \in SUBSET Lags /\ Far \in SUBSET Below /\ Below \in SUBSET Lags /\ Upto \in SUBSET Lags
        /\ Far \in SUBSET Lags
    BY <2>4
  <2>6. Total(took, Upto) >= rank /\ Total(took, Below) < rank
    BY <1>3
  <2> HIDE DEF Near, Far, Upto, Below
  <2>7. /\ Total(took, Near) \in Nat /\ Total(took, Upto) \in Nat /\ Total(took, Upto) <= Total(took, Near)
        /\ Total(took, Far) \in Nat /\ Total(took, Below) \in Nat /\ Total(took, Far) <= Total(took, Below)
    BY <1>4, <2>5
  <2>8. Total(h, 0 .. j) = Total(took, Near)
    BY <2>2, <2>3
  <2>9. QED BY <1>6, <2>2, <2>6, <2>7, <2>8
<1>9. ASSUME NEW k \in Cells, NEW m \in Cells, Holds(k), Holds(m), k < m
      PROVE  FALSE
  <2>1. 0 .. m - 1 \in SUBSET Cells /\ 0 .. k \in SUBSET (0 .. m - 1) /\ 0 .. k \in SUBSET Cells
    BY <1>1, <1>9 DEF Cells
  <2>2. Total(h, 0 .. k) <= Total(h, 0 .. m - 1) /\ Total(h, 0 .. k) \in Nat /\ Total(h, 0 .. m - 1) \in Nat
    BY <1>5, <2>1
  <2>3. Total(h, 0 .. k) >= rank /\ Total(h, 0 .. m - 1) < rank
    BY <1>9
  <2>4. QED BY <1>6, <2>2, <2>3
<1> HIDE DEF Holds
<1>10. ASSUME NEW k \in Cells, Holds(k)
       PROVE  k = j
  <2>1. k \in Nat
    BY <1>1 DEF Cells
  <2>2. ~(k < j) /\ ~(j < k)
    BY <1>7, <1>8, <1>9, <1>10
  <2>3. QED BY <1>7, <2>1, <2>2
<1>11. (CHOOSE k \in Cells : Holds(k)) = j
  BY <1>7, <1>8, <1>10
<1>12. Quantile(win, rank) = Smaller(Edge(CHOOSE k \in Cells : Holds(k)), win.max)
  BY DEF Quantile, Holds, h
<1>13. QED BY <1>11, <1>12 DEF j, x

LEMMA Quantiles == LagInv => QuantileBounds
<1> SUFFICES ASSUME LagInv, Completed, ~spanned, ~overlap.this, ~overlap.last,
                    NEW rank \in 1 .. Total(took, Lags)
             PROVE  /\ Ranked(rank) <= Quantile(win, rank)
                    /\ Bucket(Ranked(rank)) < K - 1 => Quantile(win, rank) <= 2 * Ranked(rank)
  BY DEF QuantileBounds
<1>1. LagTypeOK /\ \A k \in Cells : win.b[k] = Total(took, InBucket(k))
  BY DEF LagInv, CountInv, CellInv, WindowsPartition
<1>2. Quantile(win, rank) = Smaller(Edge(Bucket(Ranked(rank))), win.max)
  BY <1>1, QuantileIs
<1>3. Ranked(rank) \in Lags /\ took[Ranked(rank)] > 0
  BY <1>1, BucketSums, RankedFacts
<1> DEFINE x == Ranked(rank)
           j == Bucket(x)
<1>4. x \in Lags /\ took[x] > 0 /\ Quantile(win, rank) = Smaller(Edge(j), win.max)
  BY <1>2, <1>3
<1> HIDE DEF x
<1>5. x <= win.max
  BY <1>4 DEF LagInv, MaxInv
<1>6. j \in Cells /\ x <= Edge(j) /\ (j < K - 1 => Edge(j) <= 2 * x)
  <2>1. j \in Cells /\ (j < K - 1 => Edge(j) <= 2 * x) /\ \A k \in Cells : j <= k => x <= Edge(k)
    BY <1>4, BucketFacts
  <2>2. j <= j
    BY <2>1, LagAssumption DEF Cells
  <2>3. QED BY <2>1, <2>2
<1>7. x \in Nat /\ win.max \in Nat /\ Edge(j) \in Nat
  <2>1. x \in Nat
    BY <1>4, LagsNat
  <2>2. win.max \in Nat /\ Unbounded \in Nat /\ K \in Nat
    BY <1>1, LagAssumption DEF LagTypeOK
  <2>3. j \in Nat
    BY <1>6, <2>2 DEF Cells
  <2>4. 2 ^ j \in Nat \ {0}
    BY <2>3, PowerNext
  <2>5. Edge(j) \in Nat
    BY <2>2, <2>4 DEF Edge
  <2>6. QED BY <2>1, <2>2, <2>5
<1> DEFINE e == Edge(j)
           top == win.max
           q == Quantile(win, rank)
<1>8. e \in Nat /\ top \in Nat /\ x <= e /\ x <= top /\ (j < K - 1 => e <= 2 * x) /\ q = Smaller(e, top)
  BY <1>4, <1>5, <1>6, <1>7
<1> HIDE DEF e, top, q, j
<1>9. x <= q /\ (j < K - 1 => q <= 2 * x)
  BY <1>7, <1>8 DEF Smaller
<1>10. QED BY <1>9 DEF x, j, q

(* lag.rs:3 to 8: windows are not split and the quantiles read from them   *)
(* are upper bounds, for any number of recorders, buckets and samples, and *)
(* however records, reads and restarts interleave, as long as no counter   *)
(* wraps.                                                                  *)
THEOREM WindowsAreTrue == ASSUME CountersHold PROVE LagSpec => []WindowsTrue
<1>1. LagInv => WindowsTrue
  BY Quantiles DEF LagInv, CellInv, WindowsTrue
<1>2. QED BY <1>1, LagInitInv, LagNextInv, PTL DEF LagSpec

-----------------------------------------------------------------------------
(* All the instruments of a process: the inductive invariants of the       *)
(* histogram, the probe and the datagram window, whatever is explored.     *)
THEOREM InstrumentsTyped ==
  ASSUME CountersHold, PeersFit
  PROVE  ProcessSpec => []InstrumentsTypeOK
<1> DEFINE Inv == LagInv /\ ProbeInv /\ UdpInv /\ Remembered /\ AtMostOnce
<1>1. ProcessInit => Inv
  BY LagInitInv, ProbeInitInv, UdpInitInv DEF ProcessInit
<1>2. Inv /\ [ProcessNext]_<<explored, vars, lagVars, probe, udpVars>> => Inv'
  <2> SUFFICES ASSUME Inv, [ProcessNext]_<<explored, vars, lagVars, probe, udpVars>>
               PROVE  Inv'
    OBVIOUS
  <2>1. [LagNext]_lagVars /\ [ProbeNext]_probe /\ [UdpNext]_udpVars
    BY DEF ProcessNext
  <2>2. LagInv'
    BY <2>1, LagNextInv
  <2>3. ProbeInv'
    BY <2>1, ProbeNextInv
  <2>4. UdpInv' /\ Remembered' /\ AtMostOnce'
    BY <2>1, UdpNextInv, OnceNext
  <2>5. QED BY <2>2, <2>3, <2>4
<1>3. Inv => InstrumentsTypeOK
  BY DEF UdpInv, InstrumentsTypeOK
<1> HIDE DEF Inv
<1>4. QED BY <1>1, <1>2, <1>3, PTL DEF ProcessSpec

=============================================================================

---------------------------- MODULE SynthStream ----------------------------
(***************************************************************************)
(* The cross of two legs and the ring its records are read from            *)
(* (rust/src/synth/replay.rs, idx_source.rs).  Prices are logarithms, as   *)
(* in Synth.  The records of the legs come in any order of time: those of  *)
(* two legs interleave, and a leg's own may overtake one another.  Pushing *)
(* every emission into the ring is the kernel's part, outside this source. *)
(*                                                                         *)
(* heard, overtaken, sent and told are history: each leg's newest record   *)
(* by stamp, whether a record of a leg came after a newer one, every stamp *)
(* emitted, and what the last step emitted.                                *)
(*                                                                         *)
(* Untimed is a wrong version of Gated: nothing uses it, and a property is *)
(* checked to fail with it.                                                *)
(***************************************************************************)
EXTENDS Synth

CONSTANTS LegStaleTtl,  \* LEG_STALE_TTL_MS, here ms are the unit of time
          WindowMs,     \* the age window push_windowed is called with
          RingCap,      \* the capacity of the ring
          SeqWidth,     \* 2^16
          Quotes,       \* leg records: [bid, ask, conf, accepted, depth, ci]
          StreamTime,   \* bound on stamps
          Delays,       \* how long a record is under way, by the caller's clock
          MaxLegTicks   \* bound on the records fed

VARIABLES last,     \* each leg's last record and its stamp, <<>> before the first
          synSeq,   \* the header sequence of the next emission
          emits, drops,
          kept,     \* the records kept, oldest first
          heard, overtaken, sent, told
synVars == <<last, synSeq, emits, drops, kept, heard, overtaken, sent, told>>

Sides == {"base", "quote"}
Fed == emits + drops
Nothing == <<>>

(* No record when a leg is stale, without confidence or out of range.      *)
Untimed(legs, now) ==
  \A s \in Sides : /\ legs[s].conf # 0
                   /\ Positive(legs[s].bid) /\ legs[s].ask >= legs[s].bid
                   /\ legs[s].ask <= MaxPrice
Gated(legs, now) ==
  LET ref == Greatest({now, legs["base"].ts, legs["quote"].ts})
  IN  \A s \in Sides : /\ ref - legs[s].ts <= LegStaleTtl
                       /\ legs[s].conf # 0
                       /\ Positive(legs[s].bid) /\ legs[s].ask >= legs[s].bid
                       /\ legs[s].ask <= MaxPrice
Stamp(legs) == Greatest({legs[s].ts : s \in Sides})
ComputeSynthIndex(legs, seq) ==
  LET b == legs["base"]  q == legs["quote"]
  IN  [ts |-> Stamp(legs), seq |-> seq, bid |-> b.bid - q.ask, ask |-> b.ask - q.bid,
       depth |-> Least({b.depth, q.depth}), conf |-> Least({b.conf, q.conf}),
       accepted |-> Least({b.accepted, q.accepted}), ci |-> Root(b.ci * b.ci + q.ci * q.ci)]

(* Age first, then the count: a full ring gives up its oldest record.      *)
RECURSIVE Aged(_, _)
Aged(r, cutoff) == IF r # <<>> /\ Head(r).ts < cutoff THEN Aged(Tail(r), cutoff) ELSE r
Capped(r) == IF Len(r) >= RingCap THEN Tail(r) ELSE r
PushWindowed(r, rec) == Append(Capped(Aged(r, rec.ts - WindowMs)), rec)

(* The reads bisect the ring, as partition_point does: how many of its     *)
(* records are earlier than t.                                             *)
RECURSIVE Bisect(_, _, _, _)
Bisect(r, t, lo, hi) ==
  IF lo = hi THEN lo
  ELSE LET m == (lo + hi) \div 2
       IN  IF r[m + 1].ts < t THEN Bisect(r, t, m + 1, hi) ELSE Bisect(r, t, lo, m)
PartitionPoint(r, t) == Bisect(r, t, 0, Len(r))
IterRangeNewest(r, from, to, limit) ==
  LET end == PartitionPoint(r, to + 1)
      start == Greatest({PartitionPoint(r, from), end - limit})
  IN  IF limit = 0 \/ from > to THEN <<>> ELSE SubSeq(r, start + 1, end)
IterRangeLimited(r, from, to, limit) ==
  LET rest == SubSeq(r, PartitionPoint(r, from) + 1, Len(r))
      past == {i \in DOMAIN rest : rest[i].ts > to}
      stop == Least({Len(rest), limit} \cup {i - 1 : i \in past})
  IN  IF limit = 0 \/ from > to THEN <<>> ELSE SubSeq(rest, 1, stop)

---------------------------------------------------------------------------
SynInit == /\ last = [s \in Sides |-> <<>>]
           /\ synSeq = 0 /\ emits = 0 /\ drops = 0
           /\ kept = <<>> /\ sent = <<>>
           /\ heard = last /\ overtaken = FALSE /\ told = Nothing

(* feed_leg_tick and what the kernel does with its answer.                 *)
FeedLegTick(side, ts, now, q) ==
  LET tick == [ts |-> ts] @@ q
      legs == [last EXCEPT ![side] = tick]
      both == \A s \in Sides : legs[s] # <<>>
      rec == ComputeSynthIndex(legs, synSeq)
      late == heard[side] # <<>> /\ ts < heard[side].ts
  IN  /\ Fed < MaxLegTicks
      /\ last' = legs
      /\ heard' = IF late THEN heard ELSE [heard EXCEPT ![side] = tick]
      /\ overtaken' = (overtaken \/ late)
      /\ IF ~both THEN told' = Nothing /\ UNCHANGED <<synSeq, emits, drops, kept, sent>>
         ELSE IF Gated(legs, now)
         THEN /\ synSeq' = (synSeq + 1) % SeqWidth
              /\ emits' = emits + 1
              /\ kept' = PushWindowed(kept, rec)
              /\ sent' = Append(sent, rec.ts)
              /\ told' = [rec |-> rec, now |-> now]
              /\ UNCHANGED drops
         ELSE drops' = drops + 1 /\ told' = Nothing /\ UNCHANGED <<synSeq, emits, kept, sent>>

SynNext == \E side \in Sides, ts \in 0 .. StreamTime, late \in Delays, q \in Quotes :
             FeedLegTick(side, ts, ts + late, q)

---------------------------------------------------------------------------
(* The ring's contract, "callers MUST push in monotonically non-decreasing *)
(* ts_ms", is kept as long as no leg's record overtakes another, in        *)
(* whatever order the two legs come.                                       *)
Ascends(s) == \A i \in 2 .. Len(s) : s[i - 1] <= s[i]
StampsAscend == ~overtaken => Ascends(sent)

(* Then the bisecting reads answer exactly what a scan would.              *)
Within(r, from, to) == SelectSeq(r, LAMBDA x : from <= x.ts /\ x.ts <= to)
ReadsExact ==
  ~overtaken =>
    \A from, to \in 0 .. StreamTime, limit \in 0 .. RingCap :
      LET all == Within(kept, from, to)
          n == IF limit < Len(all) THEN limit ELSE Len(all)
      IN  /\ IterRangeLimited(kept, from, to, limit) = SubSeq(all, 1, n)
          /\ IterRangeNewest(kept, from, to, limit) = SubSeq(all, Len(all) - n + 1, Len(all))

(* The ring is the end of what was sent, in any order; as far back as the  *)
(* window and the capacity allow, and not a record less, in order.         *)
RingIsTail ==
  LET stamps == [i \in DOMAIN kept |-> kept[i].ts]
      gone == SubSeq(sent, 1, Len(sent) - Len(kept))
  IN  /\ sent = gone \o stamps
      /\ Len(kept) <= RingCap
      /\ ~overtaken /\ Len(kept) < RingCap => \A i \in DOMAIN gone : gone[i] < Last(sent) - WindowMs

(* "Either leg silent past TTL => suppress emit": an emission finds both   *)
(* legs heard within the TTL of the caller's clock and of each other, also *)
(* when an older record has replaced a newer one.  Unless one has, it is   *)
(* stamped with the newest record there is and no better than the newest   *)
(* of either leg, in confidence, sources and depth, and not tighter than   *)
(* both spreads together.                                                  *)
NewestHonest ==
  told # Nothing =>
    LET r == told.rec IN
    /\ r.conf # 0 /\ r.bid <= r.ask
    /\ \A s \in Sides : Greatest({told.now, r.ts}) - heard[s].ts <= LegStaleTtl
    /\ last = heard =>
         /\ r.ts = Greatest({heard[s].ts : s \in Sides})
         /\ \A s \in Sides : /\ r.conf <= heard[s].conf
                              /\ r.accepted <= heard[s].accepted
                              /\ r.depth <= heard[s].depth
                              /\ r.ask - r.bid >= heard[s].ask - heard[s].bid
StreamSound == StampsAscend /\ ReadsExact /\ RingIsTail /\ NewestHonest

SynTypeOK == /\ emits + drops <= MaxLegTicks
             /\ synSeq = emits % SeqWidth
             /\ \A i \in DOMAIN kept : kept[i].bid <= kept[i].ask /\ kept[i].conf > 0
             /\ Len(sent) = emits
=============================================================================

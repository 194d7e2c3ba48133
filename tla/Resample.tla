------------------------------ MODULE Resample ------------------------------
(***************************************************************************)
(* From observations to bars: agg.rs TickAccumulator (one index record per *)
(* window of a provider's ticks) and ohlc.rs (index records to candles,    *)
(* in a batch or as a stream, and candles to coarser candles).             *)
(*                                                                         *)
(* Prices are small integers, 0 standing for a price that is not finite or *)
(* not positive and Garbage for one beyond 1e15.  An average confidence is *)
(* not kept.  Times are ticks; a record of one tick is what a finer candle *)
(* covers.                                                                 *)
(*                                                                         *)
(* ReaffirmForgets is a wrong version of the definition that follows it:   *)
(* nothing uses it, and the property is checked to fail with it.           *)
(***************************************************************************)
EXTENDS Integers, SequencesExt

CONSTANTS
  Mids,          \* the prices of records; 0 and Garbage among them
  Garbage,       \* a finite price that sane_px rejects
  Fine, Coarse,  \* two timeframes
  RejectWidth,   \* u8::MAX
  MaxTime, MaxIn, MaxPushes   \* bounds of the model

ASSUME ResampleAssumption ==
  /\ {Fine, Coarse} \subseteq Nat \ {0} /\ Coarse % Fine = 0
  /\ {RejectWidth, MaxTime, MaxIn, MaxPushes} \subseteq Nat
  /\ Mids \subseteq Nat /\ Garbage \in Nat

VARIABLES
  acc,           \* the TickAccumulator
  window,        \* history: what was pushed into the open window
  flushed,       \* history: the last record and the window it was made of
  pushes,
  records,       \* what the iterator has yielded
  stream         \* OhlcStream: [cur, last_mid, out, done]

accVars  == <<acc, window, flushed, pushes>>
ohlcVars == <<records, stream>>

None == <<>>
Absent == -1     \* Option::None of a price
-----------------------------------------------------------------------------
(* TickAccumulator.                                                        *)

EmptyAcc == [bid |-> 0, vol |-> 0, count |-> 0, rejected |-> 0,
             reaffirm_only |-> TRUE, carry_only |-> TRUE]

Ingested(a, q, v) ==
  [a EXCEPT !.bid = q, !.vol = @ + v, !.count = @ + 1,
            !.reaffirm_only = FALSE, !.carry_only = FALSE]
ReaffirmForgets(a, q, v) == Ingested(a, q, v)
Reaffirmed(a, q, v) == [Ingested(a, q, v) EXCEPT !.reaffirm_only = a.reaffirm_only]
Carried(a, q, v) ==
  [Ingested(a, q, v) EXCEPT !.reaffirm_only = a.reaffirm_only,
                            !.carry_only = a.carry_only]
Rejected(a) == [a EXCEPT !.rejected = @ + 1]

Flags(a) ==
  CASE a.reaffirm_only /\ a.carry_only -> {"REAFFIRM", "CARRY"}
    [] a.reaffirm_only /\ ~a.carry_only -> {"REAFFIRM"}
    [] OTHER -> {}

(* flush: an empty window yields nothing and forgets its rejects.          *)
FlushedIndex(a) ==
  [bid |-> a.bid, vol |-> a.vol, count |-> a.count, flags |-> Flags(a),
   rejected |-> IF a.rejected > RejectWidth THEN RejectWidth ELSE a.rejected]

AccPush(kind, q, v) ==
  /\ pushes < MaxPushes
  /\ pushes' = pushes + 1
  /\ acc' = CASE kind = "ingest"   -> Ingested(acc, q, v)
              [] kind = "reaffirm" -> Reaffirmed(acc, q, v)
              [] kind = "carry"    -> Carried(acc, q, v)
              [] kind = "reject"   -> Rejected(acc)
  /\ window' = Append(window, [kind |-> kind, q |-> q, v |-> v])
  /\ UNCHANGED flushed

Flush ==
  /\ acc # EmptyAcc
  /\ IF acc.count = 0
       THEN acc' = [acc EXCEPT !.rejected = 0] /\ flushed' = flushed
       ELSE acc' = EmptyAcc /\ flushed' = [index |-> FlushedIndex(acc), of |-> window]
  /\ window' = <<>>
  /\ UNCHANGED pushes

Kinds == {"ingest", "reaffirm", "carry", "reject"}
AccInit == acc = EmptyAcc /\ window = <<>> /\ flushed = None /\ pushes = 0
AccNext ==
  \/ \E k \in Kinds, q \in {1, 2} : AccPush(k, q, q)
  \/ Flush

-----------------------------------------------------------------------------
(* Candles.                                                                *)

BucketStart(ts, tf) == (ts \div tf) * tf

SanePx(p) == p > 0 /\ p # Garbage
SaneMid(mid, last) == SanePx(mid) /\ (last > 0 => 2 * mid >= last /\ mid <= 2 * last)

BucketNew(r, tf) ==
  [ts |-> BucketStart(r.ts, tf), open |-> r.mid, high |-> r.mid, low |-> r.mid,
   close |-> r.mid, ticks |-> 1]
Larger(x, y)  == IF x > y THEN x ELSE y
Smaller(x, y) == IF x < y THEN x ELSE y
BucketIngest(b, r) ==
  [b EXCEPT !.high = Larger(@, r.mid), !.low = Smaller(@, r.mid),
            !.close = r.mid, !.ticks = @ + 1]
Finalize(b, tf) ==
  [ts |-> b.ts, close_ts |-> b.ts + tf - 1, open |-> b.open, high |-> b.high,
   low |-> b.low, close |-> b.close, ticks |-> b.ticks]

(* idx_to_ohlc, a fold over the records.                                   *)
OhlcStep(s, r, tf) ==
  IF ~SaneMid(r.mid, s.last_mid) THEN s
  ELSE LET bs == BucketStart(r.ts, tf)  t == [s EXCEPT !.last_mid = r.mid] IN
    IF s.cur = None THEN [t EXCEPT !.cur = BucketNew(r, tf)]
    ELSE IF bs = s.cur.ts THEN [t EXCEPT !.cur = BucketIngest(@, r)]
    ELSE IF bs > s.cur.ts
      THEN [t EXCEPT !.out = Append(@, Finalize(s.cur, tf)), !.cur = BucketNew(r, tf)]
    ELSE t
NoCandles == [cur |-> None, last_mid |-> 0, out |-> <<>>]
IdxToOhlc(rs, tf) ==
  LET s == FoldLeft(LAMBDA st, r : OhlcStep(st, r, tf), NoCandles, rs)
  IN  IF s.cur = None THEN s.out ELSE Append(s.out, Finalize(s.cur, tf))

(* rollup: a candle that straddles two buckets touches both.               *)
Touch(m, bs, bar, o, c) ==
  IF bs \in DOMAIN m
    THEN [m EXCEPT ![bs] =
           [@ EXCEPT !.close = IF c = Absent THEN @ ELSE c,
                     !.high = Larger(@, bar.high), !.low = Smaller(@, bar.low),
                     !.ticks = @ + bar.ticks]]
    ELSE [b \in DOMAIN m \cup {bs} |->
           IF b \in DOMAIN m THEN m[b]
           ELSE [ts |-> bs, open |-> IF o = Absent THEN bar.open ELSE o,
                 high |-> bar.high, low |-> bar.low,
                 close |-> IF c = Absent THEN bar.close ELSE c, ticks |-> bar.ticks]]
TouchBoth(m, bar, tf) ==
  LET ob == BucketStart(bar.ts, tf)  cb == BucketStart(bar.close_ts, tf) IN
  IF ob = cb THEN Touch(m, ob, bar, bar.open, bar.close)
  ELSE Touch(Touch(m, ob, bar, bar.open, Absent), cb, bar, Absent, bar.close)
Buckets(bars, tf) == FoldLeft(LAMBDA m, bar : TouchBoth(m, bar, tf), <<>>, bars)
Rollup(bars, tf) ==
  LET m == Buckets(bars, tf) IN
  [i \in 1 .. Cardinality(DOMAIN m) |-> Finalize(m[SetToSortSeq(DOMAIN m, <)[i]], tf)]

(* OhlcStream::next, up to the record that closes a candle.                *)
Offer(ts, mid) ==
  /\ ~stream.done /\ Len(records) < MaxIn
  /\ records' = Append(records, [ts |-> ts, mid |-> mid])

Late(ts) == stream.cur # None /\ BucketStart(ts, Fine) < stream.cur.ts

DropRecord(ts, mid) ==
  /\ Offer(ts, mid)
  /\ ~SaneMid(mid, stream.last_mid)
  /\ UNCHANGED stream

SkipLate(ts, mid) ==
  /\ Offer(ts, mid)
  /\ SaneMid(mid, stream.last_mid) /\ Late(ts)
  /\ stream' = [stream EXCEPT !.last_mid = mid]

TakeRecord(ts, mid) ==
  /\ Offer(ts, mid)
  /\ SaneMid(mid, stream.last_mid) /\ ~Late(ts)
  /\ LET r == [ts |-> ts, mid |-> mid]
         same == stream.cur # None /\ stream.cur.ts = BucketStart(ts, Fine) IN
     stream' = [stream EXCEPT !.last_mid = mid,
                  !.cur = IF same THEN BucketIngest(@, r) ELSE BucketNew(r, Fine),
                  !.out = IF same \/ stream.cur = None THEN @
                          ELSE Append(@, Finalize(stream.cur, Fine))]

EndStream ==
  /\ ~stream.done
  /\ stream' = [stream EXCEPT !.done = TRUE, !.cur = None,
                  !.out = IF stream.cur = None THEN @
                          ELSE Append(@, Finalize(stream.cur, Fine))]
  /\ UNCHANGED records

OhlcInit == /\ records = <<>>
            /\ stream = [cur |-> None, last_mid |-> 0, out |-> <<>>, done |-> FALSE]
OhlcNext ==
  \/ \E ts \in 0 .. MaxTime, mid \in Mids :
       DropRecord(ts, mid) \/ SkipLate(ts, mid) \/ TakeRecord(ts, mid)
  \/ EndStream

-----------------------------------------------------------------------------
AccTypeOK ==
  /\ acc.count \in 0 .. MaxPushes /\ acc.rejected \in 0 .. MaxPushes
  /\ {acc.reaffirm_only, acc.carry_only} \subseteq BOOLEAN
OhlcTypeOK ==
  /\ stream.done \in BOOLEAN
  /\ \A i \in DOMAIN stream.out : stream.out[i].ticks \in 1 .. MaxIn

(* A record stands for its own window and for nothing before it: the last  *)
(* quote, the volumes and the rejects of that window, and flags that say   *)
(* whether any venue actually moved ("pure re-quote", "pure carry").       *)
OfKind(w, ks) == {i \in DOMAIN w : w[i].kind \in ks}
RecordTellsWindow ==
  flushed # None =>
    LET w == flushed.of  x == flushed.index
        quotes == OfKind(w, {"ingest", "reaffirm", "carry"}) IN
    /\ x.bid = w[CHOOSE i \in quotes : \A j \in quotes : j <= i].q
    /\ x.count = Cardinality(quotes)
    /\ x.vol = MapThenSumSet(LAMBDA i : w[i].v, quotes)
    /\ "REAFFIRM" \in x.flags <=> OfKind(w, {"ingest"}) = {}
    /\ "CARRY" \in x.flags <=> OfKind(w, {"ingest", "reaffirm"}) = {}
    /\ x.rejected = Smaller(Cardinality(OfKind(w, {"reject"})), RejectWidth)

(* The stream yields what the batch yields, for every order of the records *)
(* and every corrupt price among them; its candles ascend and lie within   *)
(* the accepted prices; and when the records come in order, coarsening the *)
(* candles gives the candles of the coarser timeframe.                     *)
InOrder == \A i \in 1 .. Len(records) - 1 : records[i].ts <= records[i + 1].ts
ResampleAgrees ==
  stream.done =>
    /\ stream.out = IdxToOhlc(records, Fine)
    /\ \A i \in 1 .. Len(stream.out) - 1 : stream.out[i].close_ts < stream.out[i + 1].ts
    /\ InOrder => Rollup(stream.out, Coarse) = IdxToOhlc(records, Coarse)
=============================================================================

------------------------------ MODULE VolRing -------------------------------
(***************************************************************************)
(* vol.rs: the live volatility ring and its .vol file.  A producer rolls   *)
(* closed fine candles into 30-minute bins, smooths the sigma of each      *)
(* closed bin and appends it to the file; after a restart it primes the    *)
(* ring from the tail of the file.  A sweeper trims the file meanwhile.    *)
(*                                                                         *)
(* A sigma is the candle it is computed from, and a smoothed sigma is the  *)
(* term the arithmetic would evaluate: <<"mean", sigmas>> and              *)
(* <<"ema", previous, sigma>>.  Equal terms are equal numbers, which is    *)
(* what "byte-identical" asks for.  Calling append_vol_row for last_row    *)
(* after each finalization is the producer's part, outside this source.    *)
(*                                                                         *)
(* After a restart the producer may feed the stored candles of the bin     *)
(* that the kill cut again (VolStart); that too is outside this source.    *)
(*                                                                         *)
(* hist, seen, spoiled and lost are history.  hist has every bin closed    *)
(* since ever, rolled up from all its candles, those before a kill         *)
(* included; seen has the candles of the bin after them.  spoiled has the  *)
(* bins whose candles did not all reach the ring in order: cut by a kill   *)
(* and not fed again, or touched by a late candle.  lost has the bins      *)
(* whose row was lost on its way: two closed by one candle, a row not      *)
(* appended before the next or before a kill, an append to a torn file or  *)
(* into a trim.                                                            *)
(*                                                                         *)
(* PrimedCold and OpenUnaligned are wrong versions of the definitions that *)
(* follow them: nothing uses them, and a property is checked to fail with  *)
(* each of them.                                                           *)
(***************************************************************************)
EXTENDS Resample, Sigma

CONSTANTS
  BinLen,        \* VOL_BIN_MS
  Cap,           \* capacity of the ring
  EmaPeriod,
  MaxRows,       \* what the sweeper leaves in the file
  Shapes,        \* the <<open, high, low, close>> of candles; some not valid
  VolTime, MaxCandles, MaxKills, MaxTrims   \* bounds of the model

ASSUME VolAssumption ==
  /\ BinLen \in Nat \ {0}
  /\ {Cap, EmaPeriod, MaxRows} \subseteq Nat \ {0}
  /\ {VolTime, MaxCandles, MaxKills, MaxTrims} \subseteq Nat

VARIABLES
  ring,          \* [rows, prev_ema, count, open]
  row,           \* the row finalized and not yet appended
  volFile,       \* [rows, torn]
  sweep,         \* what trim_vol_tail has read
  up, clock, kills, trims,
  hist, seen, spoiled, lost

volVars == <<ring, row, volFile, sweep, up, clock, kills, trims, hist, seen, spoiled, lost>>

Unread == [read |-> FALSE]
NoRow  == <<>>
-----------------------------------------------------------------------------
(* The smoothing of finalize_open: an expanding mean, then the EMA.        *)
Mean(prev, n, s) ==
  IF prev = None THEN <<"mean", <<s>>>>
  ELSE IF prev[1] = "mean" /\ Len(prev[2]) = n THEN <<"mean", Append(prev[2], s)>>
  ELSE <<"mixed", prev, n, s>>
Smoothed(prev, n, s) ==
  IF n < EmaPeriod THEN Mean(prev, n, s)
  ELSE <<"ema", IF prev = None THEN s ELSE prev, s>>

(* What the offline builder computes: a slice mean, then the same EMA.     *)
Offline(bins) ==
  LET ema[i \in 1 .. Len(bins)] ==
        IF i <= EmaPeriod THEN <<"mean", [j \in 1 .. i |-> bins[j].sigma]>>
        ELSE <<"ema", ema[i - 1], bins[i].sigma>>
  IN [i \in 1 .. Len(bins) |-> [bin |-> bins[i].bin, ema |-> ema[i]]]

Newest(s, n) == SubSeq(s, IF Len(s) > n THEN Len(s) - n + 1 ELSE 1, Len(s))

EmptyRing == [rows |-> <<>>, prev_ema |-> None, count |-> 0, open |-> None]

(* prime_from_slice of read_vol_tail: a file that is not a multiple of the *)
(* record size primes nothing.                                             *)
ReadTail(f) == IF f.torn THEN <<>> ELSE Newest(f.rows, Cap)
PrimedCold(rows) ==
  [rows |-> Newest(rows, Cap), count |-> 0, open |-> None, prev_ema |-> None]
Primed(rows) ==
  LET kept == Newest(rows, Cap) IN
  [rows |-> kept, count |-> Len(kept), open |-> None,
   prev_ema |-> IF kept = <<>> THEN None ELSE Last(kept).ema]

SigmaOf(b) == <<b.open, b.high, b.low, b.close>>
FinalizeOpen(r) ==
  IF r.open = None THEN r
  ELSE LET ema == Smoothed(r.prev_ema, r.count, SigmaOf(r.open)) IN
    [rows |-> Newest(Append(r.rows, [bin |-> r.open.ts, ema |-> ema]), Cap),
     prev_ema |-> ema, count |-> r.count + 1, open |-> None]

BinStart(t) == (t \div BinLen) * BinLen
OpenUnaligned(bs, c) ==
  [ts |-> c.ts, open |-> c.open, high |-> c.high, low |-> c.low, close |-> c.close]
OpenBin(bs, c) ==
  [ts |-> bs, open |-> c.open, high |-> c.high, low |-> c.low, close |-> c.close]
Merge(r, bs, c, close) ==
  [r EXCEPT !.open.high = Larger(@, c.high), !.open.low = Smaller(@, c.low),
            !.open.close = IF close = Absent THEN @ ELSE close]

(* touch_bin: the last arm takes any bin that is not later, whatever the   *)
(* debug assertion expects.                                                *)
TouchBin(r, bs, c, close) ==
  IF r.open = None THEN [r EXCEPT !.open = OpenBin(bs, c)]
  ELSE IF bs > r.open.ts THEN [FinalizeOpen(r) EXCEPT !.open = OpenBin(bs, c)]
  ELSE Merge(r, bs, c, close)

Valid(c) == c.open > 0 /\ c.high > 0 /\ c.low > 0 /\ c.close > 0
ObserveS10(r, c) ==
  LET ob == BinStart(c.ts)  cb == BinStart(c.close_ts) IN
  IF ob = cb THEN TouchBin(r, ob, c, c.close)
  ELSE TouchBin(TouchBin(r, ob, c, Absent), cb, c, c.close)

-----------------------------------------------------------------------------
Candle(ts, len, sh) ==
  [ts |-> ts, close_ts |-> ts + len, open |-> sh[1], high |-> sh[2],
   low |-> sh[3], close |-> sh[4], ticks |-> 1]
BinsOf(cs) == {BinStart(cs[i].close_ts) : i \in DOMAIN cs}
RowBins(rows) == {rows[i].bin : i \in DOMAIN rows}

(* The bins before edge that cs completes, as an offline rollup has them.  *)
Completed(cs, edge) ==
  LET b == Buckets(cs, BinLen)
      new == SetToSortSeq({t \in DOMAIN b : t < edge /\ t \notin RowBins(hist)}, <)
  IN  [i \in DOMAIN new |-> [bin |-> new[i], sigma |-> SigmaOf(b[new[i]])]]

(* A candle is late when its bin was closed before, or a later one is open. *)
LateFor(r, c) ==
  LET b == BinStart(c.ts)
  IN  b \in RowBins(hist) \cup RowBins(r.rows) \/ (r.open # None /\ b < r.open.ts)

(* append_vol_row is called for the row of the newest bin only.            *)
Observe(ts, len, sh) ==
  LET c == Candle(ts, len, sh)  s == ObserveS10(ring, c)  all == Append(seen, c)
      n == s.count - ring.count  edge == s.open.ts
      fresh == Newest(s.rows, n)
  IN
  /\ up /\ Len(seen) < MaxCandles /\ Valid(c)
  /\ ring' = s
  /\ clock' = Larger(clock, ts)
  /\ hist' = hist \o Completed(all, edge)
  /\ seen' = SelectSeq(all, LAMBDA x : BinStart(x.close_ts) >= edge)
  /\ spoiled' = IF LateFor(ring, c) THEN spoiled \cup {BinStart(ts), edge} ELSE spoiled
  /\ row' = IF n > 0 THEN <<Last(s.rows)>> ELSE row
  /\ lost' = IF n = 0 THEN lost ELSE lost \cup RowBins(row) \cup RowBins(Front(fresh))
  /\ UNCHANGED <<volFile, sweep, up, kills, trims>>

(* append_vol_row: a misaligned file is left alone.                        *)
AppendVolRow ==
  /\ up /\ row # NoRow
  /\ IF volFile.torn THEN volFile' = volFile /\ lost' = lost \cup RowBins(row)
     ELSE volFile' = [volFile EXCEPT !.rows = @ \o row] /\ lost' = lost
  /\ row' = NoRow
  /\ UNCHANGED <<ring, sweep, up, clock, kills, trims, hist, seen, spoiled>>

(* A kill loses the open bin and the row not yet appended; in the middle   *)
(* of an append it may leave part of the row.                              *)
VolKill ==
  /\ up /\ kills < MaxKills
  /\ kills' = kills + 1 /\ up' = FALSE
  /\ volFile' \in {volFile} \cup
       (IF row # NoRow THEN {[volFile EXCEPT !.torn = TRUE]} ELSE {})
  /\ lost' = lost \cup RowBins(row)
  /\ ring' = EmptyRing /\ row' = NoRow
  /\ UNCHANGED <<sweep, clock, trims, hist, seen, spoiled>>

(* The ring is primed, and the producer goes on with the next candle, or   *)
(* first feeds those of the cut bin again.  A candle that straddles into   *)
(* it would open the bin before it again, and is left out.                 *)
VolStart ==
  /\ ~up
  /\ up' = TRUE
  /\ \E again \in BOOLEAN :
       LET fed == SelectSeq(seen, LAMBDA x : again /\ BinStart(x.ts) = BinStart(x.close_ts))
       IN  /\ ring' = FoldLeft(ObserveS10, Primed(ReadTail(volFile)), fed)
           /\ spoiled' = IF fed = seen THEN spoiled ELSE spoiled \cup BinsOf(seen)
  /\ UNCHANGED <<row, volFile, sweep, clock, kills, trims, hist, seen, lost>>

(* trim_vol_tail reads the file, writes what it keeps beside it, renames.  *)
Kept(rows) == Newest(rows, MaxRows)
TrimRead ==
  /\ ~sweep.read /\ trims < MaxTrims
  /\ ~volFile.torn /\ Len(volFile.rows) > MaxRows
  /\ sweep' = [read |-> TRUE, rows |-> Kept(volFile.rows), len |-> Len(volFile.rows)]
  /\ trims' = trims + 1
  /\ UNCHANGED <<ring, row, volFile, up, clock, kills, hist, seen, spoiled, lost>>

TrimRename ==
  /\ sweep.read
  /\ volFile' = [rows |-> sweep.rows, torn |-> FALSE]
  /\ sweep' = Unread
  /\ lost' = lost \cup RowBins(SubSeq(volFile.rows, sweep.len + 1, Len(volFile.rows)))
  /\ UNCHANGED <<ring, row, up, clock, kills, trims, hist, seen, spoiled>>

VolInit ==
  /\ ring = EmptyRing /\ row = NoRow /\ volFile = [rows |-> <<>>, torn |-> FALSE]
  /\ sweep = Unread /\ up = TRUE /\ clock = 0 /\ kills = 0 /\ trims = 0
  /\ hist = <<>> /\ seen = <<>> /\ spoiled = {} /\ lost = {}

VolNext ==
  \/ \E d \in -1 .. BinLen, len \in {0, 1}, sh \in Shapes :
       /\ len = 1 => BinStart(clock + d + 1) = clock + d + 1
       /\ d # 0 /\ clock + d \in 0 .. VolTime
       /\ Observe(clock + d, len, sh)
  \/ AppendVolRow \/ VolKill \/ VolStart \/ TrimRead \/ TrimRename

-----------------------------------------------------------------------------
VolTypeOK ==
  /\ Len(ring.rows) <= Cap /\ up \in BOOLEAN /\ volFile.torn \in BOOLEAN
  /\ (ring.open # None => ring.open.ts % BinLen = 0)

(* Every row takes in the sigma of its own bin, rolled up from all its     *)
(* candles, those before a kill included; it has its place once; and no    *)
(* row later than the first of the file is missing: whatever kills, trims  *)
(* and straddling candles did to other bins.                               *)
IsTail(s, t) == Len(s) <= Len(t) /\ s = SubSeq(t, Len(t) - Len(s) + 1, Len(t))
NewestSigma(ema) == IF ema[1] = "mean" THEN Last(ema[2]) ELSE Last(ema)
Unspoiled(rows) == SelectSeq(rows, LAMBDA r : r.bin \notin spoiled)
TrueToBins(rows) ==
  LET ok == Unspoiled(rows)
  IN  \A i \in DOMAIN ok :
        /\ \E h \in Range(hist) : h.bin = ok[i].bin /\ h.sigma = NewestSigma(ok[i].ema)
        /\ i > 1 => ok[i - 1].bin < ok[i].bin
NoneMissing(rows) ==
  \A h \in Range(hist) :
    rows # <<>> /\ h.bin > rows[1].bin => h.bin \in RowBins(rows) \cup spoiled \cup lost

(* "Byte-identical at the history-live seam": as long as every candle and  *)
(* every row arrived, the rows of the ring and of the file are the newest  *)
(* an offline build computes from the rolled-up candles, across every      *)
(* restart, the bin it cut included.                                       *)
SameAsOffline ==
  spoiled = {} /\ lost = {} =>
    /\ IsTail(volFile.rows \o row, Offline(hist))
    /\ up => IsTail(ring.rows, Offline(hist)) /\ Len(ring.rows) >= Smaller(Cap, Len(volFile.rows))

VolSeam ==
  /\ TrueToBins(ring.rows) /\ TrueToBins(volFile.rows \o row)
  /\ NoneMissing(volFile.rows \o row)
  /\ SameAsOffline

=============================================================================

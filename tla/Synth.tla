------------------------------- MODULE Synth -------------------------------
(***************************************************************************)
(* Synthetic prices: the signed product of the prices of a path's legs     *)
(* (rust/src/synth/tick.rs, compose.rs, ohlc.rs, bar.rs, rolling.rs).      *)
(*                                                                         *)
(* A price is its logarithm, so a product is a sum, an inversion a         *)
(* negation and a range of a candle the difference of two prices.  NoPrice *)
(* stands for a price that is not a positive number.  Correlations are in  *)
(* hundredths, truncated, and a log-range is truncated to a whole unit.    *)
(***************************************************************************)
EXTENDS Integers, Sequences, SequencesExt, FiniteSetsExt, Functions

CONSTANTS NoPrice,      \* a price that is not a positive number
          MaxPrice,  \* mitch::MAX_PRICE
          FullConf   \* 10 000 basis points of confidence

Positive(p) == p # NoPrice
Sound(p) == Positive(p) /\ p <= MaxPrice

Product(legs, x) == MapThenSumSet(LAMBDA i : legs[i].exp * x[i], DOMAIN legs)
Least(S)    == CHOOSE x \in S : \A y \in S : x <= y
Greatest(S) == CHOOSE x \in S : \A y \in S : x >= y
Root(n) == IF n <= 0 THEN 0 ELSE Greatest({k \in 0 .. n : k * k <= n})
Pairs(n) == {p \in (1 .. n) \X (1 .. n) : p[1] < p[2]}

---------------------------------------------------------------------------
(* A quote.  Dividing by a leg takes the other side of its book.           *)
NoTick == <<>>
Bids(leg) == IF leg.exp = 1 THEN leg.bid ELSE -leg.ask
Asks(leg) == IF leg.exp = 1 THEN leg.ask ELSE -leg.bid

ComposeLegs(legs) ==
  LET all == Range(legs)
      bid == MapThenSumSet(LAMBDA i : Bids(legs[i]), DOMAIN legs)
      ask == MapThenSumSet(LAMBDA i : Asks(legs[i]), DOMAIN legs)
  IN  IF \E leg \in all : ~(Sound(leg.mid) /\ Sound(leg.bid) /\ Sound(leg.ask))
      THEN NoTick
      ELSE [mid |-> Product(legs, [i \in DOMAIN legs |-> legs[i].mid]), bid |-> bid, ask |-> ask,
            conf |-> IF ask < bid THEN 0 ELSE Least({FullConf} \cup {leg.conf : leg \in all})]

Missing(path, have) == \E i \in DOMAIN path : path[i].sym \notin DOMAIN have
ComputeSynthTick(path, quotes) ==
  IF Missing(path, quotes) THEN NoTick
  ELSE ComposeLegs([i \in DOMAIN path |-> [exp |-> path[i].exp] @@ quotes[path[i].sym]])

---------------------------------------------------------------------------
(* The rolling correlation: running sums over a ring of the last n pairs.  *)
RollNew(n) == [n |-> n, ring |-> [k \in 0 .. n - 1 |-> <<0, 0>>], idx |-> 0, filled |-> 0,
               sx |-> 0, sy |-> 0, sxx |-> 0, syy |-> 0, sxy |-> 0]
Summed(a, x, y, sign) ==
  [a EXCEPT !.sx = @ + sign * x, !.sy = @ + sign * y, !.sxx = @ + sign * x * x,
            !.syy = @ + sign * y * y, !.sxy = @ + sign * x * y]
Evicted(a) == IF a.filled = a.n THEN Summed(a, a.ring[a.idx][1], a.ring[a.idx][2], -1)
              ELSE [a EXCEPT !.filled = @ + 1]
RollAdd(a, x, y) ==
  [Summed(Evicted(a), x, y, 1) EXCEPT !.ring[a.idx] = <<x, y>>, !.idx = (a.idx + 1) % a.n]
RollValue(a) ==
  LET num == a.filled * a.sxy - a.sx * a.sy
      dx == a.filled * a.sxx - a.sx * a.sx
      dy == a.filled * a.syy - a.sy * a.sy
      size == Greatest({k \in 0 .. 99 : k * k * dx * dy <= 10000 * num * num})
  IN  IF a.filled < 2 \/ dx <= 0 \/ dy <= 0 THEN 0 ELSE IF num < 0 THEN -size ELSE size

---------------------------------------------------------------------------
(* One candle from the legs' candles.  kernel[i] is the leg's variance in  *)
(* squared price units; Scale turns it into a squared log-range (in 10^-4).*)
NoCandle == <<>>
Sane(k) == /\ \A p \in {k.o, k.h, k.l, k.c} : Positive(p)
           /\ k.h >= k.l
Kernel(k, est) == IF est = "parkinson" THEN (k.h - k.l) * (k.h - k.l)
                  ELSE Greatest({0, (k.h - k.c) * (k.h - k.o) + (k.l - k.c) * (k.l - k.o)})
Scale(est) == IF est = "parkinson" THEN 10000 ELSE 27726
(* The quadratic form over the legs, in hundredths, floored at zero; rho is*)
(* the correlation of each pair of legs.                                   *)
Quadratic(path, v, rho) ==
  Greatest({0, 100 * MapThenSumSet(LAMBDA i : v[i], DOMAIN path)
             + 2 * MapThenSumSet(LAMBDA p : path[p[1]].exp * path[p[2]].exp * rho[p]
                                            * Root(v[p[1]] * v[p[2]]), Pairs(Len(path)))})
(* Open and close are exact; high and low lie half a range to either side  *)
(* of their midpoint.  The answer is in half units of price.               *)
ReconstructOhlc(path, candles, est, rho) ==
  LET k(i) == candles[path[i].sym]
      v == [i \in DOMAIN path |-> Kernel(k(i), est)]
      o == Product(path, [i \in DOMAIN path |-> k(i).o])
      c == Product(path, [i \in DOMAIN path |-> k(i).c])
      r == Root((Scale(est) * Quadratic(path, v, rho)) \div 1000000)
  IN  IF Missing(path, candles) THEN NoCandle
      ELSE IF \E i \in DOMAIN path : ~Sane(k(i)) THEN NoCandle
      ELSE [o |-> 2 * o, h |-> o + c + r, l |-> o + c - r, c |-> 2 * c, range |-> r]

---------------------------------------------------------------------------
(* A series of candles, bucket by bucket, and its rollup.                  *)
Bucket(ts, tf) == (ts \div tf) * tf
Merged(acc, k) == [acc EXCEPT !.h = Greatest({@, k.h}), !.l = Least({@, k.l}), !.c = k.c]
Stacked(rows) == FoldLeft(Merged, Head(rows), Tail(rows))
InBucket(rows, b, tf) == SelectSeq(rows, LAMBDA r : Bucket(r.ts, tf) = b)
Ascending(S) == SetToSortSeq(S, <)

ReconstructSeries(path, series, tf, est, rho) ==
  LET syms == {path[i].sym : i \in DOMAIN path}
      buckets == UNION {{Bucket(series[s][j].ts, tf) : j \in DOMAIN series[s]} : s \in syms}
      at(b) == [s \in {s \in syms : InBucket(series[s], b, tf) # <<>>} |->
                  Stacked(InBucket(series[s], b, tf))]
      rows(made) == LET kept == Ascending({b \in buckets : made[b] # NoCandle})
                    IN  [j \in DOMAIN kept |-> [ts |-> kept[j]] @@ made[kept[j]]]
  IN  IF Missing(path, series) THEN <<>>
      ELSE rows([b \in buckets |-> ReconstructOhlc(path, at(b), est, rho)])

(* The first candle of a bucket opens it, the rest are merged into it.     *)
ThenRollup(path, series, base, target, est, rho) ==
  LET step(out, k) ==
        LET b == Bucket(k.ts, target)
        IN  IF out # <<>> /\ Last(out).ts = b
            THEN Front(out) \o <<[Merged(Last(out), k) EXCEPT !.count = @ + 1]>>
            ELSE Append(out, [k EXCEPT !.ts = b] @@ [count |-> 1])
      rolled(rows) == IF target <= base THEN [j \in DOMAIN rows |-> rows[j] @@ [count |-> 1]]
                      ELSE FoldLeft(step, <<>>, rows)
  IN  rolled(ReconstructSeries(path, series, base, est, rho))

---------------------------------------------------------------------------
Uniform(path, rho) == [p \in Pairs(Len(path)) |-> rho]
Inverted(path) == [i \in DOMAIN path |-> [path[i] EXCEPT !.exp = -@]]

(* A composed quote is never inside out nor surer than its weakest leg, and*)
(* the inverse of a cross is its book turned round; without one of its legs*)
(* there is no quote.                                                      *)
TickSound(legs) ==
  LET path == [i \in DOMAIN legs |-> [sym |-> i, exp |-> legs[i].exp]]
      t == ComputeSynthTick(path, legs)  u == ComputeSynthTick(Inverted(path), legs)
      upright == \A leg \in Range(legs) : leg.bid <= leg.mid /\ leg.mid <= leg.ask
  IN  /\ (t = NoTick) = (u = NoTick)
      /\ \A i \in DOMAIN legs :
           ComputeSynthTick(path, [j \in DOMAIN legs \ {i} |-> legs[j]]) = NoTick
      /\ t # NoTick => /\ u.bid = -t.ask /\ u.ask = -t.bid /\ u.mid = -t.mid
                       /\ upright => t.bid <= t.mid /\ t.mid <= t.ask
                       /\ \A leg \in Range(legs) : t.conf <= leg.conf
                       /\ t.ask < t.bid => t.conf = 0

(* After any number of samples the running sums are those of the window.   *)
RollSound(samples, n) ==
  LET a == FoldLeft(LAMBDA s, p : RollAdd(s, p[1], p[2]), RollNew(n), samples)
      from == Greatest({1, Len(samples) - n + 1})
      over(f(_)) == MapThenSumSet(LAMBDA i : f(samples[i]), from .. Len(samples))
  IN  /\ a.filled = Len(samples) - from + 1
      /\ a.sx = over(LAMBDA p : p[1]) /\ a.sxx = over(LAMBDA p : p[1] * p[1])
      /\ a.sy = over(LAMBDA p : p[2]) /\ a.sxy = over(LAMBDA p : p[1] * p[2])
      /\ RollValue(a) \in -99 .. 99

(* A reconstructed range is symmetric about its midpoint, no wider than the*)
(* legs' ranges laid end to end, that of the leg itself for a path of one, *)
(* and the same for the inverse of the path.                               *)
OhlcSound(path, candles, rho) ==
  LET k == ReconstructOhlc(path, candles, "parkinson", Uniform(path, rho))
      u == ReconstructOhlc(Inverted(path), candles, "parkinson", Uniform(path, rho))
      wide(i) == candles[path[i].sym].h - candles[path[i].sym].l
  IN  /\ (k = NoCandle) = (u = NoCandle)
      /\ k # NoCandle =>
           /\ k.h + k.l = k.o + k.c /\ k.h >= k.l
           /\ k.range <= MapThenSumSet(wide, DOMAIN path)
           /\ Len(path) = 1 => k.range = wide(1)
           /\ u = [o |-> -k.o, h |-> -k.l, l |-> -k.h, c |-> -k.c, range |-> k.range]

(* The rollup neither loses nor invents a candle, and opens and closes with*)
(* the first and the last of its bucket.                                   *)
RollupSound(path, series, base, target) ==
  LET tells(k, of) ==
        /\ k.count = Len(of) /\ k.o = of[1].o /\ k.c = Last(of).c
        /\ k.h = Greatest({r.h : r \in Range(of)}) /\ k.l = Least({r.l : r \in Range(of)})
      agree(rows, out) ==
        /\ \A i \in 1 .. Len(out) - 1 : out[i].ts < out[i + 1].ts
        /\ Len(rows) = MapThenSumSet(LAMBDA i : out[i].count, DOMAIN out)
        /\ \A k \in Range(out) :
             tells(k, SelectSeq(rows, LAMBDA r : Bucket(r.ts, Greatest({base, target})) = k.ts))
  IN  agree(ReconstructSeries(path, series, base, "rogers", Uniform(path, 0)),
            ThenRollup(path, series, base, target, "rogers", Uniform(path, 0)))
=============================================================================

------------------------------ MODULE SynthBar ------------------------------
(***************************************************************************)
(* Synthetic bars from the bars of a path's legs (rust/src/synth/bar.rs,   *)
(* compose.rs).  A leg bar is [open, at, o, h, l, c, rv, ci, spread, depth,*)
(* ticks, peak, reject, micro, kind]: at is close_mts, micro the fields    *)
(* only ever copied from the gating leg (drift, imbalance), depth the two  *)
(* volumes.                                                                *)
(***************************************************************************)
EXTENDS Synth

CONSTANTS MaxCount,  \* u32::MAX of the summed counters
          MtsPerMs   \* ticks of a close_mts per millisecond

Saturated(n) == Least({n, MaxCount})
PricesOf(b) == {b.o, b.h, b.l, b.c}

---------------------------------------------------------------------------
(* One bar of a cross from its legs' bars of the same bucket.              *)
NoBarMade == <<>>
HighCorner(leg, b) == leg.exp * b.h
LowCorner(leg, b) == leg.exp * b.l
ComposeCross(path, bars) ==
  LET every == Range(bars)
      o == Product(path, [i \in DOMAIN path |-> bars[i].o])
      c == Product(path, [i \in DOMAIN path |-> bars[i].c])
      corners == {o, c, MapThenSumSet(LAMBDA i : HighCorner(path[i], bars[i]), DOMAIN path),
                        MapThenSumSet(LAMBDA i : LowCorner(path[i], bars[i]), DOMAIN path)}
      bar == [open |-> bars[1].open, at |-> bars[1].at,
              o |-> o, h |-> Greatest(corners), l |-> Least(corners), c |-> c, rv |-> 0,
              ci |-> Root(MapThenSumSet(LAMBDA i : bars[i].ci * bars[i].ci, DOMAIN bars)),
              spread |-> MapThenSumSet(LAMBDA i : bars[i].spread, DOMAIN bars),
              depth |-> Least({b.depth : b \in every}), ticks |-> Greatest({b.ticks : b \in every}),
              reject |-> Greatest({b.reject : b \in every}), peak |-> 0, micro |-> 0,
              kind |-> "composed"]
  IN  IF \/ path = <<>> \/ Len(path) # Len(bars)
         \/ \E b \in every : b.h < b.l \/ \E p \in PricesOf(b) : ~Sound(p)
      THEN NoBarMade
      ELSE IF \E p \in PricesOf(bar) : p > MaxPrice THEN NoBarMade ELSE bar

---------------------------------------------------------------------------
(* Aligning the legs' series on close_mts.  The first leg drives; of two   *)
(* bars of a leg with one stamp the later one counts.                      *)
At(series, t) == IF \E j \in DOMAIN series : series[j].at = t
                 THEN series[Greatest({j \in DOMAIN series : series[j].at = t})] ELSE NoBarMade
Shared(path, bars) ==
  SelectSeq(bars[path[1].sym], LAMBDA b : \A i \in DOMAIN path : At(bars[path[i].sym], b.at) # NoBarMade)

(* The correlation of two legs at a bucket: log-returns between consecutive*)
(* shared buckets, whatever time lies between them.                        *)
HasReturns(prev, legs, i, j) ==
  /\ prev # <<>>
  /\ \A k \in {i, j} : Positive(prev[k].c) /\ Positive(legs[k].c)
RhoStep(path, bars, i, j, s, t) ==
  LET legs == [k \in DOMAIN path |-> At(bars[path[k].sym], t)]
      acc == RollAdd(s.acc, legs[i].c - s.prev[i].c, legs[j].c - s.prev[j].c)
  IN  IF HasReturns(s.prev, legs, i, j)
      THEN [prev |-> legs, acc |-> acc, rho |-> (t :> RollValue(acc)) @@ s.rho]
      ELSE [s EXCEPT !.prev = legs]
BuildRhoCache(path, bars, window) ==
  LET run(i, j) == FoldLeft(LAMBDA s, b : RhoStep(path, bars, i, j, s, b.at),
                            [prev |-> <<>>, acc |-> RollNew(Greatest({window, 2})), rho |-> <<>>],
                            Shared(path, bars))
  IN  [p \in Pairs(Len(path)) |-> run(p[1], p[2]).rho]
CachedRho(cache, t, i, j) ==
  LET p == IF i < j THEN <<i, j>> ELSE <<j, i>>
  IN  IF i = j THEN 100 ELSE IF t \in DOMAIN cache[p] THEN cache[p][t] ELSE 0

(* The bars of a path: prices from the quadratic form, realised variance   *)
(* likewise, everything else from the leg with the largest uncertainty.    *)
(* rho[t] has the correlations at the bucket of t.                         *)
Gates(legs, i) == \A k \in DOMAIN legs : legs[k].ci < legs[i].ci \/ (legs[k].ci = legs[i].ci /\ i <= k)
Gate(legs) == legs[CHOOSE i \in DOMAIN legs : Gates(legs, i)]
SynthBarAt(path, legs, driver, est, rho) ==
  LET rv == [i \in DOMAIN path |-> legs[i].rv]
      with(k) == IF k = NoCandle THEN NoBarMade
                 ELSE [Gate(legs) EXCEPT !.open = driver.open, !.at = driver.at, !.o = k.o, !.h = k.h,
                                         !.l = k.l, !.c = k.c, !.rv = Quadratic(path, rv, rho)]
  IN  with(ReconstructOhlc(path, [s \in {path[i].sym : i \in DOMAIN path} |->
                                    legs[Greatest({i \in DOMAIN path : path[i].sym = s})]], est, rho))
SynthBars(path, bars, est, rho) ==
  LET drivers == Shared(path, bars)
      made == [j \in DOMAIN drivers |->
                 SynthBarAt(path, [i \in DOMAIN path |-> At(bars[path[i].sym], drivers[j].at)],
                            drivers[j], est, rho[drivers[j].at])]
  IN  IF path = <<>> \/ Missing(path, bars) THEN <<>>
      ELSE SelectSeq(made, LAMBDA b : b # NoBarMade)
Stamps(bars) == UNION {{b.at : b \in Range(bars[s])} : s \in DOMAIN bars}
RollingRhoBars(path, bars, est, window) ==
  LET cache == BuildRhoCache(path, bars, window)
  IN  SynthBars(path, bars, est,
                [t \in Stamps(bars) |-> [p \in Pairs(Len(path)) |-> CachedRho(cache, t, p[1], p[2])]])

---------------------------------------------------------------------------
(* The rollup: sums of the counters, the extremes of the prices, the gated *)
(* fields of the worst sub-bar.  The window is counted in ms, the stamps   *)
(* in MITCH ticks.                                                         *)
BarMerged(a, b) ==
  [a EXCEPT !.h = Greatest({@, b.h}), !.l = Least({@, b.l}), !.c = b.c, !.at = b.at,
            !.depth = Saturated(@ + b.depth), !.ticks = Saturated(@ + b.ticks), !.rv = @ + b.rv,
            !.peak = Greatest({@, b.peak}),
            !.micro = IF b.ci > a.ci THEN b.micro ELSE @, !.spread = IF b.ci > a.ci THEN b.spread ELSE @,
            !.reject = IF b.ci > a.ci THEN b.reject ELSE @, !.ci = Greatest({@, b.ci})]
BarsThenRollup(path, bars, base, target, est, rho) ==
  LET step(out, b) ==
        LET w == Bucket(b.at, target)
        IN  IF out # <<>> /\ Last(out).open = w
            THEN Append(Front(out), BarMerged(Last(out), b))
            ELSE Append(out, [b EXCEPT !.open = w])
      rolled(rows) == IF target <= base THEN rows ELSE FoldLeft(step, <<>>, rows)
  IN  rolled(SynthBars(path, bars, est, rho))

---------------------------------------------------------------------------
(* A composed bar holds its open and its close whatever way the legs moved,*)
(* and the inverse cross is the same bar upside down.                      *)
CrossBarSound(path, bars) ==
  LET sound(b, u) ==
        /\ b.l <= b.o /\ b.o <= b.h /\ b.l <= b.c /\ b.c <= b.h
        /\ u # NoBarMade => u = [b EXCEPT !.o = -b.o, !.h = -b.l, !.l = -b.h, !.c = -b.c]
        /\ \A leg \in Range(bars) : leg.ci <= b.ci /\ (leg.ticks > 0 => b.ticks > 0)
      made(b) == b # NoBarMade => sound(b, ComposeCross(Inverted(path), bars))
  IN  made(ComposeCross(path, bars))

(* A bar of a series is made of bars of its own bucket, of every leg, and  *)
(* owns up to the worst of their uncertainties; its correlation knows only *)
(* what happened up to that bucket.                                        *)
BarSeriesSound(path, bars, window) ==
  LET cut(t) == [s \in DOMAIN bars |-> SelectSeq(bars[s], LAMBDA b : b.at <= t)]
      sound(b) ==
        /\ \A i \in DOMAIN path : LET leg == At(bars[path[i].sym], b.at) IN
             leg # NoBarMade /\ leg.ci <= b.ci
        /\ b.rv >= 0 /\ b.h >= b.l
        /\ Last(RollingRhoBars(path, cut(b.at), "parkinson", window)) = b
  IN  \A b \in Range(RollingRhoBars(path, bars, "parkinson", window)) : sound(b)

NoRho(path, bars) == [t \in Stamps(bars) |-> Uniform(path, 0)]
(* A rollup hides nothing of what it merges: neither an extreme, nor the   *)
(* worst uncertainty, nor the last close, and each bar is in one window.   *)
RollupConserves(path, bars, base, target) ==
  LET Field(s, f) == {s[j][f] : j \in DOMAIN s}
      hidden(rows, out) ==
        \/ Last(out).c # Last(rows).c \/ Last(out).at # Last(rows).at
        \/ \E f \in {"h", "ci", "peak"} : Greatest(Field(out, f)) # Greatest(Field(rows, f))
        \/ Least(Field(out, "l")) # Least(Field(rows, "l"))
      conserved(rows, out) ==
        /\ rows # <<>> => ~hidden(rows, out)
        /\ \A r \in Range(rows) : \E w \in Range(out) : w.open <= r.at /\ r.at <= w.at
  IN  conserved(SynthBars(path, bars, "parkinson", NoRho(path, bars)),
                BarsThenRollup(path, bars, base, target, "parkinson", NoRho(path, bars)))
=============================================================================

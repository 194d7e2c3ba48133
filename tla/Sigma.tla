------------------------------- MODULE Sigma --------------------------------
(***************************************************************************)
(* The volatility arithmetic: vol_estimator.rs (per-bar kernels, floors),  *)
(* mtf.rs (lookback legs and their blend) and vol.rs MtfVolCalculator.     *)
(*                                                                         *)
(* A price is its logarithm, an integer from 1; 0 stands for a price that  *)
(* is not positive.  Divisions are kept as <<numerator, denominator>>, so  *)
(* that a denominator of zero is seen.                                     *)
(*                                                                         *)
(* CloseReturnsShort is a wrong version of the definition that follows it: *)
(* nothing uses it, and the property is checked to fail with it.           *)
(***************************************************************************)
EXTENDS Integers, SequencesExt

Sum(s) == FoldLeft(LAMBDA a, x : a + x, 0, s)
Sq(x)  == x * x
Zero   == <<0, 1>>
Defined(q) == q[2] > 0
AtMost(p, q) == p[1] * q[2] <= q[1] * p[2]

(* Kernels over one bar [o, h, l, c], and over a window of bars.           *)
Priced(b) == b.o > 0 /\ b.h > 0 /\ b.l > 0 /\ b.c > 0
RsVariance(b) ==
  IF Priced(b) THEN (b.h - b.c) * (b.h - b.o) + (b.l - b.c) * (b.l - b.o) ELSE 0
ParkinsonVariance(b) == Sq(b.h - b.l)
GarmanKlass(b) == IF Priced(b) THEN 500 * Sq(b.h - b.l) - 386 * Sq(b.c - b.o) ELSE 0

MeanOf(s) == IF s = <<>> THEN Zero ELSE <<Sum(s), Len(s)>>
Parkinson(bars) ==
  LET used == SelectSeq(bars, LAMBDA b : b.l > 0 /\ b.h >= b.l)
  IN  MeanOf([i \in DOMAIN used |-> ParkinsonVariance(used[i])])
Gk(bars) ==
  LET used == SelectSeq(bars, LAMBDA b : b.o > 0 /\ b.c > 0 /\ b.l > 0 /\ b.h >= b.l)
  IN  MeanOf([i \in DOMAIN used |->
                IF GarmanKlass(used[i]) > 0 THEN GarmanKlass(used[i]) ELSE 0])

(* Yang-Zhang: overnight gaps, close-to-close returns and the              *)
(* Rogers-Satchell mean, weighted by 0.34 / (1.34 + (n+1)/(n-1)).          *)
Gaps(bars) ==
  LET at == SelectSeq([i \in 1 .. Len(bars) - 1 |-> i + 1],
                      LAMBDA i : bars[i].o > 0 /\ bars[i - 1].c > 0 /\ bars[i].c > 0)
  IN  [j \in DOMAIN at |-> bars[at[j]].o - bars[at[j] - 1].c]
CloseReturnsShort(bars) == Tail(Gaps(bars))
CloseReturns(bars) ==
  LET at == SelectSeq([i \in 1 .. Len(bars) - 1 |-> i + 1],
                      LAMBDA i : bars[i].c > 0 /\ bars[i - 1].c > 0)
  IN  [j \in DOMAIN at |-> bars[at[j]].c - bars[at[j] - 1].c]
Variance(s) ==
  <<Len(s) * Sum([i \in DOMAIN s |-> Sq(s[i])]) - Sq(Sum(s)), Len(s) * (Len(s) - 1)>>
RsMean(bars) ==
  LET used == SelectSeq(bars, LAMBDA b : b.o > 0 /\ b.c > 0 /\ b.l > 0 /\ b.h >= b.l)
  IN  <<Sum([i \in DOMAIN used |-> RsVariance(used[i])]), Len(bars)>>
YzWeight(n) == <<34 * (n - 1), 134 * (n - 1) + 100 * (n + 1)>>
YangZhang(bars) ==
  IF Len(bars) < 2 \/ Len(Gaps(bars)) < 2 THEN {Zero}
  ELSE {Variance(Gaps(bars)), Variance(CloseReturns(bars)), RsMean(bars),
        YzWeight(Len(bars))}
Estimate(kind, bars) ==
  CASE kind = "parkinson" -> {Parkinson(bars)}
    [] kind = "gk" -> {Gk(bars)}
    [] kind = "yz" -> YangZhang(bars)

(* Sigma floors by asset class and by peg, in units of 1e-5.               *)
ClassFloor(base, quote) ==
  CASE base = "FX" /\ quote = "FX" -> 25
    [] {base, quote} \cap {"CM", "PM"} # {} -> 140
    [] {base, quote} \cap {"CM", "PM"} = {} /\ "CR" \in {base, quote} -> 80
    [] OTHER -> 150
SigmaFloor(base, quote, peg) ==
  CASE peg = "same_numeraire" -> 20
    [] peg = "cross_fiat" -> 25
    [] peg = "unpegged" -> ClassFloor(base, quote)

(* Lookbacks in minutes to bars: never less than one bar.                  *)
AtLeast1(x) == IF x < 1 THEN 1 ELSE x
Bars(minutes, width) == AtLeast1(minutes \div AtLeast1(width))
LegBars(leg) == AtLeast1(AtLeast1(leg.window) \div AtLeast1(leg.width))
Span30m(leg) == AtLeast1(AtLeast1(leg.window) \div 30)
MaxBars(ws, width) == Max({0} \cup {Bars(ws[i], width) : i \in DOMAIN ws})
MaxDays(ws, width) == AtLeast1((MaxBars(ws, width) * AtLeast1(width) + 1439) \div 1440)
Weight(ws, i) == IF i \in DOMAIN ws /\ ws[i] > 0 THEN ws[i] ELSE 1

(* blend: legs that are absent, or of no quality, are left out and the     *)
(* weights of the others renormalised.                                     *)
Dropped == [value |-> 0, quality |-> 0]
Survives(legs, i) == legs[i].quality > 0
Blend(legs, ws) ==
  LET in == SelectSeq([i \in DOMAIN legs |-> i], LAMBDA i : Survives(legs, i))
      w(i) == Weight(ws, i) * (IF legs[i].quality > 0 THEN legs[i].quality ELSE 1)
  IN <<Sum([j \in DOMAIN in |-> w(in[j]) * legs[in[j]].value]),
       Sum([j \in DOMAIN in |-> w(in[j])])>>

(* The window of a leg at bin i of its source (from 0), whether it reaches *)
(* the arming floor, and the bins it reads, counted back from the newest.  *)
LegStart(i, lookback) == IF i > lookback THEN i - lookback ELSE 0
Armed(i, lookback, floor) ==
  LegStart(i, lookback) < i /\ i - LegStart(i, lookback) >= floor
ReadBack(n, lookback) == {n - 1 - i : i \in LegStart(n - 1, lookback) .. n - 1}

(* winsorized_mean_and_var_inplace: the bounds of the clip in the sorted   *)
(* window, from 0, for fractions in percent.                               *)
ClipBounds(n, lo, hi) ==
  LET h == (n * hi) \div 100 - 1 IN
  <<(n * lo) \div 100, IF h < 0 THEN 0 ELSE IF h > n - 1 THEN n - 1 ELSE h>>

(* The spike floor: a fast average over the newest bins that raises the    *)
(* blend, by a factor ratio at most.                                       *)
FastSigma(bins, blend, ratio) ==
  LET used == SelectSeq(bins, LAMBDA s : s > 0)
      ewma == FoldLeft(LAMBDA p, s : IF p = 0 THEN s ELSE (p + s) \div 2, 0, used)
  IN  IF ratio > 1 /\ blend > 0 /\ ewma > blend * ratio THEN blend * ratio ELSE ewma
ComputeSigma(bins, blend, spike, ratio) ==
  IF spike /\ FastSigma(bins, blend, ratio) > blend
    THEN FastSigma(bins, blend, ratio) ELSE blend
-----------------------------------------------------------------------------
Estimators == {"parkinson", "gk", "yz"}
Classes == {"FX", "CM", "PM", "CR", "EQ"}

(* Every estimator is defined and not negative, whatever bars are missing. *)
EstimatesDefined(bars) ==
  \A k \in Estimators : \A q \in Estimate(k, bars) : Defined(q) /\ q[1] >= 0

(* A blend lies between the legs that survive, and there is none exactly   *)
(* when no leg does.                                                       *)
BlendBetween(legs, ws) ==
  LET q == Blend(legs, ws)
      live == {i \in DOMAIN legs : legs[i].quality > 0} IN
  /\ Defined(q) <=> live # {}
  /\ live # {} => /\ \E i \in live : AtMost(<<legs[i].value, 1>>, q)
                  /\ \E i \in live : AtMost(q, <<legs[i].value, 1>>)

(* "Strictly one-sided": the spike floor raises and never beyond its cap.  *)
SpikeOneSided(bins, blend, ratio) ==
  LET s == ComputeSigma(bins, blend, TRUE, ratio) IN
  s >= blend /\ (ratio > 1 /\ blend > 0 => s <= blend * ratio)

(* A lookback becomes at least one bar and no more days than it needs to   *)
(* reach back over it; a leg that is armed reads more than its floor.      *)
LookbacksReach(ws, width) ==
  /\ \A w \in Range(ws) : Bars(w, width) >= 1
       /\ (MaxBars(ws, width) * width <= 1440 * MaxDays(ws, width))
       /\ LegBars([window |-> w, width |-> width]) = Bars(w, width)
       /\ Span30m([window |-> w, width |-> width]) >= 1
  /\ \A i \in 0 .. 5, back \in 0 .. 4, floor \in 0 .. 4 :
       Armed(i, back, floor) => Cardinality(ReadBack(i + 1, back)) > floor

(* A cross and its inverse have one floor, and no peg is above it.         *)
FloorSymmetric ==
  \A b, q \in Classes : ClassFloor(b, q) = ClassFloor(q, b)
                        /\ SigmaFloor(b, q, "same_numeraire") <= ClassFloor(b, q)
=============================================================================

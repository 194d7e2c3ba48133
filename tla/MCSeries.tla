------------------------------ MODULE MCSeries ------------------------------
(***************************************************************************)
(* TLC instances of the price series: the legs of a ticker to its mark and *)
(* their shares of it, ticks to records, records to candles, candles to    *)
(* volatility, crosses, and the arithmetic of the estimators.  They share  *)
(* no state: each is explored by itself.                                   *)
(***************************************************************************)
EXTENDS Resample, VolRing, Sigma, SynthStream, SynthBar, CrossGraph, Composite, MarkShares

VARIABLES part, input

(* A leg with a carry policy, a heavy venue and an injectable leg.         *)
CONSTANTS carried, heavy, derived
Weights == [p \in Providers |-> IF p = heavy THEN 3 ELSE 1]
Levels  == [p \in Providers |-> IF p = carried THEN {0} ELSE IF p = heavy THEN {0, 1} ELSE {1}]
Lateness == [p \in Providers |-> IF p = carried THEN 1 ELSE 0]

Up   == <<1, 2, 1, 2>>
Down == <<2, 3, 1, 1>>
Bad  == <<0, 2, 1, 2>>
CandleShapes == {Up, Down, Bad}

(* Windows of bars with missing prices, and legs of a blend.               *)
OneBar == {[o |-> 2, h |-> 4, l |-> 1, c |-> 3], [o |-> 3, h |-> 3, l |-> 3, c |-> 3],
           [o |-> 0, h |-> 4, l |-> 2, c |-> 3], [o |-> 2, h |-> 4, l |-> 2, c |-> 0],
           [o |-> 4, h |-> 4, l |-> 0, c |-> 2]}
Legs == {[value |-> 1, quality |-> 3], [value |-> 5, quality |-> 1], Dropped}
Inputs == [bars : BoundedSeq(OneBar, 4), legs : {<<Dropped>>}]
     \cup [bars : {<<>>}, legs : BoundedSeq(Legs, 3)]

(* Up to three legs, in no order, with and without the cap of a pair.      *)
Third == <<1, 3>>
Quarter == <<1, 4>>
Fifth == <<1, 5>>
Half == <<1, 2>>
MostHeld == <<9, 10>>
LegOf(fate, base, mapped, injected, spread, mid, drift, taper, fr, ramp) ==
  [fate |-> fate, base |-> base, mapped |-> mapped, injected |-> injected, spread |-> spread,
   mid |-> mid, drift |-> drift, taper |-> taper, fr |-> fr, ramp |-> ramp]
LegKinds == <<
  LegOf("live", 1, TRUE, FALSE, 1, 4, 0, Whole, Whole, Whole),
  LegOf("live", 6, TRUE, FALSE, 0, 5, 0, Whole, Whole, Whole),
  LegOf("live", 2, TRUE, FALSE, 1, 6, 1, Half, Half, Whole),
  LegOf("live", 1, TRUE, FALSE, 1, 6, 0, Nought, Nought, Whole),
  LegOf("live", 3, FALSE, FALSE, 0, 3, 0, Whole, Whole, Whole),
  LegOf("live", 2, FALSE, FALSE, 1, 9, 1, Half, Half, Whole),
  LegOf("live", 4, FALSE, TRUE, 1, 5, 1, Whole, Whole, Half),
  LegOf("live", 1, TRUE, TRUE, 0, 5, 0, Whole, Half, Whole),
  LegOf("invalid", 1, TRUE, FALSE, 1, 5, 0, Whole, Whole, Whole)>>
Blends == {[i \in DOMAIN s |-> LegKinds[s[i]]] :
             s \in {s \in BoundedSeq(DOMAIN LegKinds, 3) : \A i \in 2 .. Len(s) : s[i - 1] <= s[i]}}

-----------------------------------------------------------------------------
(* Inputs of the crosses, and what holds of each.                         *)
Unpriced == -50

(* Two signed legs over quotes with a crossed book, a poisoned price, none.*)
TickQuotes == {[mid |-> 2, bid |-> 1, ask |-> 3, conf |-> 8], [mid |-> -2, bid |-> -2, ask |-> -2, conf |-> 5],
               [mid |-> 1, bid |-> 4, ask |-> 0, conf |-> 9], [mid |-> 1, bid |-> 1, ask |-> MaxPrice + 1, conf |-> 9],
               [mid |-> NoPrice, bid |-> 0, ask |-> 1, conf |-> 9]}
SignedQuotes == {[exp |-> e] @@ q : e \in {1, -1}, q \in TickQuotes}
Samples == {<<1, 1>>, <<-1, 2>>, <<0, -2>>}
SynthPaths == {<<[sym |-> "x", exp |-> 1]>>, <<[sym |-> "x", exp |-> -1], [sym |-> "y", exp |-> 1]>>,
               <<[sym |-> "x", exp |-> 1], [sym |-> "y", exp |-> -1], [sym |-> "x", exp |-> -1]>>}
Candles == {[o |-> 2, h |-> 5, l |-> 1, c |-> 4], [o |-> 3, h |-> 3, l |-> 3, c |-> 3],
            [o |-> 3, h |-> 4, l |-> -1, c |-> 0], [o |-> 1, h |-> 4, l |-> NoPrice, c |-> 2],
            [o |-> 1, h |-> 0, l |-> 1, c |-> 1]}
SomeCandles == {[o |-> 2, h |-> 5, l |-> 1, c |-> 4], [o |-> 3, h |-> 4, l |-> -1, c |-> 0]}
Rows == UNION {{[j \in DOMAIN ts |-> [ts |-> ts[j]] @@ k[j]] : k \in [DOMAIN ts -> SomeCandles]} :
               ts \in {<<>>, <<0>>, <<0, 1, 3>>, <<1, 2, 4>>, <<2, 3>>}}
LegBar(at, o, c, ci) ==
  [open |-> at - 4, at |-> at, o |-> o, h |-> Greatest({o, c}) + 1, l |-> Least({o, c}), c |-> c,
   rv |-> 4, ci |-> ci, spread |-> 1, depth |-> 2, ticks |-> ci, peak |-> 1, reject |-> 0,
   micro |-> ci, kind |-> "native"]
BarRows(stamps) == [1 .. Len(stamps) -> {1, 3}]
Series(stamps, c, ci) == [j \in DOMAIN stamps |-> LegBar(stamps[j], 1, c[j], ci)]
LegSeries(in) == [x |-> Series(<<4, 8, 12, 20>>, in.x, 1), y |-> Series(<<8, 12, 12, 20>>, in.y, 2)]
CrossBars == {LegBar(4, 1, 3, 2), LegBar(4, 3, 1, 0), [LegBar(4, 1, 1, 3) EXCEPT !.h = MaxPrice],
              [LegBar(4, 2, 1, 3) EXCEPT !.h = MaxPrice + 1], [LegBar(4, 2, 1, 3) EXCEPT !.l = NoPrice]}

(* Five assets, 5 a wrap of 1; up to five primaries between them.          *)
Wraps == [a \in 1 .. 5 |-> IF a = 5 THEN 1 ELSE a]
Called == [a \in 1 .. 5 |-> IF a = 4 THEN {"t2", "t4"} ELSE {<<"t1", "t2", "t3", "t4", "t5">>[a]}]
Primary(id, b, q, s) == [id |-> id, sym |-> id, base |-> b, quote |-> q, spelled |-> s]
Pool == {Primary(1, 1, 2, TRUE), Primary(2, 2, 3, TRUE), Primary(3, 3, 4, FALSE), Primary(4, 4, 1, TRUE),
         Primary(5, 1, 3, FALSE), Primary(6, 2, 4, FALSE), Primary(7, 2, 2, TRUE)}
Graphs4 == UNION {kSubset(k, Pool) : k \in 2 .. 5}
Depths == {[i \in 1 .. 7 |-> 0], [i \in 1 .. 7 |-> i % 3], [i \in 1 .. 7 |-> (7 - i) % 4]}
Wrapped == {Primary(8, 5, 2, TRUE)}
LegViews == {FromIndex([mid |-> 1, bid |-> 1, ask |-> 2, conf |-> 9, ci |-> 3, active |-> TRUE, live |-> 2,
                         fresh |-> TRUE, accepted |-> 3], 5),
              FromIndex([mid |-> 2, bid |-> 2, ask |-> 2, conf |-> 7, ci |-> 4, active |-> TRUE, live |-> 1,
                         fresh |-> FALSE, accepted |-> 1], 2),
              FromIndex([mid |-> 2, bid |-> 2, ask |-> 2, conf |-> 7, ci |-> 0, active |-> FALSE, live |-> 0,
                         fresh |-> FALSE, accepted |-> 2], -1)}
ThreeLegs == [i \in 1 .. 3 |-> [sym |-> i, exp |-> IF i = 2 THEN -1 ELSE 1, id |-> i]]

(* Leg records of the stream: sound, without confidence, poisoned.         *)
LegRecords == {[bid |-> 1, ask |-> 2, conf |-> 3, accepted |-> 2, depth |-> 4, ci |-> 3],
               [bid |-> 2, ask |-> 2, conf |-> 0, accepted |-> 1, depth |-> 1, ci |-> 4],
               [bid |-> 2, ask |-> MaxPrice + 1, conf |-> 1, accepted |-> 1, depth |-> 1, ci |-> 4]}

SynthInputs(about) ==
  CASE about = "tick"    -> BoundedSeq(SignedQuotes, 2)
    [] about = "roll"    -> BoundedSeq(Samples, 5)
    [] about = "ohlc"    -> [path : SynthPaths, x : Candles, y : Candles, rho : {-99, -40, 0, 99}]
    [] about = "rows"    -> [x : Rows, y : Rows]
    [] about = "cross"   -> [path : SynthPaths, bars : BoundedSeq(CrossBars, 2)]
    [] about = "bars"    -> [x : BarRows(<<4, 8, 12, 20>>), y : BarRows(<<8, 12, 12, 20>>)]
    [] about = "graph"   -> [primaries : Graphs4, vol : Depths]
    [] about = "quote"   -> [1 .. 3 -> LegViews]
    [] about = "catalog" -> [assets : SUBSET (1 .. 5), bases : SUBSET (1 .. 3), hub : {2, 6}]

(* What holds of an input of each kind.                                    *)
SynthHolds(about, in) ==
  CASE about = "tick"    -> TickSound(in)
    [] about = "roll"    -> \A n \in 2 .. 4 : RollSound(in, n)
    [] about = "ohlc"    -> OhlcSound(in.path, [x |-> in.x, y |-> in.y], in.rho)
    [] about = "rows"    -> \A p \in SynthPaths : RollupSound(p, in, 1, 3) /\ RollupSound(p, in, 2, 1)
    [] about = "cross"   -> CrossBarSound(in.path, in.bars)
    [] about = "bars"    -> \A p \in SynthPaths : /\ BarSeriesSound(p, LegSeries(in), 2)
                                                  /\ \A t \in {1, 9, 16} : RollupConserves(p, LegSeries(in), 2, t)
    [] about = "graph"   ->
         /\ \A b, q \in 1 .. 5, barred \in {NoAsset, 1, 5} : RouteSound(in.primaries, b, q, in.vol, barred)
         /\ ServableSound(in.primaries, in.vol)
         /\ RouteSound(in.primaries \cup Wrapped, 5, 3, in.vol @@ (8 :> 1), 8)
         /\ LET t == Token(in.primaries, <<"t1", "t2", "t3", "t2", "t5">>)
            IN  \A k \in DOMAIN t : t[k] \in Nodes(FromPrimaries(in.primaries))
    [] about = "quote"   -> ProvenanceSound(ThreeLegs, in)
    [] about = "catalog" -> CatalogueSound(in.assets, in.bases, in.hub)

-----------------------------------------------------------------------------
Crossing == {"tick", "roll", "ohlc", "rows", "cross", "bars", "graph", "quote", "catalog"}
SeriesInit == /\ LegInit /\ AccInit /\ OhlcInit /\ VolInit /\ SynInit
              /\ part \in {"ticks", "candles", "vol", "estimate", "stream", "synth", "mark", "shares"}
              /\ input = <<>>
SeriesNext ==
  \/ part = "mark"     /\ LegNext  /\ UNCHANGED <<part, input, accVars, ohlcVars, volVars, synVars>>
  \/ part = "ticks"    /\ AccNext  /\ UNCHANGED <<part, input, legVars, ohlcVars, volVars, synVars>>
  \/ part = "candles"  /\ OhlcNext /\ UNCHANGED <<part, input, legVars, accVars, volVars, synVars>>
  \/ part = "vol"      /\ VolNext  /\ UNCHANGED <<part, input, legVars, accVars, ohlcVars, synVars>>
  \/ part = "estimate" /\ input = <<>> /\ input' \in Inputs
                       /\ UNCHANGED <<part, legVars, accVars, ohlcVars, volVars, synVars>>
  \/ part = "shares"   /\ input = <<>> /\ \E b \in Blends, cap \in {Whole, <<3, 5>>} :
                              input' = [blend |-> b, cap |-> cap, shares |-> Shares(b, cap)]
                       /\ UNCHANGED <<part, legVars, accVars, ohlcVars, volVars, synVars>>
  \/ part = "stream"   /\ SynNext  /\ UNCHANGED <<part, input, legVars, accVars, ohlcVars, volVars>>
  \/ part = "synth"    /\ input = <<>>
                       /\ \E about \in Crossing : \E in \in SynthInputs(about) : input' = [about |-> about, in |-> in]
                       /\ UNCHANGED <<part, legVars, accVars, ohlcVars, volVars, synVars>>
SeriesSpec == SeriesInit /\ [][SeriesNext]_<<part, input, legVars, accVars, ohlcVars, volVars, synVars>>

(* A cache whose interval is over is not read before it is overwritten.    *)
Unexpired ==
  <<part, input, accVars, ohlcVars, volVars, synVars,
    legs, IF cache.valid /\ cache.age = Refresh THEN NoCache ELSE cache, out, ended>>

(* Type correctness of the parts.                                          *)
SeriesTypeOK ==
  CASE part = "mark"    -> LegTypeOK
    [] part = "ticks"   -> AccTypeOK
    [] part = "candles" -> OhlcTypeOK
    [] part = "vol"     -> VolTypeOK
    [] part = "stream"  -> SynTypeOK
    [] OTHER            -> TRUE

(* From tick to record and candle nothing is counted twice, lost or taken  *)
(* into the wrong window.                                                  *)
TicksKept ==
  /\ part = "ticks"   => RecordTellsWindow
  /\ part = "candles" => ResampleAgrees

(* No estimator divides by zero or turns negative, whatever bars or legs   *)
(* are missing; a blend stays among its legs; a spike only raises sigma.   *)
KernelsSound ==
  /\ part = "estimate" => FloorSymmetric
  /\ part = "estimate" /\ input # <<>> =>
       /\ EstimatesDefined(input.bars)
       /\ BlendBetween(input.legs, <<3, 1>>)
       /\ LET s == [i \in DOMAIN input.legs |-> input.legs[i].value]
          IN  \A b \in 1 .. 2, r \in 1 .. 2 : SpikeOneSided(s, b, r)
       /\ \A ws \in {<<0, 7>>, <<90, 1500>>}, width \in {1, 30} : LookbacksReach(ws, width)
       /\ \A n \in 5 .. 9 : LET c == ClipBounds(n, 5, 95) IN c[1] <= c[2] /\ c[2] < n

(* A mark is what its legs are now: their prices, their life, no mark at   *)
(* all once none of them lives, and no leg more of it than its limits.     *)
MarkIsHonest ==
  /\ part = "mark" =>
       PriceNeverWaits /\ LivenessNotOverstated /\ HeldByLiveLegs /\ NoResurrection
  /\ part = "shares" /\ input # <<>> =>
       /\ SharesBounded(input.blend, input.cap, input.shares)
       /\ EvictionIsNoStep(input.blend, input.cap, input.shares)
       /\ BookAmongLegs(input.blend, input.shares)

(* A cross is never better than its legs: its book, its candles and its    *)
(* bars follow from theirs, the route to it is the best there is, and the  *)
(* records of its stream are read back exactly.                            *)
CrossSound ==
  /\ part = "synth" /\ input # <<>> => SynthHolds(input.about, input.in)
  /\ part = "stream" => StreamSound
=============================================================================

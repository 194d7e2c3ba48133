----------------------------- MODULE MarkShares -----------------------------
(***************************************************************************)
(* tdwap.rs compute_vwap_profiled_into: how much of the mark each leg of a *)
(* ticker holds, and the book of the mark.  Composite has the life of the  *)
(* legs; here a leg is what one computation reads of it:                   *)
(*   fate      live, evicted, or invalid (not a tick)                      *)
(*   base, mapped, injected                                                *)
(*   spread    its half-spread, 0 without a book; mid                      *)
(*   drift     the variance its age adds, in squared spreads               *)
(*   taper, fr, ramp    fractions: of weight, of freshness, of joining     *)
(* Numbers are exact fractions <<numerator, denominator>>; the exponential *)
(* of the concentration ceiling is the hyperbola WMax.                     *)
(***************************************************************************)
EXTENDS Integers, SequencesExt, FiniteSetsExt

CONSTANTS
  SpreadFloor,    \* Kernel.s_min
  BaseClip,       \* anom_k
  WAbs, WFloor,   \* Concentration
  UnmappedFrac,   \* unmapped_bloc_frac
  FreshFloor      \* FRESH_WEIGHT_SHARE_FLOOR

RECURSIVE Divisor(_, _)
Divisor(a, b) == IF b = 0 THEN a ELSE Divisor(b, a % b)
Reduced(n, d, g) == <<n \div g, d \div g>>
Fraction(n, d) == Reduced(n, d, Divisor(IF n < 0 THEN -n ELSE n, d))
Nought == <<0, 1>>
Whole == <<1, 1>>
Add(a, b)    == LET by(g) == Fraction(a[1] * (b[2] \div g) + b[1] * (a[2] \div g), (a[2] \div g) * b[2])
                IN  by(Divisor(a[2], b[2]))
Mul(a, b)    == LET pairwise(x, y) == <<x[1] * y[1], x[2] * y[2]>>
                IN  pairwise(Fraction(a[1], b[2]), Fraction(b[1], a[2]))
Take(a, b)   == Add(a, <<-b[1], b[2]>>)
Over(a, b)   == Mul(a, <<b[2], b[1]>>)
Leq(a, b)    == Take(b, a)[1] >= 0
Least2(a, b) == IF Leq(a, b) THEN a ELSE b
Most2(a, b)  == IF Leq(a, b) THEN b ELSE a
AddAll(x) == MapThenFoldSet(Add, Nought, LAMBDA i : x[i], LAMBDA T : CHOOSE t \in T : TRUE, DOMAIN x)
MostOf(x) == MapThenFoldSet(Most2, Nought, LAMBDA i : x[i], LAMBDA T : CHOOSE t \in T : TRUE, DOMAIN x)

-----------------------------------------------------------------------------
(* Concentration::w_max by the effective number of legs.                   *)
WMax(n) == Least2(WAbs, Add(WFloor, Over(<<3, 4>>, Most2(n, Whole))))
NEff(sum, squares) == IF squares = Nought THEN Nought ELSE Over(Mul(sum, sum), squares)
Validate == /\ ~Leq(WAbs, WFloor) /\ Leq(WAbs, Whole)
            /\ \A n \in 2 .. 64 : Leq(<<1, n>>, WMax(<<n, 1>>))
ASSUME ShareAssumption == Validate /\ {SpreadFloor, BaseClip} \subseteq Nat \ {0}

(* Presence, and weight once a present leg takes the prior of the absent.  *)
Live(legs) == {i \in DOMAIN legs : legs[i].fate = "live"}
Present(leg) == Mul(leg.fr, leg.ramp)
LegVariance(leg) ==
  LET s == IF leg.spread > SpreadFloor THEN leg.spread ELSE SpreadFloor IN s * s + leg.drift
Standing(legs, i) ==
  Take(Add(legs[i].fr, Whole), MostOf([j \in {j \in Live(legs) : ~legs[j].injected} |-> Present(legs[j])]))
LegWeight(legs, i) ==
  Mul(Mul(Mul(<<legs[i].base, LegVariance(legs[i])>>, legs[i].ramp), legs[i].taper), Standing(legs, i))

(* What the caps are computed from: legs are i \in Live(legs).             *)
Evidence(legs, mapped) == {i \in Live(legs) : ~legs[i].injected /\ (mapped => legs[i].mapped)}
Clipped(leg) == Mul(<<IF leg.base < BaseClip THEN leg.base ELSE BaseClip, 1>>, Present(leg))
Evident(legs, mapped) ==
  LET legs_of(x) == NEff(AddAll(x), AddAll([i \in DOMAIN x |-> Mul(x[i], x[i])]))
  IN  legs_of([i \in Evidence(legs, mapped) |-> Clipped(legs[i])])

(* The unmapped bloc, bounded as far as the mapped mass is present.        *)
UnmappedShare(raw, phi) ==
  Add(Mul(phi, Least2(raw, Over(UnmappedFrac, Add(Whole, UnmappedFrac)))), Mul(Take(Whole, phi), raw))
RawShare(legs, w) ==
  LET M == {i \in Live(legs) : legs[i].mapped}
      spread(total, mass, raw, u) ==
        [i \in Live(legs) |-> Mul(Over(w[i], total),
                                 IF mass = Nought \/ raw = Nought THEN Whole
                                 ELSE IF i \in M THEN Over(Take(Whole, u), Take(Whole, raw))
                                 ELSE Over(u, raw))]
      bounded(total, mass, raw) ==
        spread(total, mass, raw,
               IF mass = Nought THEN raw
               ELSE UnmappedShare(raw, Over(AddAll([i \in M |-> Mul(w[i], Present(legs[i]))]), mass)))
      of(total, mass) == bounded(total, mass, Over(Take(total, mass), total))
  IN  of(AddAll(w), AddAll([i \in M |-> w[i]]))
(* Only evidence takes what a cap frees, by its share and presence.        *)
Excess(legs, r, i, mapped) ==
  IF mapped /\ ~legs[i].mapped THEN Nought ELSE Mul(r[i], Present(legs[i]))

(* A leg of a pegged pair is capped by the presence of its fresher peer.   *)
PegOf(cap, g) == Take(Whole, Mul(Take(Whole, cap), Least2(g, Whole)))
PeerPresence(legs, i, mapped) ==
  LET peer(g, first) ==
        IF \/ i \in DOMAIN g /\ ~Leq(first, g[i])
           \/ \E j, k \in DOMAIN g : j # k /\ g[j] = first /\ g[k] = first
        THEN first
        ELSE MostOf([j \in {j \in DOMAIN g : g[j] # first} |-> g[j]])
      among(g) == peer(g, MostOf(g))
  IN  among([j \in Evidence(legs, mapped) |-> Present(legs[j])])
CapOf(legs, i, mapped, cap, pegged) ==
  Least2(WMax(Evident(legs, mapped)),
         IF pegged THEN PegOf(cap, PeerPresence(legs, i, mapped)) ELSE Whole)

(* The level to which shares rise under their caps: <<>> when the excess   *)
(* has no home.                                                            *)
RECURSIVE WaterFill(_, _, _, _)
WaterFill(r, e, cap, lam) ==
  LET level(i, at) == Add(r[i], Mul(at, e[i]))
      upto(free, next) == IF \A i \in free : Leq(level(i, next), cap[i]) THEN <<next>>
                          ELSE WaterFill(r, e, cap, next)
      rise(free, short, home) == IF Leq(short, Nought) THEN <<lam>>
                                 ELSE IF home = Nought THEN <<>>
                                 ELSE upto(free, Over(short, home))
      above(free) == rise(free,
                          Take(Take(Whole, AddAll([i \in DOMAIN r \ free |-> cap[i]])), AddAll([i \in free |-> r[i]])),
                          AddAll([i \in free |-> e[i]]))
  IN  above({i \in DOMAIN r : ~Leq(cap[i], level(i, lam))})

(* Filled by the evidence under the pair's caps, else by the evidence under*)
(* the ceilings alone (only where there was a cap), else by every leg.     *)
Filled(r, e, caps, ceilings, cap) ==
  LET filled(x, under, lam) == [i \in DOMAIN r |-> Least2(Add(r[i], Mul(lam[1], x[i])), under[i])]
      every(under, lam) == IF lam = <<>> THEN r ELSE filled(r, under, lam)
      again(lam) == IF lam # <<>> THEN filled(e, ceilings, lam)
                    ELSE every(ceilings, WaterFill(r, r, ceilings, Nought))
      first(lam) == IF lam # <<>> THEN filled(e, caps, lam)
                    ELSE IF cap = Whole THEN every(caps, WaterFill(r, r, caps, Nought))
                    ELSE again(WaterFill(r, e, ceilings, Nought))
  IN  first(WaterFill(r, e, caps, Nought))
Shares(legs, cap) ==
  LET caps(mapped, pegged) == [i \in Live(legs) |-> CapOf(legs, i, mapped, cap, pegged)]
      raised(r, mapped) == Filled(r, [i \in Live(legs) |-> Excess(legs, r, i, mapped)],
                                  caps(mapped, TRUE), caps(mapped, FALSE), cap)
      shared(w) == IF AddAll(w) = Nought THEN <<>>
                   ELSE raised(RawShare(legs, w), \E i \in DOMAIN w : legs[i].mapped /\ w[i] # Nought)
  IN  shared([i \in Live(legs) |-> LegWeight(legs, i)])

-----------------------------------------------------------------------------
(* weighted_median: the mean over the central fifth of the mass; and       *)
(* interpolated_median, between the mass centres of adjacent legs.         *)
MassBefore(mids, i) == AddAll([j \in 1 .. i - 1 |-> mids[j].share])
MassOf(mids) == AddAll([j \in DOMAIN mids |-> mids[j].share])
WeightedMedian(mids) ==
  LET inside(from, to, lo, hi) == Most2(Nought, Take(Least2(to, hi), Most2(from, lo)))
      between(lo, hi) ==
        Over(AddAll([i \in DOMAIN mids |->
                       Mul(<<mids[i].mid, 1>>, inside(MassBefore(mids, i), MassBefore(mids, i + 1), lo, hi))]),
             Take(hi, lo))
  IN  between(Mul(<<2, 5>>, MassOf(mids)), Mul(<<3, 5>>, MassOf(mids)))
InterpolatedMedian(mids) ==
  LET climb(k, half, below, above) == Add(<<mids[k - 1].mid, 1>>,
        Mul(<<mids[k].mid - mids[k - 1].mid, 1>>, Over(Take(half, below), Take(above, below))))
      at(half, centre, past) == IF past = {} THEN <<mids[Len(mids)].mid, 1>>
                                ELSE IF Min(past) = 1 THEN <<mids[1].mid, 1>>
                                ELSE climb(Min(past), half, centre[Min(past) - 1], centre[Min(past)])
      of(half, centre) == at(half, centre, {i \in DOMAIN mids : Leq(half, centre[i])})
  IN  of(Mul(<<1, 2>>, MassOf(mids)),
         [i \in DOMAIN mids |-> Add(MassBefore(mids, i), Mul(<<1, 2>>, mids[i].share))])

ByPrice(legs, sh) ==
  LET order == SetToSortSeq({<<legs[i].mid, i>> : i \in {i \in DOMAIN sh : sh[i] # Nought}},
                            LAMBDA a, b : a[1] < b[1] \/ (a[1] = b[1] /\ a[2] < b[2]))
  IN  [k \in DOMAIN order |-> [mid |-> order[k][1], share |-> sh[order[k][2]]]]

(* The mark: its book and what it says of its legs.  Without any book it   *)
(* is rebuilt from their disagreement, if they disagree.                   *)
Book(legs, sh, median) ==
  LET blend == {i \in DOMAIN sh : sh[i] # Nought}
      mean(x) == Over(AddAll([i \in blend |-> Mul(sh[i], <<x[i], 1>>)]), AddAll([i \in blend |-> sh[i]]))
      half == mean([i \in blend |-> legs[i].spread])
      active == {i \in DOMAIN sh : /\ Present(legs[i]) # Nought /\ ~legs[i].injected
                                   /\ Leq(<<1, 2>>, Standing(legs, i))}
  IN  IF sh = <<>> THEN <<>>
      ELSE [mid |-> IF median THEN WeightedMedian(ByPrice(legs, sh)) ELSE mean([i \in blend |-> legs[i].mid]),
            half |-> half,
            rebuilt |-> half = Nought /\ \E i, j \in blend : legs[i].mid # legs[j].mid,
            active |-> active,
            fresh |-> Leq(Mul(FreshFloor, AddAll(sh)), AddAll([i \in active |-> sh[i]])),
            accepted |-> Cardinality(blend),
            rejected |-> Cardinality({i \in DOMAIN legs : legs[i].fate = "invalid"})]

-----------------------------------------------------------------------------
(* The shares make up the mark; no leg holds more than the ceiling of      *)
(* concentration unless it is alone (tdwap.rs:1015), nor, of a pegged pair,*)
(* more than its cap beside a peer that is wholly present (tdwap.rs:984); *)
(* legs without a mapping stay within their bloc while the mapped mass is  *)
(* present (tdwap.rs:316); a silent leg holds nothing beside a leg that is *)
(* wholly present (tdwap.rs:890); and the only present leg loses nothing to*)
(* the cap of the pair (tdwap.rs:984).                                     *)
SharesBounded(legs, cap, sh) ==
  LET blend == {i \in DOMAIN sh : sh[i] # Nought}
      mapped == {i \in blend : legs[i].mapped}
      E == Evidence(legs, mapped # {})
      sure == {i \in E : Present(legs[i]) = Whole}
  IN  sh # <<>> =>
        /\ AddAll(sh) = Whole
        /\ Cardinality(blend) > 1 => \A i \in blend : Leq(sh[i], WMax(Evident(legs, mapped # {})))
        /\ Cardinality(sure) > 1 => \A i \in sure : Leq(sh[i], cap)
        /\ (mapped # {} /\ \A i \in mapped : Present(legs[i]) = Whole) =>
             Leq(AddAll([i \in blend \ mapped |-> sh[i]]),
                 Mul(UnmappedFrac, AddAll([i \in mapped |-> sh[i]])))
        /\ sure # {} => \A i \in blend : legs[i].fr # Nought
        /\ \A i \in E : (\A j \in E \ {i} : Present(legs[j]) = Nought) =>
                          Leq(Shares(legs, Whole)[i], sh[i])

(* A leg fades out before it is evicted: evicting one whose presence and   *)
(* weight have reached nought moves no other leg's share.                  *)
EvictionIsNoStep(legs, cap, sh) ==
  LET same(after, i) ==
        /\ (after = <<>>) = (sh = <<>>)
        /\ sh # <<>> => sh[i] = Nought /\ \A j \in DOMAIN after : sh[j] = after[j]
  IN  \A i \in Live(legs) :
        (legs[i].taper = Nought /\ Present(legs[i]) = Nought) =>
          same(Shares([legs EXCEPT ![i].fate = "evicted"], cap), i)

(* A mark lies among the prices of its legs; a book is made up only where  *)
(* no leg has one; and the level is not moved by a leg at an end that holds*)
(* less than two fifths of it (tdwap.rs:1245).                             *)
BookAmongLegs(legs, sh) ==
  LET blend == {i \in DOMAIN sh : sh[i] # Nought}
      lower == {i \in blend : \A j \in blend : legs[i].mid <= legs[j].mid}
      among(mean, mid) ==
        /\ \A m \in {mean.mid, mid.mid, InterpolatedMedian(ByPrice(legs, sh))} :
             /\ \E i \in blend : Leq(<<legs[i].mid, 1>>, m)
             /\ \E i \in blend : Leq(m, <<legs[i].mid, 1>>)
        /\ mean.rebuilt => mean.accepted >= 2 /\ \A i \in blend : legs[i].spread = 0
        /\ mean.fresh => mean.active # {}
        /\ Leq(AddAll([i \in lower |-> sh[i]]), <<2, 5>>) =>
             LET far == [i \in DOMAIN legs |-> IF i \in lower THEN [legs[i] EXCEPT !.mid = 0] ELSE legs[i]]
             IN  Book(far, sh, TRUE).mid = mid.mid
  IN  sh # <<>> => among(Book(legs, sh, FALSE), Book(legs, sh, TRUE))
=============================================================================

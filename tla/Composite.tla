------------------------------ MODULE Composite -----------------------------
(***************************************************************************)
(* tdwap.rs: the legs of one ticker and its throttled cross-provider mark. *)
(*                                                                         *)
(* A leg is a ProviderEntry: the price of its last frame, the age tau of   *)
(* that frame, the age quiet of its last proof of life (a frame or a       *)
(* frameless carry), and whether the price was injected.  Time is relative:*)
(* the code only subtracts instants from now, so an instant is kept as its *)
(* age and Tick makes everything older.  Ages past the backstop are one    *)
(* age; a leg that old is in no blend.                                     *)
(*                                                                         *)
(* Of a mark the model keeps which legs have weight, at which price, which *)
(* of them count as active, and as history which were carried.  The sizes  *)
(* of the positive weights (join ramp, unmapped bloc, concentration cap,   *)
(* spread and cadence) are MarkShares': here every spread is the reference *)
(* spread, every ramp is over, and no age is below the cadence.            *)
(* Presence factors are fixed-point numbers in units of 1 / One.           *)
(*                                                                         *)
(* WeightCache is one ticker's and is asked for no other ticker.           *)
(*                                                                         *)
(* SetOnly is a wrong version of the definition that follows it; no action *)
(* uses it, and the property is checked to fail with it.                   *)
(***************************************************************************)
EXTENDS Integers, FiniteSetsExt

CONSTANTS
  Providers,
  BaseWeight,   \* base_weight
  Carriers,     \* the legs that the caller gave a CarryCfg
  Injectable,   \* the legs a triangulator rule may set
  LegQuotes,    \* the prices each leg may quote
  Stale,        \* stale_threshold_secs
  Diffusion,    \* eviction age by diffusion, max((4 s_ref)^2 / sigma^2, stale / 2)
  Horizon,      \* Kernel.horizon_secs
  CarrySecs, Lone, MinPeers, Tol, CarryZero,    \* CarryCfg
  Refresh,      \* refresh_interval_ms
  One,
  \* bounds of the model
  Leavers,      \* the providers the caller may drop
  MaxLate       \* how far behind the clock each leg's frames may be stamped

ASSUME LegsAssumption ==
  /\ BaseWeight \in [Providers -> Nat \ {0}] /\ LegQuotes \in [Providers -> SUBSET Nat]
  /\ Carriers \subseteq Providers /\ Injectable \subseteq Providers /\ Leavers \subseteq Providers
ASSUME KernelAssumption ==
  /\ {Stale, Diffusion, Horizon, CarrySecs, Lone, One} \subseteq Nat \ {0}
  /\ 2 * Diffusion >= Stale /\ 2 * CarrySecs >= Stale
  /\ {MinPeers, Tol, CarryZero, Refresh} \subseteq Nat /\ Tol < CarryZero
  /\ MaxLate \in [Providers -> 0 .. Horizon]

VARIABLES
  legs,
  cache,     \* WeightCache
  out,       \* what compute_vwap_throttled has just returned
  ended      \* history: a timed call has returned None, and no frame came since

legVars == <<legs, cache, out, ended>>

LegPrices == UNION {LegQuotes[p] : p \in Providers}
Ages      == 0 .. Horizon + 1
AbsentLeg == [present |-> FALSE]
Leg       == [present : {TRUE}, price : LegPrices, tau : Ages, quiet : Ages, injected : BOOLEAN]
NoCache   == [valid |-> FALSE]
NoMark    == [price |-> [p \in {} |-> 0], active |-> {}, carried |-> {}]

SmallerOf(a, b) == IF a < b THEN a ELSE b
LargerOf(a, b)  == IF a > b THEN a ELSE b
Frac(n, d)    == LargerOf(0, SmallerOf(One, (n * One) \div d))

-----------------------------------------------------------------------------
(* The clocks of a leg.                                                    *)
CarriedLeg(p) == p \in Carriers /\ legs[p].quiet < legs[p].tau

AdmissibleLeg(p) == legs[p].present /\ legs[p].tau <= Horizon
Evict(p) == SmallerOf(Horizon, IF CarriedLeg(p) THEN CarrySecs ELSE Diffusion)
Alive(p) == AdmissibleLeg(p) /\ legs[p].tau <= Evict(p)
Admitted == {p \in Providers : AdmissibleLeg(p)}
Living   == {p \in Providers : Alive(p)}

(* The legs that judge a carried leg p: observed, with a newer real frame. *)
Newer(p)   == {q \in Admitted : ~legs[q].injected /\ legs[q].tau < legs[p].tau}
Holders(p) == {q \in Newer(p) : ~CarriedLeg(q) /\ legs[q].tau <= Stale}
Quorate(S) == Cardinality(S) >= LargerOf(1, MinPeers)
Long(p)    == Quorate(Holders(p))
Judges(p)  == IF Long(p) THEN Holders(p) ELSE Newer(p)

(* weighted_median: the mean over the central fifth of the mass, here the  *)
(* quotient of MedianSum by a fifth (in tenths of the weights).            *)
Mass(S) == MapThenSumSet(LAMBDA q : BaseWeight[q], S)
MedianSum(S) ==
  LET Below(x) == 10 * Mass({q \in S : legs[q].price < x})
      Upto(x)  == 10 * Mass({q \in S : legs[q].price <= x})
      Overlap(x) == LargerOf(0, SmallerOf(Upto(x), 6 * Mass(S)) - LargerOf(Below(x), 4 * Mass(S)))
  IN  MapThenSumSet(LAMBDA x : x * Overlap(x), {legs[q].price : q \in S})

(* CarryCfg::divergence from the judges' median, and CarryCfg::time.       *)
Divergence(p) ==
  LET J  == Judges(p)
      fifth == 2 * Mass(J)
      gap == legs[p].price * fifth - MedianSum(J)
  IN  IF Quorate(J)
      THEN Frac(CarryZero * fifth - LargerOf(gap, -gap), (CarryZero - Tol) * fifth)
      ELSE One
TimeFactor(p) ==
  IF Long(p) THEN Frac(20 * (CarrySecs - legs[p].tau), 3 * CarrySecs)
             ELSE Frac(2 * (Lone - legs[p].tau), Lone)

Taper(p) == IF CarriedLeg(p) THEN (TimeFactor(p) * Divergence(p)) \div One ELSE One
LastLife(p) == IF CarriedLeg(p) THEN legs[p].quiet ELSE legs[p].tau

(* Presence: freshness of the last proof of life, times the taper.         *)
Presence(p) ==
  LET window == SmallerOf(Stale, Evict(p))
  IN  (Frac(2 * (window - LastLife(p)), window) * Taper(p)) \div One

(* The best presence of an observed leg is taken from every other leg that *)
(* is not being confirmed; f of the code is presence + rest.               *)
Counted(blend, presence, rest) ==
  {p \in blend : presence[p] > 0 /\ 2 * (presence[p] + rest) >= One /\ ~legs[p].injected}

Mark ==
  LET presence == [p \in Living |-> Presence(p)]
      rest  == One - Max({0} \cup {presence[p] : p \in {q \in Living : ~legs[q].injected}})
      blend == {p \in Living : /\ presence[p] + rest > 0
                               /\ IF CarriedLeg(p) THEN Taper(p) > 0 ELSE legs[p].tau < Evict(p)}
  IN  [price  |-> [p \in blend |-> legs[p].price],
       active |-> Counted(blend, presence, rest),
       carried |-> {p \in blend : CarriedLeg(p)}]

-----------------------------------------------------------------------------
(* ProviderFingerprint of the whole set, without its 2^-64 collisions.     *)
SetOnly == {<<p, 0, FALSE>> : p \in {q \in Providers : legs[q].present}}
Fingerprint == {<<p, legs[p].price, legs[p].injected>> : p \in {q \in Providers : legs[q].present}}

MustRefresh(force) ==
  \/ force \/ ~cache.valid
  \/ cache.valid /\ (cache.fingerprint # Fingerprint \/ cache.age >= Refresh)

(* compute_vwap_throttled_at.  Without a mark nothing is committed.        *)
Throttled(force, mark) ==
  IF MustRefresh(force)
  THEN /\ out' = mark
       /\ cache' = IF mark = NoMark THEN cache
                   ELSE [valid |-> TRUE, age |-> 0, fingerprint |-> Fingerprint, mark |-> mark]
  ELSE out' = cache.mark /\ UNCHANGED cache

Cycle ==
  LET mark == Mark
  IN  \E force \in BOOLEAN :
        /\ Throttled(force, mark)
        /\ ended' = (ended \/ (~force /\ out' = NoMark))
        /\ UNCHANGED legs

(* A reload of configuration or weights.                                   *)
Invalidate ==
  /\ cache' = NoCache /\ out' = NoMark
  /\ UNCHANGED <<legs, ended>>

Heard(p, leg) ==
  /\ legs' = [legs EXCEPT ![p] = leg]
  /\ out' = NoMark /\ ended' = FALSE
  /\ UNCHANGED cache

(* new_at, or update_at with a frame: stamped with the frame's own time.   *)
Frame(p, x, late) ==
  Heard(p, [present |-> TRUE, price |-> x, tau |-> late, quiet |-> late, injected |-> FALSE])

(* update_at with FLAG_CARRY.                                              *)
Carry(p, late) ==
  /\ legs[p].present
  /\ Heard(p, [legs[p] EXCEPT !.quiet = SmallerOf(@, late)])

Inject(p, x) ==
  /\ legs[p].present
  /\ Heard(p, [present |-> TRUE, price |-> x, tau |-> 0, quiet |-> 0, injected |-> TRUE])

(* The caller drops a provider.                                            *)
Leave(p) == legs[p].present /\ Heard(p, AbsentLeg)

Older(a) == SmallerOf(a + 1, Horizon + 1)
Tick ==
  /\ legs' = [p \in Providers |->
                IF legs[p].present
                THEN [legs[p] EXCEPT !.tau = Older(@), !.quiet = Older(@)]
                ELSE AbsentLeg]
  /\ cache' = IF cache.valid THEN [cache EXCEPT !.age = SmallerOf(@ + 1, Refresh)] ELSE cache
  /\ out' = NoMark
  /\ UNCHANGED ended

LegInit ==
  /\ legs = [p \in Providers |-> AbsentLeg] /\ cache = NoCache
  /\ out = NoMark /\ ended = FALSE

LegNext ==
  \/ \E p \in Providers : \E late \in 0 .. MaxLate[p], x \in LegQuotes[p] : Frame(p, x, late)
  \/ \E p \in Carriers : \E late \in 0 .. MaxLate[p] : Carry(p, late)
  \/ \E p \in Injectable : \E x \in LegQuotes[p] : Inject(p, x)
  \/ \E p \in Leavers : Leave(p)
  \/ Cycle
  \/ Invalidate \/ Tick

LegSpec == LegInit /\ [][LegNext]_legVars

-----------------------------------------------------------------------------
IsMark(m) ==
  /\ DOMAIN m.price \subseteq Providers
  /\ \A p \in DOMAIN m.price : m.price[p] \in LegPrices
  /\ m.active \subseteq DOMAIN m.price /\ m.carried \subseteq DOMAIN m.price

LegTypeOK ==
  /\ \A p \in Providers : legs[p] = AbsentLeg \/ legs[p] \in Leg
  /\ \/ cache = NoCache
     \/ /\ cache.valid /\ cache.age \in 0 .. Refresh /\ IsMark(cache.mark)
        /\ cache.fingerprint \subseteq Providers \X LegPrices \X BOOLEAN
  /\ IsMark(out) /\ ended \in BOOLEAN

ReturnedMark == out # NoMark

(* tdwap.rs:1294 to 1301: the throttle never holds back a changed quote.   *)
(* Every leg of a returned mark, replayed or not, is in it at its current  *)
(* price, and counts as active only if that price was really observed.     *)
PriceNeverWaits ==
  ReturnedMark => \A p \in DOMAIN out.price :
    /\ legs[p].present /\ out.price[p] = legs[p].price
    /\ p \in out.active => ~legs[p].injected

(* The signed-quote gate reads active_count: a returned mark counts a leg  *)
(* as active only if it proved its life less than the staleness threshold  *)
(* plus one refresh interval ago.                                          *)
LivenessNotOverstated ==
  ReturnedMark => \A p \in out.active : LastLife(p) < Stale + Refresh

(* tdwap.rs:50: past its short window a carried leg stays in the mark only *)
(* while enough other legs really tick, give or take a refresh interval.   *)
(* A first carry does not refresh the mark: until the interval is over a   *)
(* leg may still be in it as the silent, not yet carried leg it was.       *)
HeldByLiveLegs ==
  ReturnedMark => \A p \in out.carried :
    legs[p].tau >= Lone + Refresh - 1 =>
      Quorate({q \in Newer(p) : legs[q].tau < Stale + Refresh})

(* A ticker whose timed cycle found no live leg has no mark until one of   *)
(* its legs is heard of again: the cache does not revive the old one.      *)
NoResurrection == ended => ~ReturnedMark
=============================================================================

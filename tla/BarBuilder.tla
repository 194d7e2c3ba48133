----------------------------- MODULE BarBuilder -----------------------------
(***************************************************************************)
(* bar_builder.rs BarAccumulator: the features of a bar, kept one tick at  *)
(* a time.  A tick is [t, bid, ask, v, ci, accepted, rejected]; a mid is   *)
(* bid + ask (twice the price), a return is the difference of two mids,    *)
(* and a quotient is <<numerator, denominator>>.                           *)
(***************************************************************************)
EXTENDS Integers, SequencesExt

CONSTANTS
  Books,         \* the <<bid, ask>> of ticks
  MaxTicks       \* bound of the model

ASSUME BarAssumption == Books \subseteq Nat \X Nat

VARIABLES
  bar,           \* the accumulator
  ticks,         \* history: the ticks since the last flush
  emitted        \* history: the bar just flushed and the ticks it was made of

barVars == <<bar, ticks, emitted>>

Nan     == <<0, 0>>
Abs(x)  == IF x < 0 THEN -x ELSE x
Sign(x) == IF x > 0 THEN 1 ELSE IF x < 0 THEN -1 ELSE 0
Higher(x, y) == IF x > y THEN x ELSE y
Lower(x, y)  == IF x < y THEN x ELSE y
Mid(q)  == q.bid + q.ask
HasBook(q) == Mid(q) > 0 /\ q.ask > q.bid

NoBar ==
  [n |-> 0, open |-> 0, high |-> 0, low |-> 0, close |-> 0, vol |-> 0, open_t |-> 0,
   close_t |-> 0, sx |-> 0, sy |-> 0, sxy |-> 0, sxx |-> 0, last_x |-> 0, prev |-> 0,
   rv |-> 0, prev_abs |-> -1, bipower |-> 0, max_abs |-> 0, ofi |-> 0, ofi_vol |-> 0,
   spread |-> 0, books |-> 0, ci |-> 0, accepted |-> 0, rejected |-> 0]

(* The parts of ingest: price and time, regression, returns, quality.      *)
Priced1(b, q) ==
  [b EXCEPT !.n = @ + 1, !.close = Mid(q), !.close_t = q.t, !.vol = @ + q.v,
            !.open = IF b.n = 0 THEN Mid(q) ELSE @,
            !.open_t = IF b.n = 0 THEN q.t ELSE @,
            !.high = IF b.n = 0 THEN Mid(q) ELSE Higher(@, Mid(q)),
            !.low = IF b.n = 0 THEN Mid(q) ELSE Lower(@, Mid(q))]
Regressed(b, q) ==
  LET x == q.t - b.open_t IN
  [b EXCEPT !.sx = @ + x, !.sy = @ + Mid(q), !.sxy = @ + x * Mid(q),
            !.sxx = @ + x * x, !.last_x = x]
Spread(b, q) ==
  IF HasBook(q) THEN [b EXCEPT !.spread = @ + q.ask - q.bid, !.books = @ + 1] ELSE b
HasReturn(b, q) == b.prev > 0 /\ Mid(q) > 0
Returned(b, q) ==
  IF ~HasReturn(b, q) THEN b
  ELSE LET r == Mid(q) - b.prev IN
    [b EXCEPT !.rv = @ + r * r, !.max_abs = Higher(@, Abs(r)), !.prev_abs = Abs(r),
              !.bipower = IF b.prev_abs >= 0 THEN @ + Abs(r) * b.prev_abs ELSE @,
              !.ofi = @ + Sign(r) * q.v, !.ofi_vol = @ + q.v]
Weighted(b, q) ==
  [b EXCEPT !.prev = Mid(q), !.ci = @ + q.ci * q.accepted,
            !.accepted = @ + q.accepted, !.rejected = @ + q.rejected]
Accumulate(b, q) ==
  Weighted(Returned(Spread(Regressed(Priced1(b, q), q), q), q), q)

Drift(b) ==
  LET denom == b.n * b.sxx - b.sx * b.sx IN
  IF b.n >= 2 /\ b.last_x > 0 /\ b.close # 0 /\ denom # 0
    THEN <<(b.n * b.sxy - b.sx * b.sy) * b.last_x, denom * b.close>>
    ELSE <<0, 1>>
Ratio(num, den, otherwise) == IF den > 0 THEN <<num, den>> ELSE otherwise
BarOf(b) ==
  [open |-> b.open, high |-> b.high, low |-> b.low, close |-> b.close, n |-> b.n,
   open_t |-> b.open_t, close_t |-> b.close_t, vol |-> b.vol, rv |-> b.rv,
   bipower |-> b.bipower, max_abs |-> b.max_abs, drift |-> Drift(b),
   spread |-> Ratio(b.spread, b.books, Nan),
   imbalance |-> Ratio(b.ofi, b.ofi_vol, <<0, 1>>),
   ci |-> Ratio(b.ci, b.accepted, <<0, 1>>),
   reject_rate |-> Ratio(b.rejected, b.accepted + b.rejected, <<0, 1>>)]

Reset(b) == NoBar

Ingest(q) ==
  /\ Len(ticks) < MaxTicks
  /\ bar' = Accumulate(bar, q)
  /\ ticks' = Append(ticks, q)
  /\ emitted' = <<>>
FlushBar ==
  /\ bar.n > 0
  /\ emitted' = [bar |-> BarOf(bar), of |-> ticks]
  /\ bar' = Reset(bar) /\ ticks' = <<>>

BarInit == bar = NoBar /\ ticks = <<>> /\ emitted = <<>>
BarNext ==
  \/ \E bk \in Books, dt \in {0, 1}, v \in {1, 2}, rej \in {0, 1} :
       Ingest([t |-> bar.close_t + dt, bid |-> bk[1], ask |-> bk[2], v |-> v,
               ci |-> v, accepted |-> v, rejected |-> rej])
  \/ FlushBar

-----------------------------------------------------------------------------
(* A bar's features are those of the ticks since the last flush and of no  *)
(* others: prices over all ticks, returns and order flow "from the second  *)
(* tick onward", spreads over real books only, "NaN means no book data".   *)
Total(f) == MapThenSumSet(LAMBDA i : f[i], DOMAIN f)
BarTellsTicks ==
  emitted # <<>> =>
    LET b == emitted.bar  s == emitted.of  D == DOMAIN s
        m(i) == Mid(s[i])  r(i) == m(i) - m(i - 1)  x(i) == s[i].t - s[1].t
        books == {i \in D : HasBook(s[i])}
        later == {i \in D \ {1} : m(i) > 0 /\ m(i - 1) > 0}
        before(i) == {j \in later : j < i}
        volume(S) == Total([i \in S |-> s[i].v]) IN
    /\ b.n = Len(s) /\ b.open = m(1) /\ b.close = m(Len(s))
    /\ \A i \in D : b.low <= m(i) /\ m(i) <= b.high
    /\ \E i, j \in D : b.low = m(i) /\ b.high = m(j)
    /\ b.rv = Total([i \in later |-> r(i) * r(i)])
    /\ b.bipower = Total([i \in {i \in later : before(i) # {}} |->
                             Abs(r(i)) * Abs(r(Max(before(i))))])
    /\ \A i \in later : Abs(r(i)) <= b.max_abs
    /\ b.spread = IF books = {} THEN Nan
                  ELSE <<Total([i \in books |-> s[i].ask - s[i].bid]), Cardinality(books)>>
    /\ b.imbalance = Ratio(volume({i \in later : r(i) > 0}) - volume({i \in later : r(i) < 0}),
                           volume(later), <<0, 1>>)
    /\ b.drift[2] > 0
    /\ \A a, c \in {0, 1} :      \* ticks on a line have the slope of the line
         (a + c > 0 /\ \A i \in D : m(i) = m(1) + a * x(i)) /\ x(Len(s)) > 0 =>
            b.drift[1] * b.close = a * x(Len(s)) * b.drift[2]

BarTypeOK == bar.n = Len(ticks) /\ bar.low <= bar.high
=============================================================================

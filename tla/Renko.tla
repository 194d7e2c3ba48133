------------------------------- MODULE Renko --------------------------------
(***************************************************************************)
(* renko.rs RenkoGenerator on the price grid of grid.rs: bricks emitted    *)
(* from a stream of ticks, their size recomputed from sigma at the first   *)
(* tick of each half hour, and a warm restart that seeds the last close.   *)
(* Prices, sizes and grid steps are integers of the code's own arithmetic  *)
(* (a size has at least four digits, so the finest grid is 2).             *)
(*                                                                         *)
(* bricks, those of the last tick, and past are history: past holds the    *)
(* ticks owed to the next brick, the prices in its window (fed) and in     *)
(* that of the brick before (covered), the last price and the close of the *)
(* last brick on disk.                                                     *)
(* CountKept is a wrong version of the definition that follows it: nothing *)
(* uses it, and the property is checked to fail with it.                   *)
(***************************************************************************)
EXTENDS Integers, SequencesExt

CONSTANTS
  Prices,        \* of ticks; 0 stands for one that is not positive
  Sigmas,        \* in percent of the price
  Multipliers,   \* k, in units of K_FLOOR / 2; below 2 is below the floor
  MaxBricks,     \* MAX_BRICKS_PER_TICK
  HalfHours, MaxFed, MaxSeeds    \* bounds of the model

ASSUME RenkoAssumption ==
  Prices \cup Sigmas \cup Multipliers \cup {MaxBricks, HalfHours, MaxFed, MaxSeeds} \subseteq Nat

VARIABLES
  ren,           \* the generator
  halfHour,      \* the clock
  bricks, past,
  feeds, seeds

renVars == <<ren, halfHour, bricks, past, feeds, seeds>>
-----------------------------------------------------------------------------
(* grid.rs: the leading-digit grids of 2 and 5 units, three digits below   *)
(* the first.                                                              *)
Power10(v) == CHOOSE p \in {1, 10, 100, 1000, 10000, 100000} : p <= v /\ v < 10 * p
Unit(v) == IF Power10(v) < 1000 THEN 1 ELSE Power10(v) \div 1000
Round(v, step) == ((2 * v + step) \div (2 * step)) * step
Away(x, y) == IF x > y THEN x - y ELSE y - x
SnapTo25Grid(v) ==
  IF v <= 0 THEN v
  ELSE LET two == Round(v, 2 * Unit(v))  five == Round(v, 5 * Unit(v))
       IN  IF Away(v, two) <= Away(v, five) THEN two ELSE five
GridStep(size) == IF size <= 0 THEN 1 ELSE 2 * Unit(size)
SnapToGrid(p, step) == IF step <= 0 THEN p ELSE Round(p, step)

KFloor == 2
MinPct == 1
Accepted(k) == k > 0 \* RenkoConfig::validate: only a k near zero or beyond 1e6
Clamped(k) == IF k < KFloor THEN KFloor ELSE k   \* set_multiplier

NoWindow == [high |-> -1, low |-> -1]
Generator(k) ==
  [k |-> k, size |-> 0, step |-> 0, period |-> -1, init |-> FALSE, last |-> 0,
   wick |-> NoWindow, since |-> 0, ticks |-> 0]
SeedLastClose(g, p) == [g EXCEPT !.last = p, !.wick = NoWindow, !.init = p > 0]

RawBrick(k, p, sigma) ==
  (p * (IF k * sigma > MinPct THEN k * sigma ELSE MinPct)) \div (100 * KFloor)
(* A bound of the model: Power10 knows the sizes of six digits at most.    *)
ASSUME SizesFit ==
  \A k \in Multipliers \cup {KFloor}, p \in Prices, sigma \in Sigmas :
    LET size == RawBrick(k, p, sigma) IN size < 1000000 /\ SnapTo25Grid(size) < 1000000
Resized(g, p, t, sigma) ==
  IF g.k < KFloor THEN [g EXCEPT !.size = 0, !.step = 0]
  ELSE LET size == SnapTo25Grid(RawBrick(g.k, p, sigma)) IN
    [g EXCEPT !.size = size, !.step = GridStep(size), !.period = t]

Widened(w, p) ==
  IF w = NoWindow THEN [high |-> p, low |-> p]
  ELSE [high |-> IF p > w.high THEN p ELSE w.high, low |-> IF p < w.low THEN p ELSE w.low]

(* One brick: the first of a tick carries the wick and the tick count.     *)
HighLow(g, open, close, first) ==
  LET body == [high |-> IF open > close THEN open ELSE close,
               low |-> IF open > close THEN close ELSE open] IN
  IF first /\ g.wick # NoWindow
    THEN Widened(Widened(body, g.wick.high), g.wick.low) ELSE body
Brick(g, t, close, first) ==
  [open |-> g.last, close |-> close, open_t |-> g.since, close_t |-> t,
   hl |-> HighLow(g, g.last, close, first), synthetic |-> ~first,
   ticks |-> IF first THEN g.ticks ELSE 0, size |-> g.size, step |-> g.step]
CountKept(g, t, close) == [g EXCEPT !.last = close, !.wick = NoWindow, !.since = t]
Emitted(g, t, close) ==
  [g EXCEPT !.last = close, !.wick = NoWindow, !.since = t, !.ticks = 0]

(* The two loops of a tick: walk by one size towards the price.            *)
Target(g, p) ==
  CASE p - g.last >= g.size -> SnapToGrid(g.last + g.size, g.step)
    [] g.last - p >= g.size -> SnapToGrid(g.last - g.size, g.step)
    [] OTHER -> g.last
Walk(g, p, t) ==
  LET w[i \in 0 .. MaxBricks] ==
        IF i = 0 THEN [g |-> g, out |-> <<>>]
        ELSE LET s == w[i - 1]  c == Target(s.g, p) IN
          IF c = s.g.last THEN s
          ELSE [g |-> Emitted(s.g, t, c), out |-> Append(s.out, Brick(s.g, t, c, i = 1))]
  IN w[MaxBricks]

-----------------------------------------------------------------------------
NewPast == [owed |-> 0, fed |-> {}, covered |-> {}, price |-> 0, disk |-> 0]
Recorded(out, p) ==
  LET fed == past.fed \cup {p} IN
  IF out = <<>> THEN [past EXCEPT !.owed = @ + 1, !.fed = fed, !.price = p]
  ELSE [owed |-> past.owed + 1 - out[1].ticks, fed |-> {}, covered |-> fed, price |-> p,
        disk |-> Last(out).close]

FirstTick(t, p, sigma) ==
  /\ ~ren.init
  /\ ren' = LET g == Resized(ren, p, t, sigma) IN
            [g EXCEPT !.last = SnapToGrid(p, g.step), !.wick = Widened(NoWindow, p),
                      !.since = t, !.ticks = 1, !.init = TRUE]
  /\ bricks' = <<>>
  /\ past' = [past EXCEPT !.owed = 1, !.fed = {p}, !.price = p]

(* A new size takes the anchor along to its grid.                          *)
Regridded(g, p, t, sigma) ==
  LET s == Resized(g, p, t, sigma) IN
  IF t > g.period THEN [s EXCEPT !.last = SnapToGrid(@, s.step)] ELSE g

NextTick(t, p, sigma) ==
  /\ ren.init
  /\ LET g == Regridded([ren EXCEPT !.ticks = @ + 1], p, t, sigma) IN
     IF g.size <= 0 \/ p <= 0
       THEN /\ ren' = g /\ bricks' = <<>>
            /\ past' = [past EXCEPT !.owed = @ + 1, !.price = 0]
       ELSE LET w == Walk([g EXCEPT !.wick = Widened(@, p)], p, t) IN
            ren' = w.g /\ bricks' = w.out /\ past' = Recorded(w.out, p)

FeedTick(t, p, sigma) ==
  /\ feeds < MaxFed
  /\ feeds' = feeds + 1 /\ halfHour' = t
  /\ FirstTick(t, p, sigma) \/ NextTick(t, p, sigma)
  /\ UNCHANGED seeds

SetMultiplier(k) ==
  /\ ren' = [ren EXCEPT !.k = Clamped(k)]
  /\ ren' # ren
  /\ UNCHANGED <<halfHour, bricks, past, feeds, seeds>>

(* A restart: a new generator, seeded with the close of the last brick.    *)
WarmRestart(k) ==
  /\ seeds < MaxSeeds /\ Accepted(k)
  /\ seeds' = seeds + 1
  /\ ren' = SeedLastClose(Generator(k), past.disk)
  /\ past' = [NewPast EXCEPT !.disk = past.disk]
  /\ bricks' = <<>>
  /\ UNCHANGED <<halfHour, feeds>>

RenInit == /\ ren \in {Generator(k) : k \in {j \in Multipliers : Accepted(j)}}
           /\ halfHour = 0 /\ bricks = <<>> /\ past = NewPast /\ feeds = 0 /\ seeds = 0
RenNext ==
  \/ \E p \in Prices, sigma \in Sigmas, t \in {halfHour, halfHour + 1} :
       t <= HalfHours /\ FeedTick(t, p, sigma)
  \/ \E k \in Multipliers : SetMultiplier(k) \/ WarmRestart(k)

-----------------------------------------------------------------------------
RenTypeOK == ren.size >= 0 /\ ren.ticks \in Nat /\ Len(bricks) <= MaxBricks

(* Every tick is counted in one brick, the first after it; the wick of     *)
(* that brick reaches every price since the brick before and the body is   *)
(* one size, up to the rounding of the grid; the bricks of one tick join,  *)
(* and leave the price less than a size away unless there were too many.   *)
Body(b) == Away(b.open, b.close)
RenkoAccounts ==
  /\ past.owed = ren.ticks
  /\ bricks # <<>> =>
       \A p \in past.covered : bricks[1].hl.low <= p /\ p <= bricks[1].hl.high
  /\ \A i \in DOMAIN bricks :
       LET b == bricks[i] IN
       /\ 2 * Away(Body(b), b.size) <= b.step
       /\ b.close % b.step = 0
       /\ b.synthetic <=> i > 1
       /\ i > 1 => /\ b.open = bricks[i - 1].close /\ b.ticks = 0
                   /\ b.open > b.close <=> bricks[1].open > bricks[1].close
  /\ bricks # <<>> /\ Len(bricks) < MaxBricks =>
       Away(past.price, ren.last) < ren.size

=============================================================================

------------------------------- MODULE LagHist -------------------------------
(***************************************************************************)
(* lag.rs: the lock-free latency histogram.  Any number of threads record  *)
(* samples; the counts and the maximum are separate atomics, so a record   *)
(* and a read are sequences of single-cell steps that interleave.  A       *)
(* histogram is either drained by one owner (take) or read by snapshots    *)
(* that are subtracted from each other (snap, since).                      *)
(*                                                                         *)
(* fresh and took are history: the samples counted and not yet read, and    *)
(* those that went into the read in progress or just completed.  overlap   *)
(* says whether a record ran while the read did, or while the one before;  *)
(* spanned whether the process restarted between the last two reads.       *)
(*                                                                         *)
(* The atomics are relaxed; the model interleaves them in program order.   *)
(* What a reordering of bucket and maximum could show a reader, a maximum  *)
(* older or newer than the counts, an interleaving shows it as well.       *)
(*                                                                         *)
(* Unchecked and ZeroedLate are wrong versions of the definitions that     *)
(* follow them: nothing uses them, and the properties are checked to fail  *)
(* with them.                                                              *)
(***************************************************************************)
EXTENDS Integers, FiniteSetsExt

CONSTANTS
  Recorders,
  Lags,          \* the samples, in ms
  K,             \* BUCKETS
  Width,         \* bits of a counter
  Unbounded,     \* u32::MAX, the edge of the open bucket
  MaxSamples     \* bound of the model

ASSUME LagAssumption ==
  /\ K \in Nat \ {0, 1} /\ {Width, Unbounded, MaxSamples} \subseteq Nat
  /\ Lags \subseteq 0 .. Unbounded /\ IsFiniteSet(Recorders)

VARIABLES
  drained,       \* the owner takes windows; otherwise a reader diffs snapshots
  b, max,        \* the atomics
  rec,           \* [Recorders -> what the thread is about to do]
  cell,          \* the next cell of the read in progress; K is max, Idle none
  part,          \* what the read has so far
  prev,          \* the previous snapshot
  win,           \* the last window
  fresh, took, overlap, restarted, spanned, samples

atomics == <<b, max>>
reading == <<cell, part, prev, win>>
history == <<fresh, took, overlap, restarted, spanned, samples>>
lagVars == <<drained, atomics, rec, reading, history>>

Cells == 0 .. K - 1
Idle  == -1
Zeros == [k \in Cells |-> 0]
None  == [b |-> Zeros, max |-> 0]                    \* LagSnap::default
Resting == [at |-> "idle", ms |-> 0]
Nothing == [x \in Lags |-> 0]
Smaller(x, y) == IF x < y THEN x ELSE y
Larger(x, y)  == IF x > y THEN x ELSE y
Total(f, S)   == MapThenSumSet(LAMBDA x : f[x], S)

-----------------------------------------------------------------------------
BitLength(ms) == CHOOSE n \in 0 .. ms : ms < 2 ^ n /\ \A m \in 0 .. n - 1 : 2 ^ m <= ms
Bucket(ms) == Smaller(BitLength(ms), K - 1)
Edge(k) == IF k + 1 = K THEN Unbounded ELSE 2 ^ k - 1
InBucket(k) == {x \in Lags : Bucket(x) = k}

(* LagSnap::quantile; rank is the clamped ceil(q * n).                     *)
Quantile(s, rank) ==
  LET k == CHOOSE k \in Cells : /\ Total(s.b, 0 .. k) >= rank
                                /\ Total(s.b, 0 .. k - 1) < rank
  IN  Smaller(Edge(k), s.max)

(* LagSnap::since.                                                         *)
Unchecked(s, p) ==
  LET d == [k \in Cells |-> s.b[k] - p.b[k]]
      top == {k \in Cells : d[k] > 0}
  IN  [b |-> d, max |-> IF top = {} THEN 0 ELSE Smaller(Edge(Max(top)), s.max)]
Since(s, p) ==
  LET d == [k \in Cells |-> s.b[k] - p.b[k]]
      top == {k \in Cells : d[k] > 0}
  IN  IF \E k \in Cells : s.b[k] < p.b[k] THEN s
      ELSE [b |-> d, max |-> IF top = {} THEN 0 ELSE Smaller(Edge(Max(top)), s.max)]

-----------------------------------------------------------------------------
(* record: fetch_add, then a plain load of max, then fetch_max on a high.  *)
Move(r, step) == rec' = [rec EXCEPT ![r].at = step]

Record(r, ms) ==
  /\ rec[r].at = "idle" /\ samples < MaxSamples
  /\ rec' = [rec EXCEPT ![r] = [at |-> "count", ms |-> ms]]
  /\ samples' = samples + 1
  /\ overlap' = [overlap EXCEPT !.this = @ \/ cell # Idle]
  /\ UNCHANGED <<drained, atomics, reading, fresh, took, restarted, spanned>>

Count(r) ==
  /\ rec[r].at = "count"
  /\ b' = [b EXCEPT ![Bucket(rec[r].ms)] = (@ + 1) % 2 ^ Width]
  /\ fresh' = [fresh EXCEPT ![rec[r].ms] = @ + 1]
  /\ Move(r, "load")
  /\ UNCHANGED <<drained, max, reading, took, overlap, restarted, spanned, samples>>

LoadMax(r) ==
  /\ rec[r].at = "load"
  /\ IF rec[r].ms > max THEN Move(r, "raise") ELSE rec' = [rec EXCEPT ![r] = Resting]
  /\ UNCHANGED <<drained, atomics, reading, history>>

RaiseMax(r) ==
  /\ rec[r].at = "raise"
  /\ max' = Larger(max, rec[r].ms)
  /\ rec' = [rec EXCEPT ![r] = Resting]
  /\ UNCHANGED <<drained, b, reading, history>>

-----------------------------------------------------------------------------
(* take and snap: one cell after the other.                                *)
Begin ==
  /\ cell = Idle
  /\ cell' = 0 /\ part' = None /\ took' = Nothing
  /\ overlap' = [last |-> overlap.this, this |-> \E r \in Recorders : rec[r].at # "idle"]
  /\ UNCHANGED <<drained, atomics, rec, prev, win, fresh, restarted, spanned, samples>>

Collected ==
  /\ took' = [x \in Lags |-> IF Bucket(x) = cell THEN fresh[x] ELSE took[x]]
  /\ fresh' = [x \in Lags |-> IF Bucket(x) = cell THEN 0 ELSE fresh[x]]

ZeroedLate == IF drained /\ cell > 0 THEN [b EXCEPT ![cell - 1] = 0] ELSE b
Swapped == IF drained THEN [b EXCEPT ![cell] = 0] ELSE b

ReadBucket ==
  /\ cell \in Cells
  /\ part' = [part EXCEPT !.b[cell] = b[cell]]
  /\ b' = Swapped
  /\ Collected
  /\ cell' = cell + 1
  /\ UNCHANGED <<drained, max, rec, prev, win, overlap, restarted, spanned, samples>>

ReadMax ==
  /\ cell = K
  /\ LET s == [part EXCEPT !.max = max]
     IN  /\ win' = IF drained THEN s ELSE Since(s, prev)
         /\ prev' = IF drained THEN prev ELSE s
  /\ max' = IF drained THEN 0 ELSE max
  /\ cell' = Idle /\ part' = None
  /\ restarted' = FALSE /\ spanned' = restarted
  /\ UNCHANGED <<drained, b, rec, fresh, took, overlap, samples>>

(* The process restarts; the reader of its snapshots is elsewhere.         *)
Restart ==
  /\ ~drained /\ cell = Idle /\ ~restarted
  /\ b' = Zeros /\ max' = 0 /\ rec' = [r \in Recorders |-> Resting]
  /\ restarted' = TRUE
  /\ UNCHANGED <<drained, reading, fresh, took, overlap, spanned, samples>>

LagInit ==
  /\ drained \in BOOLEAN
  /\ b = Zeros /\ max = 0 /\ rec = [r \in Recorders |-> Resting]
  /\ cell = Idle /\ part = None /\ prev = None /\ win = None
  /\ fresh = Nothing /\ took = Nothing /\ samples = 0
  /\ overlap = [last |-> FALSE, this |-> FALSE] /\ restarted = FALSE /\ spanned = FALSE

LagNext ==
  \/ \E r \in Recorders :
       \/ \E ms \in Lags : Record(r, ms)
       \/ Count(r) \/ LoadMax(r) \/ RaiseMax(r)
  \/ Begin \/ ReadBucket \/ ReadMax \/ Restart

LagSpec == LagInit /\ [][LagNext]_lagVars

-----------------------------------------------------------------------------
Counters == [Cells -> 0 .. 2 ^ Width - 1]
Snap     == [b : Counters, max : Lags \cup {0}]

LagTypeOK ==
  /\ drained \in BOOLEAN
  /\ b \in Counters /\ max \in Lags \cup {0}
  /\ rec \in [Recorders -> [at : {"idle", "count", "load", "raise"}, ms : Lags \cup {0}]]
  /\ cell \in Cells \cup {K, Idle} /\ {part, prev} \subseteq Snap
  /\ win.b \in Counters /\ win.max \in 0 .. Unbounded
  /\ {fresh, took} \subseteq [Lags -> 0 .. MaxSamples]
  /\ overlap \in [last : BOOLEAN, this : BOOLEAN]
  /\ restarted \in BOOLEAN /\ spanned \in BOOLEAN /\ samples \in 0 .. MaxSamples

Completed == cell = Idle /\ ~restarted

(* lag.rs:3 to 6: windows are not split.  Every sample counted while reads *)
(* and restarts come and go is in exactly one window; only a restart may   *)
(* make samples disappear, and nothing is ever counted twice.              *)
WindowsPartition ==
  Completed =>
    \A k \in Cells :
      /\ win.b[k] <= Total(took, InBucket(k))
      /\ ~spanned => win.b[k] = Total(took, InBucket(k))

(* The sample of that rank among those of the window.                      *)
Ranked(rank) ==
  CHOOSE x \in Lags : /\ Total(took, {y \in Lags : y <= x}) >= rank
                      /\ Total(took, {y \in Lags : y < x}) < rank

(* lag.rs:8: a quantile is an upper bound, and outside the open bucket at  *)
(* most twice the true value, of every window that no record overlaps and  *)
(* that follows such a window.                                             *)
QuantileBounds ==
  (Completed /\ ~spanned /\ ~overlap.this /\ ~overlap.last) =>
    \A rank \in 1 .. Total(took, Lags) :
      /\ Ranked(rank) <= Quantile(win, rank)
      /\ Bucket(Ranked(rank)) < K - 1 => Quantile(win, rank) <= 2 * Ranked(rank)

-----------------------------------------------------------------------------
(* No bucket counter wraps in the samples the model takes.                 *)
CountersHold == MaxSamples < 2 ^ Width

(* The inductive invariants.  Every sample that a counter or the history   *)
(* has, or is about to get, is one of those taken.                         *)
Counting(x) == {r \in Recorders : rec[r].at = "count" /\ rec[r].ms = x}
Entering(k) == {r \in Recorders : rec[r].at = "count" /\ Bucket(rec[r].ms) = k}
CountInv ==
  /\ LagTypeOK
  /\ \A r \in Recorders : rec[r].at # "idle" => rec[r].ms \in Lags
  /\ \A x \in Lags : fresh[x] + Cardinality(Counting(x)) <= samples
  /\ \A k \in Cells : b[k] + Cardinality(Entering(k)) <= samples

(* A cell that the read has passed (k < cell) is in part with what the     *)
(* history took; a cell ahead of it still holds what is fresh, over the    *)
(* previous snapshot unless the process restarted.                         *)
CellInv ==
  /\ drained => ~restarted
  /\ \A k \in Cells :
       LET now  == Total(fresh, InBucket(k))
           seen == Total(took, InBucket(k)) IN
       /\ drained => b[k] = now
       /\ ~drained /\ k < cell => b[k] = part.b[k] + now
       /\ ~drained /\ k >= cell /\ ~restarted => b[k] = prev.b[k] + now
       /\ restarted /\ k >= cell => b[k] <= now
       /\ drained /\ k < cell => part.b[k] = seen
       /\ ~drained /\ k < cell /\ ~restarted => part.b[k] = prev.b[k] + seen
       /\ restarted /\ k < cell => part.b[k] <= seen
  /\ WindowsPartition

(* Where no record overlaps a read, max bounds what is fresh or has been   *)
(* taken, as soon as the threads that raise it are done.                   *)
Raising(x) == \E r \in Recorders : rec[r].ms = x /\ rec[r].at \in {"load", "raise"}
MaxInv ==
  /\ (cell # Idle /\ ~overlap.this) =>
       /\ \A r \in Recorders : rec[r].at = "idle"
       /\ \A x \in Lags : Bucket(x) < cell => fresh[x] = 0
       /\ (~restarted /\ ~overlap.last) => \A x \in Lags : fresh[x] > 0 \/ took[x] > 0 => x <= max
  /\ (Completed /\ ~overlap.this) => \A x \in Lags : fresh[x] > 0 => x <= max \/ Raising(x)
  /\ (Completed /\ ~spanned /\ ~overlap.this /\ ~overlap.last) =>
       \A x \in Lags : took[x] > 0 => x <= win.max

LagInv == CountInv /\ CellInv /\ MaxInv
=============================================================================

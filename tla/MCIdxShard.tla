----------------------------- MODULE MCIdxShard -----------------------------
(***************************************************************************)
(* TLC instances of IdxShard: days of three ticks, a sentinel after two.   *)
(***************************************************************************)
EXTENDS IdxShard, TLC

QuoteSymmetry == Permutations(Quotes)

(* <<kills, outages, faults>>: two kills, or a power failure, or a failed  *)
(* I/O call.                                                               *)
SomeFailures == {<<1, 0, 0>>, <<2, 0, 0>>, <<0, 1, 0>>, <<0, 0, 1>>}
OneFault == {<<0, 0, 1>>}
=============================================================================

------------------------------- MODULE MCBars --------------------------------
(***************************************************************************)
(* TLC instances of the bars of a ticker: ticks to bars, ticks to bricks,  *)
(* and the shards and the manifest both are kept in.  They share no state: *)
(* each is explored by itself.                                             *)
(***************************************************************************)
EXTENDS BarManifest, BarBuilder, Renko, ShardFiles, TLC

VARIABLES part, given

ExtSymmetry == Permutations(Exts)
SomeBooks == {<<2, 2>>, <<1, 3>>, <<3, 4>>, <<0, 0>>}

(* Entries of three days, some of them twice; small stores.                *)
SomeEntries == BoundedSeq([date : 1 .. 3, first : {1}, last : {2, 3}], 4)
Found == {<<>>, <<[date |-> 2, first |-> 5, last |-> 6]>>,
          <<[date |-> 1, first |-> 4, last |-> 6], [date |-> 4, first |-> 7, last |-> 7]>>}
SomeFiles == {[tree |-> "indexes", ext |-> "idx", id |-> 1, date |-> 1], [tree |-> "bars", ext |-> "s10", id |-> 1, date |-> 1],
              [tree |-> "bars", ext |-> "renko", id |-> 2, date |-> 1], [tree |-> "bars", ext |-> "renko", id |-> 1, date |-> 1],
              [tree |-> "bars", ext |-> "json", id |-> 2, date |-> Rolling], VolPath(1), VolPath(2), VolPath(3)}

BarsInit == /\ part \in {"shards", "flushes", "bricks", "stream", "entries", "owners"}
            /\ Init /\ BarInit /\ RenInit /\ StreamInit /\ given = <<>>
            /\ part # "bricks" => ren.k = KFloor
BarsNext ==
  \/ part = "shards"  /\ Next       /\ UNCHANGED <<part, given, barVars, renVars, streamVars>>
  \/ part = "flushes" /\ BarNext    /\ UNCHANGED <<part, given, vars, renVars, streamVars>>
  \/ part = "bricks"  /\ RenNext    /\ UNCHANGED <<part, given, vars, barVars, streamVars>>
  \/ part = "stream"  /\ StreamNext /\ UNCHANGED <<part, given, vars, barVars, renVars>>
  \/ /\ given = <<>>
     /\ \/ part = "entries" /\ given' \in SomeEntries \X Found
        \/ part = "owners"  /\ given' \in {<<disk>> : disk \in SUBSET SomeFiles}
     /\ UNCHANGED <<part, vars, barVars, renVars, streamVars>>
BarsSpec == BarsInit /\ [][BarsNext]_<<part, given, vars, barVars, renVars, streamVars>>

(* Type correctness of the parts; of the manifest, its whole invariant.    *)
BarsTypeOK == OwnerInv /\ BarTypeOK /\ RenTypeOK

(* A bar tells the ticks since the last flush and no others, and every     *)
(* tick is counted in one brick, between whose bounds its price lies       *)
(* (bar_builder.rs flush, renko.rs feed_tick_with_sigma).                  *)
BarsAccount ==
  /\ BarTellsTicks /\ RenkoAccounts /\ StreamTells
  /\ (part = "entries" /\ given # <<>>) => ManifestsAgree(given[1], given[2])
  /\ (part = "owners" /\ given # <<>>) => OwnersPartition(given[1])
=============================================================================

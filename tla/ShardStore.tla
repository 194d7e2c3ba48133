----------------------------- MODULE ShardStore -----------------------------
(***************************************************************************)
(* What the shards of one ticker promise to whoever reads them (the module *)
(* documentation of shard.rs and of ipc/append_log.rs): one sequence of    *)
(* slots per UTC day, of which only the newest grows, by one slot at a     *)
(* time and in time order; and a count of slots per day that no failure    *)
(* takes back.                                                             *)
(*                                                                         *)
(* There is no writer here, no lock, no memory and no open file: IdxShard, *)
(* with its crashes, is shown to be one such store.                        *)
(***************************************************************************)
EXTENDS Integers, Sequences

CONSTANTS
  Days,        \* the UTC days, in order
  Record,      \* what a slot may hold; a record has a time ts
  Garbage,     \* a slot that no reader can decode
  Day(_)       \* the day of a time

VARIABLES
  shards,      \* [Days -> sequences of slots]
  stable       \* [Days -> slots that survive any failure]

store == <<shards, stable>>

Whole(s) == \A i \in DOMAIN s : s[i] # Garbage
Newest(d) == \A e \in Days : shards[e] # <<>> => e <= d

(* A slot may follow what the shard of d holds: it is of that day and not  *)
(* earlier than the last one, unless the shard is already undecodable.     *)
Fits(d, r) ==
  /\ Day(r.ts) = d
  /\ (Whole(shards[d]) /\ shards[d] # <<>>) => shards[d][Len(shards[d])].ts <= r.ts

Grow(d, r) ==
  /\ Newest(d)
  /\ r # Garbage => Fits(d, r)
  /\ shards' = [shards EXCEPT ![d] = Append(@, r)]
  /\ stable' \in {stable, [stable EXCEPT ![d] = Len(shards[d]) + 1]}

Harden(d) ==
  /\ stable' = [stable EXCEPT ![d] = Len(shards[d])]
  /\ UNCHANGED shards

(* A failure cuts every shard somewhere past its stable slots.             *)
Cuts ==
  {k \in [Days -> UNION {0 .. Len(shards[d]) : d \in Days}] :
     \A d \in Days : stable[d] <= k[d] /\ k[d] <= Len(shards[d])}
Fail ==
  \E k \in Cuts : /\ shards' = [d \in Days |-> SubSeq(shards[d], 1, k[d])]
                  /\ stable' = k

Init == shards = [d \in Days |-> <<>>] /\ stable = [d \in Days |-> 0]

Next ==
  \/ \E d \in Days : Harden(d) \/ \E r \in Record \cup {Garbage} : Grow(d, r)
  \/ Fail

Spec == Init /\ [][Next]_store
=============================================================================

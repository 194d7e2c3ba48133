----------------------------- MODULE RestClient -----------------------------
(***************************************************************************)
(* client.rs NxrClient and WsStream: the cached listing, the map from      *)
(* symbols to ids, both shared by the clones of a client and each under a  *)
(* lock of its own, and a stream that filters the feed by ids taken from   *)
(* the map.                                                                *)
(*                                                                         *)
(* One stream is open at a time.  MapKeepsOld is a wrong version of the    *)
(* definition that follows it: nothing uses it, and the property is        *)
(* checked to fail with it.                                                *)
(***************************************************************************)
EXTENDS Integers, SequencesExt, FiniteSetsExt

CONSTANTS
  Tasks,       \* that call the client
  TickerId,    \* [symbols -> ids], several symbols may share one
  Listings,    \* what the server lists in turn: sets of symbols
  Wanted,      \* sets of symbols that a subscription may name
  \* bounds of the model
  MaxRestCalls, MaxFed

ASSUME RestAssumption ==
  /\ {MaxRestCalls, MaxFed} \subseteq Nat
  /\ Listings \in Seq(SUBSET DOMAIN TickerId) /\ Listings # <<>>
  /\ Wanted \subseteq SUBSET DOMAIN TickerId

VARIABLES
  listed,      \* the server's listing
  detail,      \* detail_cache: a listing, or 0
  symbolIds,   \* symbol_to_id: pairs of a symbol and an id
  where,       \* [Tasks -> where the call stands]
  reply,       \* [Tasks -> the listing it was answered with, or returned]
  wants,       \* [Tasks -> the tickers of its subscription, or {}]
  restCalls,
  filter,      \* allow_ids of the stream: [on, ids], or <<>> without one
  buffer,      \* its records, the next one last
  fed,         \* history: ids of the records of the batches it has read
  handed,      \* history: ids of the records it has handed out
  chosen,      \* history: the tickers it was opened with
  alone        \* [Tasks -> history: the listing when its refresh began, 0
               \*           once another call asked the server meanwhile]

callVars   == <<listed, detail, symbolIds, where, reply, wants, restCalls, alone>>
streamVars == <<filter, buffer, fed, handed, chosen>>
restVars   == <<callVars, streamVars>>

NoListing == 0
Rows(n)   == {<<s, TickerId[s]>> : s \in Listings[n]}
Asking    == {t \in Tasks : where[t] \in {"asked", "answered", "cached"}}

Relist == /\ listed < Len(Listings) /\ listed' = listed + 1
          /\ UNCHANGED <<detail, symbolIds, where, reply, wants, restCalls, alone, streamVars>>

-----------------------------------------------------------------------------
(* tickers_detail: the cache, or else a request.                           *)
Look(t, cache, then) ==
  IF cache # NoListing
    THEN where' = [where EXCEPT ![t] = then] /\ reply' = [reply EXCEPT ![t] = cache]
    ELSE where' = [where EXCEPT ![t] = "asked"] /\ UNCHANGED reply
Disturbed(t) == [u \in Tasks |-> IF u # t THEN 0 ELSE alone[u]]

CallDetail(t) ==
  /\ where[t] = "idle" /\ restCalls < MaxRestCalls /\ restCalls' = restCalls + 1
  /\ wants' = [wants EXCEPT ![t] = {}]
  /\ alone' = [Disturbed(t) EXCEPT ![t] = 0]
  /\ Look(t, detail, "idle")
  /\ UNCHANGED <<listed, detail, symbolIds, streamVars>>

(* tickers_detail_refresh gives up its lock before it calls tickers_detail.*)
CallRefresh(t) ==
  /\ where[t] = "idle" /\ restCalls < MaxRestCalls /\ restCalls' = restCalls + 1
  /\ wants' = [wants EXCEPT ![t] = {}]
  /\ detail' = NoListing /\ where' = [where EXCEPT ![t] = "cleared"]
  /\ alone' = [Disturbed(t) EXCEPT ![t] = IF Asking = {} THEN listed ELSE 0]
  /\ UNCHANGED <<listed, symbolIds, reply, streamVars>>
RefreshLooks(t) ==
  /\ where[t] = "cleared" /\ Look(t, detail, "idle")
  /\ UNCHANGED <<listed, detail, symbolIds, wants, restCalls, alone, streamVars>>

Replied(t) ==
  /\ where[t] = "asked"
  /\ where' = [where EXCEPT ![t] = "answered"] /\ reply' = [reply EXCEPT ![t] = listed]
  /\ UNCHANGED <<listed, detail, symbolIds, wants, restCalls, alone, streamVars>>

(* A subscription ignores the error.                                       *)
Resume(t) == IF wants[t] = {} THEN "idle" ELSE "resolving"
Fail(t) ==
  /\ where[t] = "asked" /\ where' = [where EXCEPT ![t] = Resume(t)]
  /\ reply' = [reply EXCEPT ![t] = NoListing]
  /\ UNCHANGED <<listed, detail, symbolIds, wants, restCalls, alone, streamVars>>

StoreCache(t) ==
  /\ where[t] = "answered" /\ where' = [where EXCEPT ![t] = "cached"]
  /\ detail' = reply[t]
  /\ UNCHANGED <<listed, symbolIds, reply, wants, restCalls, alone, streamVars>>

MapKeepsOld(n) == symbolIds \cup Rows(n)
NewMap(n) == Rows(n)
StoreMap(t) ==
  /\ where[t] = "cached" /\ where' = [where EXCEPT ![t] = Resume(t)]
  /\ symbolIds' = {p \in NewMap(reply[t]) : p[2] # 0}
  /\ UNCHANGED <<listed, detail, reply, wants, restCalls, alone, streamVars>>

-----------------------------------------------------------------------------
(* subscribe, after the connection: without tickers no filter, with an     *)
(* empty map the listing first.                                            *)
StreamOpened(names, allowed) ==
  /\ filter' = allowed /\ chosen' = names /\ buffer' = <<>> /\ fed' = <<>> /\ handed' = <<>>
Subscribe(t, names) ==
  /\ where[t] = "idle" /\ filter = <<>> /\ \A u \in Tasks : wants[u] = {}
  /\ restCalls < MaxRestCalls /\ restCalls' = restCalls + 1
  /\ wants' = [wants EXCEPT ![t] = names]
  /\ alone' = Disturbed(t)
  /\ IF names = {}
       THEN StreamOpened({}, [on |-> FALSE, ids |-> {}]) /\ UNCHANGED <<where, reply>>
       ELSE /\ IF symbolIds = {} THEN Look(t, detail, "resolving")
               ELSE where' = [where EXCEPT ![t] = "resolving"] /\ UNCHANGED reply
            /\ UNCHANGED streamVars
  /\ UNCHANGED <<listed, detail, symbolIds>>

Allowed(names) == LET found == {p[2] : p \in {q \in symbolIds : q[1] \in names}}
                  IN  [on |-> found # {}, ids |-> found]
Resolve(t) ==
  /\ where[t] = "resolving" /\ filter = <<>>
  /\ where' = [where EXCEPT ![t] = "idle"] /\ wants' = [wants EXCEPT ![t] = {}]
  /\ StreamOpened(wants[t], Allowed(wants[t]))
  /\ UNCHANGED <<listed, detail, symbolIds, reply, restCalls, alone>>

(* WsStream::next: a record of the buffer, or a batch that leaves one.     *)
FeedIds == {TickerId[s] : s \in DOMAIN TickerId} \ {0}
Passing == IF filter.on THEN filter.ids ELSE FeedIds
Sift(ids, batch) ==
  FoldLeft(LAMBDA kept, id : IF id \in ids THEN Append(kept, id) ELSE kept, <<>>, batch)
Kept(batch) == Sift(Passing, batch)
Stacked(batch) == Reverse(Kept(batch))
Pop ==
  /\ filter # <<>> /\ buffer # <<>>
  /\ handed' = Append(handed, Last(buffer)) /\ buffer' = Front(buffer)
  /\ UNCHANGED <<filter, fed, chosen, callVars>>
ReadBatch(batch) ==
  /\ filter # <<>> /\ buffer = <<>> /\ Len(fed) + Len(batch) <= MaxFed
  /\ fed' = fed \o batch
  /\ buffer' = Stacked(batch)
  /\ UNCHANGED <<filter, handed, chosen, callVars>>

RestInit ==
  /\ listed = 1 /\ detail = NoListing /\ symbolIds = {} /\ restCalls = 0
  /\ where = [t \in Tasks |-> "idle"] /\ reply = [t \in Tasks |-> NoListing]
  /\ wants = [t \in Tasks |-> {}] /\ alone = [t \in Tasks |-> 0]
  /\ filter = <<>> /\ buffer = <<>> /\ fed = <<>> /\ handed = <<>> /\ chosen = {}

RestNext ==
  \/ Relist \/ Pop
  \/ \E t \in Tasks : CallDetail(t) \/ CallRefresh(t) \/ RefreshLooks(t) \/ Replied(t) \/ Fail(t)
                   \/ StoreCache(t) \/ StoreMap(t) \/ Resolve(t)
                   \/ \E names \in Wanted : Subscribe(t, names)
  \/ \E a \in FeedIds : ReadBatch(<<a>>) \/ \E b \in FeedIds : ReadBatch(<<a, b>>)

RestSpec == RestInit /\ [][RestNext]_restVars

-----------------------------------------------------------------------------
RestTypeOK ==
  /\ listed \in DOMAIN Listings /\ detail \in 0 .. Len(Listings) /\ restCalls \in 0 .. MaxRestCalls
  /\ symbolIds \subseteq {<<s, TickerId[s]>> : s \in DOMAIN TickerId}
  /\ where \in [Tasks -> {"idle", "cleared", "asked", "answered", "cached", "resolving"}]
  /\ {reply[t] : t \in Tasks} \cup {alone[t] : t \in Tasks} \subseteq 0 .. Len(Listings)
  /\ \A t \in Tasks : wants[t] \subseteq DOMAIN TickerId
  /\ filter # <<>> => filter.on \in BOOLEAN /\ filter.ids \subseteq FeedIds
  /\ {buffer, fed, handed} \subseteq Seq(FeedIds) /\ chosen \subseteq DOMAIN TickerId

(* client.rs:428-452 and 620-643: two calls store two answers under two    *)
(* locks, in either order, yet the map always is one listing that the      *)
(* server has had; a filter holds the ids of its tickers in one such       *)
(* listing; and a refresh that no other call disturbs returns what the     *)
(* server lists when it asks.                                              *)
OneListing ==
  /\ symbolIds = {} \/ \E n \in 1 .. listed : symbolIds = {p \in Rows(n) : p[2] # 0}
  /\ filter # <<>> /\ filter.on =>
       \E n \in 1 .. listed : filter.ids = {TickerId[s] : s \in Listings[n] \cap chosen} \ {0}
  /\ \A t \in Tasks : where[t] = "idle" /\ alone[t] # 0 /\ reply[t] # NoListing => reply[t] >= alone[t]

(* client.rs:829-852: next hands out every record of the batches that the  *)
(* filter lets through, once, in the order of the feed.                    *)
StreamExact == filter # <<>> => handed \o Reverse(buffer) = Kept(fed)

(* client.rs:614-616: "`tickers` filters records client-side by ticker_id  *)
(* (resolved from the cached `/v1/tickers/detail`). Pass an empty slice to *)
(* receive every record."                                                  *)
FiltersByTicker ==
  filter # <<>> /\ chosen # {} =>
    \A i \in DOMAIN handed : handed[i] \in {TickerId[s] : s \in chosen}

(* The inductive invariant of OneListing.  An answer that is on its way to *)
(* the cache or the map is a listing the server has had; and while a       *)
(* refresh is undisturbed, no older one is in the cache or on its way.     *)
Storing(t) == where[t] \in {"answered", "cached"}
CallsInv ==
  /\ {listed, detail} \subseteq Nat /\ 1 <= listed
  /\ where \in [Tasks -> {"idle", "cleared", "asked", "answered", "cached", "resolving"}]
  /\ {reply, alone} \subseteq [Tasks -> Nat]
  /\ \A t \in Tasks : Storing(t) => reply[t] \in 1 .. listed
  /\ \A t \in Tasks : alone[t] # 0 =>
       /\ alone[t] <= listed
       /\ detail # NoListing => alone[t] <= detail
       /\ \A u \in Tasks : Storing(u) => alone[t] <= reply[u]
       /\ where[t] \notin {"cleared", "asked"} /\ reply[t] # NoListing => alone[t] <= reply[t]
ListingInv == CallsInv /\ OneListing

(* The inductive invariant of StreamExact.                                 *)
StreamInv ==
  /\ buffer \in Seq(FeedIds) /\ fed \in Seq(FeedIds) /\ handed \in Seq(FeedIds)
  /\ StreamExact
=============================================================================

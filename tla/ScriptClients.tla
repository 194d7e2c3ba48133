---------------------------- MODULE ScriptClients ---------------------------
(***************************************************************************)
(* The catalogue and the subscriptions of the TypeScript client            *)
(* (ts/src/client.ts: one event loop, calls that await) and of the Python  *)
(* client (ergo.py: calls that block).  TypeScript sends its tickers to    *)
(* the server and filters by itself only until the server has answered;    *)
(* Python filters by itself.                                               *)
(***************************************************************************)
EXTENDS Integers, SequencesExt, FiniteSetsExt

CONSTANTS
  IdOf,        \* [symbols -> ids]
  Listed,      \* the symbols the server lists
  Routable,    \* those it can compose besides
  Naming,      \* sets of symbols that a subscription may name
  \* bounds of the model
  MaxSent, MaxScCalls

ASSUME ScAssumption ==
  /\ Listed \cup Routable \subseteq DOMAIN IdOf /\ Naming \subseteq SUBSET DOMAIN IdOf
  /\ {MaxSent, MaxScCalls} \subseteq Nat

VARIABLES
  lang,        \* "ts" or "py"
  cached,      \* detailCache is set
  known,       \* symbolToId: pairs
  call,        \* the call that awaits: <<>>, or [why, sym, stage]
  answer,      \* history: what resolve returned: [sym, id], or <<>>
  scCalls,
  stream,      \* "none", "opening", "open" or "closed"
  names,       \* the tickers it was opened with
  allow,       \* resolvedIds, allow_ids: [on, ids]
  strict,      \* history: it named a ticker the map held
  serves,      \* the server has taken the subscription
  scSent,      \* records sent
  onWay,       \* messages on their way: [ack, recs, bad]
  inbox,       \* Python's buffer
  owed,        \* history: records the client owes its caller
  heard        \* history: records it has handed out

catVars == <<cached, known, call, answer, scCalls>>
subVars == <<stream, names, allow, strict, serves, scSent, onWay, inbox, owed, heard>>
scVars  == <<lang, catVars, subVars>>

Ids(symbols)  == {IdOf[s] : s \in symbols}
ListingRows   == {<<s, IdOf[s]>> : s \in {x \in Listed : IdOf[x] # 0}}
Knows(s)      == {p[2] : p \in {q \in known : q[1] = s}}
Free          == call = <<>> /\ scCalls < MaxScCalls /\ scCalls' = scCalls + 1

-----------------------------------------------------------------------------
(* tickersDetail, tickers_detail, with or without refresh.                 *)
FreshCall(s, why) == [why |-> why, sym |-> s, stage |-> "detail"]
TsDetail(refresh) ==
  /\ lang = "ts" /\ Free /\ (refresh \/ ~cached)
  /\ call' = [why |-> "detail", sym |-> "", stage |-> "detail"]
  /\ UNCHANGED <<lang, cached, known, answer, subVars>>
PyDetail(refresh) ==
  /\ lang = "py" /\ Free /\ (refresh \/ ~cached)
  /\ cached' = TRUE /\ known' = ListingRows
  /\ UNCHANGED <<lang, call, answer, subVars>>

(* resolve asks for the listing when the map is empty, then for the price. *)
TsResolve(s) ==
  /\ lang = "ts" /\ Free
  /\ IF known = {} /\ ~cached THEN call' = FreshCall(s, "resolve") /\ UNCHANGED answer
     ELSE IF Knows(s) # {} THEN answer' = [sym |-> s, ids |-> Knows(s)] /\ UNCHANGED call
     ELSE call' = [FreshCall(s, "resolve") EXCEPT !.stage = "price"] /\ UNCHANGED answer
  /\ UNCHANGED <<lang, cached, known, subVars>>
PyResolve(s) ==
  /\ lang = "py" /\ Free
  /\ LET map == IF known = {} /\ ~cached THEN ListingRows ELSE known
     IN  /\ known' = map
         /\ answer' = [sym |-> s, ids |-> {p[2] : p \in {q \in map : q[1] = s}}]
  /\ cached' = TRUE /\ UNCHANGED <<lang, call, subVars>>

(* The answers, and the failures that make the call throw.                 *)
Listing ==
  /\ call # <<>> /\ call.stage = "detail"
  /\ cached' = TRUE /\ known' = ListingRows
  /\ IF call.why = "detail" THEN call' = <<>> /\ UNCHANGED answer
     ELSE LET found == {p[2] : p \in {q \in ListingRows : q[1] = call.sym}}
          IN  IF found # {} THEN call' = <<>> /\ answer' = [sym |-> call.sym, ids |-> found]
              ELSE call' = [call EXCEPT !.stage = "price"] /\ UNCHANGED answer
  /\ UNCHANGED <<lang, scCalls, subVars>>
Price ==
  /\ call # <<>> /\ call.stage = "price"
  /\ LET id == IF call.sym \in Listed \cup Routable THEN {IdOf[call.sym]} ELSE {}
     IN  /\ known' = known \cup {<<call.sym, i>> : i \in id}
         /\ answer' = [sym |-> call.sym, ids |-> id]
  /\ call' = <<>> /\ UNCHANGED <<lang, cached, scCalls, subVars>>
Throws ==
  /\ call # <<>> /\ call' = <<>>
  /\ answer' = IF call.stage = "price" THEN [sym |-> call.sym, ids |-> {}] ELSE answer
  /\ UNCHANGED <<lang, cached, known, scCalls, subVars>>

-----------------------------------------------------------------------------
FilterFor(map, tickers) ==
  LET found == {p[2] : p \in {q \in map : q[1] \in tickers}} IN [on |-> found # {}, ids |-> found]
Subscribed(tickers, map) ==
  /\ stream = "none" /\ names' = tickers /\ allow' = FilterFor(map, tickers)
  /\ strict' = FilterFor(map, tickers).on
  /\ UNCHANGED <<lang, call, answer, scCalls, serves, scSent, onWay, inbox, owed, heard>>
TsSubscribe(tickers) ==
  /\ lang = "ts" /\ Subscribed(tickers, known)
  /\ stream' = "opening" /\ UNCHANGED <<cached, known>>
(* Python asks for the listing first, and ignores the error.               *)
PySubscribe(tickers, answers) ==
  /\ lang = "py"
  /\ IF tickers # {} /\ known = {} /\ ~cached /\ answers
       THEN known' = ListingRows /\ cached' = TRUE ELSE UNCHANGED <<known, cached>>
  /\ Subscribed(tickers, known') /\ stream' = "open"

(* onopen sends the subscription; a server that predates it does not       *)
(* answer.                                                                 *)
OpenStream ==
  /\ stream = "opening" /\ stream' = "open"
  /\ UNCHANGED <<lang, catVars, names, allow, strict, serves, scSent, onWay, inbox, owed, heard>>

Spoken(m) == onWay' = Append(onWay, m) /\ scSent' = scSent + Len(m.recs) /\ scSent' <= MaxSent
ServerTakes ==
  /\ lang = "ts" /\ stream = "open" /\ names # {} /\ ~serves /\ serves' = TRUE
  /\ Spoken([ack |-> names \cap (Listed \cup Routable) # {}, recs |-> <<>>,
             bad |-> names \ (Listed \cup Routable)])
  /\ UNCHANGED <<lang, catVars, stream, names, allow, strict, inbox, owed, heard>>
(* The records of a ticker that was asked for; without tickers, all.       *)
Picked(ids, recs) ==
  FoldLeft(LAMBDA kept, r : IF r \in ids THEN Append(kept, r) ELSE kept, <<>>, recs)
Named     == IF names = {} THEN Ids(DOMAIN IdOf) ELSE Ids(names)
Asked(rs) == Picked(Named, rs)
Serving == IF serves THEN names \cap (Listed \cup Routable) ELSE Listed
ServerSends(recs) ==
  /\ stream = "open" /\ ToSet(recs) \subseteq Ids(Serving) \ {0}
  /\ Spoken([ack |-> FALSE, recs |-> recs, bad |-> {}])
  /\ owed' = owed \o Asked(recs)
  /\ UNCHANGED <<lang, catVars, stream, names, allow, strict, serves, inbox, heard>>

(* onmessage.                                                              *)
Admitted(recs) == Picked(IF allow.on THEN allow.ids ELSE Ids(DOMAIN IdOf), recs)
AfterAck(m)    == IF m.ack THEN [on |-> FALSE, ids |-> {}] ELSE allow
Message ==
  /\ lang = "ts" /\ stream = "open" /\ onWay # <<>> /\ onWay' = Tail(onWay)
  /\ allow' = AfterAck(Head(onWay))
  /\ heard' = heard \o Admitted(Head(onWay).recs)
  /\ UNCHANGED <<lang, catVars, stream, names, strict, serves, scSent, inbox, owed>>

(* __anext__: the buffer, or the head of what a frame leaves.              *)
NextRecord ==
  /\ lang = "py" /\ stream = "open"
  /\ IF inbox # <<>> THEN heard' = Append(heard, Head(inbox)) /\ inbox' = Tail(inbox) /\ UNCHANGED onWay
     ELSE /\ onWay # <<>> /\ onWay' = Tail(onWay)
          /\ LET recs == Admitted(Head(onWay).recs)
             IN  IF recs = <<>> THEN UNCHANGED <<heard, inbox>>
                 ELSE heard' = Append(heard, Head(recs)) /\ inbox' = Tail(recs)
  /\ UNCHANGED <<lang, catVars, stream, names, allow, strict, serves, scSent, owed>>
CloseStream ==
  /\ stream \in {"opening", "open"} /\ stream' = "closed"
  /\ UNCHANGED <<lang, catVars, names, allow, strict, serves, scSent, onWay, inbox, owed, heard>>

ScInit ==
  /\ lang \in {"ts", "py"} /\ cached = FALSE /\ known = {} /\ call = <<>> /\ answer = <<>> /\ scCalls = 0
  /\ stream = "none" /\ names = {} /\ allow = [on |-> FALSE, ids |-> {}] /\ strict = FALSE /\ serves = FALSE
  /\ scSent = 0 /\ onWay = <<>> /\ inbox = <<>> /\ owed = <<>> /\ heard = <<>>

ScNext ==
  \/ Listing \/ Price \/ Throws \/ OpenStream \/ ServerTakes \/ Message \/ NextRecord \/ CloseStream
  \/ \E refresh \in BOOLEAN : TsDetail(refresh) \/ PyDetail(refresh)
  \/ \E s \in DOMAIN IdOf : TsResolve(s) \/ PyResolve(s)
  \/ \E w \in Naming : TsSubscribe(w) \/ \E a \in BOOLEAN : PySubscribe(w, a)
  \/ \E a \in Ids(DOMAIN IdOf) : ServerSends(<<a>>)
                                  \/ \E b \in Ids(DOMAIN IdOf) : ServerSends(<<a, b>>)

-----------------------------------------------------------------------------
ScTypeOK ==
  /\ known \subseteq {<<s, IdOf[s]>> : s \in DOMAIN IdOf} /\ scCalls \in 0 .. MaxScCalls /\ scSent \in 0 .. MaxSent
  /\ call # <<>> => call.stage \in {"detail", "price"}
  /\ onWay \in Seq([ack : BOOLEAN, recs : Seq(Ids(DOMAIN IdOf)), bad : SUBSET DOMAIN IdOf])
  /\ {inbox, owed, heard} \subseteq Seq(Ids(DOMAIN IdOf) \ {0})

Records(ms) == FoldLeft(LAMBDA all, m : all \o m.recs, <<>>, ms)

(* client.ts:560-605, ergo.py:443-472 and 888-911: however the             *)
(* subscription overtakes the broadcast, a record of a ticker that was     *)
(* asked for is handed out in its turn and once, a cross that no listing   *)
(* holds included; and where the map held some of the tickers when the     *)
(* stream was opened no other record ever is, although TypeScript drops    *)
(* its filter at the server's answer.                                      *)
HearsAsked ==
  /\ Asked(heard) \o Asked(inbox) \o Asked(Records(onWay)) = owed
  /\ strict => heard = Asked(heard)

(* Its inductive invariant.  Once there is a map it holds the listing.     *)
CatInv ==
  /\ known \subseteq {<<s, IdOf[s]>> : s \in DOMAIN IdOf}
  /\ cached \/ known # {} \/ (call # <<>> /\ call.stage = "price") => ListingRows \subseteq known

(* A filter lets through what is listed and was asked for.  Before the     *)
(* server takes the subscription it sends what is listed, behind its       *)
(* answer what was asked for.                                              *)
AckBefore(i) == \E j \in DOMAIN onWay : j <= i /\ onWay[j].ack
Of(i, symbols) == \A k \in DOMAIN onWay[i].recs : onWay[i].recs[k] \in Ids(symbols)
WireInv ==
  /\ names \in SUBSET DOMAIN IdOf /\ serves \in BOOLEAN /\ strict \in BOOLEAN
  /\ allow \in [on : BOOLEAN, ids : SUBSET Ids(DOMAIN IdOf)]
  /\ onWay \in Seq([ack : BOOLEAN, recs : Seq(Ids(DOMAIN IdOf) \ {0}), bad : SUBSET DOMAIN IdOf])
  /\ allow.on => /\ names # {} /\ allow.ids \subseteq Ids(names)
                 /\ (Ids(names) \cap Ids(Listed)) \ {0} \subseteq allow.ids
  /\ strict => names # {}
  /\ ~serves => /\ \A i \in DOMAIN onWay : ~onWay[i].ack /\ Of(i, Listed)
                /\ strict => allow.on
  /\ serves => names # {} /\ lang = "ts"
  /\ serves /\ names \cap (Listed \cup Routable) # {} => ~allow.on \/ AckBefore(Len(onWay))
  /\ \A i \in DOMAIN onWay : Of(i, Listed) \/ ~allow.on \/ AckBefore(i - 1)
  /\ strict => \A i \in DOMAIN onWay : Of(i, names) \/ (allow.on /\ ~AckBefore(i))

HearInv ==
  /\ CatInv /\ WireInv /\ lang \in {"ts", "py"}
  /\ {heard, inbox, owed} \subseteq Seq(Ids(DOMAIN IdOf) \ {0})
  /\ stream \in {"none", "opening"} => ~serves /\ onWay = <<>> /\ heard = <<>> /\ inbox = <<>> /\ owed = <<>>
  /\ lang = "ts" => inbox = <<>>
  /\ strict => \A i \in DOMAIN inbox : inbox[i] \in Ids(names)
  /\ strict => \A i \in DOMAIN heard : heard[i] \in Ids(names)
  /\ HearsAsked
=============================================================================

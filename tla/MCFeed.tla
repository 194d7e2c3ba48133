------------------------------- MODULE MCFeed -------------------------------
(***************************************************************************)
(* TLC instances of the feed and of the clients of the API: the publisher, *)
(* the WebSocket clients of Rust and TypeScript, the catalogue and streams *)
(* of the three client libraries, and what they ask and understand.  They  *)
(* share no state: each is explored by itself.                             *)
(***************************************************************************)
EXTENDS WsClient, NxrClient, FramePublisher, RestClient, ScriptClients, HistoryCall, TLC

VARIABLES part, asked

(* A wrap that shares its asset's id, two listings, and a cross no listing *)
(* holds.                                                                  *)
SymbolIds == "a" :> 1 @@ "b" :> 2 @@ "w" :> 1 @@ "x" :> 3
TwoListings == <<{"a", "b"}, {"a", "w"}>>
RestWanted  == {{}, {"a"}, {"b", "x"}, {"x"}}
ScriptIds    == "a" :> 1 @@ "b" :> 2 @@ "x" :> 3 @@ "z" :> 4
ScriptNaming == {{}, {"a", "x"}, {"b"}, {"x"}, {"z"}}

TaskSymmetry == Permutations(Tasks)

(* Requests, chains of builder calls, bodies and errors.                   *)
Texts == {Absent, <<"BTC">>, <<"BTC", "/", "EUR">>, <<"BTC", "-", "EUR">>, <<"BTC", "_", "EUR">>,
          <<"/", "EUR">>, <<"A", "-", "B", "/", "C">>, <<"A", "/", "B", "/", "C">>}
Options == [ticker : Texts, base : {Absent, <<"BTC">>}, quote : {Absent, <<"JPY">>},
            kind : {"", "idx", "kline", "ohlc", "odd"}, instrument : {"", "spot", "perp"},
            from : {0, 1}, to : {0}, limit : {0, 2}, cursor : {0, 3}, tf : {0, 60}]
Chains == BoundedSeq({<<"ticker", <<"BTC", "/", "EUR">>>>, <<"ticker", <<"BTC">>>>, <<"quote", <<"JPY">>>>,
                      <<"kind", "idx">>, <<"from", 1>>, <<"from", 2>>, <<"limit", 2>>}, 4)
Answers == [status : {200, 204, 401, 403, 429, 500}, json : BOOLEAN, body : Bodies]
Nothing == [about |-> "nothing"]
About(a, S) == [about : {a}, in : S]
Requests == About("options", Options) \cup About("chain", Chains) \cup About("error", Answers)
            \cup About("bytes", [bytes : 0 .. 200, status : {200, 404}])

FeedInit == /\ WsInit /\ TsInit /\ PubInit /\ RestInit /\ ScInit /\ asked = Nothing
            /\ part \in {"publisher", "rust", "typescript", "rest", "script", "calls"}
            /\ lang = "py" => part = "script"
FeedNext ==
  \/ part = "publisher"  /\ PubNext  /\ UNCHANGED <<part, asked, wsVars, tsVars, restVars, scVars>>
  \/ part = "rust"       /\ WsNext   /\ UNCHANGED <<part, asked, tsVars, pubVars, restVars, scVars>>
  \/ part = "typescript" /\ TsNext   /\ UNCHANGED <<part, asked, wsVars, pubVars, restVars, scVars>>
  \/ part = "rest"       /\ RestNext /\ UNCHANGED <<part, asked, wsVars, tsVars, pubVars, scVars>>
  \/ part = "script"     /\ ScNext   /\ UNCHANGED <<part, asked, wsVars, tsVars, pubVars, restVars>>
  \/ part = "calls"      /\ asked = Nothing /\ asked' \in Requests
                         /\ UNCHANGED <<part, wsVars, tsVars, pubVars, restVars, scVars>>
FeedSpec == FeedInit /\ [][FeedNext]_<<part, asked, wsVars, tsVars, pubVars, restVars, scVars>>

(* Type correctness of the parts.                                          *)
FeedTypeOK == WsInv /\ TsInv /\ PubInv /\ RestTypeOK /\ ListingInv /\ ScTypeOK /\ HearInv

(* What a client library hands its caller is one listing of the server,    *)
(* and of the feed every record that was asked for, once and in order.     *)
ClientsHear ==
  /\ part = "rest" => OneListing /\ StreamExact
  /\ part = "script" => HearsAsked

(* Whichever library is used and whichever way a call is spelled, the      *)
(* server is asked the same and its answer means the same.                 *)
CallsAgree ==
  part = "calls" =>
    CASE asked.about = "options" -> RequestsAgree(asked.in)
      [] asked.about = "chain"   -> ChainsAgree(asked.in)
      [] asked.about = "error"   -> ClientsAgree(asked.in.status, asked.in.json, asked.in.body)
      [] asked.about = "bytes"   -> CutShort(asked.in.bytes, asked.in.status)
      [] OTHER                   -> OneAnswerEach
=============================================================================

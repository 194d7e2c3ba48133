------------------------------ MODULE MCRules -------------------------------
(***************************************************************************)
(* TLC instances of what a process is told: the file of ticker parameters, *)
(* the configuration it boots from, the file it watches, the memory it may *)
(* use, and what a symbol means to it.  They share no state: each is       *)
(* explored by itself.                                                     *)
(***************************************************************************)
EXTENDS TickerParams, PipelineConfig, MemoryGuard, Resolve, HotReload

VARIABLES part, case
caseVars == <<part, case>>

(* The asset tables, in load order.  A key is held across classes ("w",    *)
(* "sui", "eth", "ff") and twice inside one ("w", of two commodities).     *)
Row(name, aliases, class, id) == [name |-> name, aliases |-> aliases, class |-> class, id |-> id]
Assets6 == <<
  Row(<<"grain">>, <<<<"w">>>>, "CM", 3), Row(<<"wheat">>, <<<<"w">>>>, "CM", 1), Row(<<"xau">>, <<<<"xau">>>>, "CM", 2),
  Row(<<"bitcoin">>, <<<<"btc">>, <<"xbt">>>>, "CR", 1), Row(<<"ethereum">>, <<<<"eth">>>>, "CR", 2),
  Row(<<"tether">>, <<<<"usd", "t">>>>, "CR", 3), Row(<<"coin">>, <<<<"usd", "c">>>>, "CR", 4),
  Row(<<"sui">>, <<<<"sui">>>>, "CR", 5), Row(<<"worm">>, <<<<"w">>>>, "CR", 6),
  Row(<<"wrapped">>, <<<<"w", "btc">>>>, "CR", 7), Row(<<"circle">>, <<<<"eur", "c">>>>, "CR", 8),
  Row(<<"falcon">>, <<<<"ff">>>>, "CR", 9), Row(<<"sol">>, <<<<"sol">>>>, "CR", 10),
  Row(<<"sun">>, <<<<"sui">>>>, "EQ", 1), Row(<<"fnf">>, <<<<"ff">>>>, "EQ", 2),
  Row(<<"berk">>, <<<<"brk", "-", "b">>>>, "EQ", 3), Row(<<"solv">>, <<<<"sol", "v">>>>, "EQ", 4),
  Row(<<"usd">>, <<<<"usd">>>>, "FX", 1), Row(<<"eur">>, <<<<"eur">>>>, "FX", 2),
  Row(<<"jpy">>, <<<<"jpy">>>>, "FX", 3), Row(<<"ethi">>, <<<<"ethi">>, <<"eth">>>>, "IP", 1)>>
ClassPins == (<<"sui">> :> "CR") @@ (<<"w">> :> "CR") @@ (<<"zz">> :> "CR")
WrapRows == {<<<<"CR", 7>>, <<"CR", 1>>, FALSE, FALSE>>, <<<<"CR", 8>>, <<"FX", 2>>, TRUE, TRUE>>}
Near(a, b) == CASE {a, b} = {<<"sol">>, <<"solv">>} -> 94
                [] {a, b} = {<<"brk">>, <<"berk">>} -> 92
                [] {a, b} = {<<"solx">>, <<"solv">>} -> 91
                [] {a, b} = {<<"solx">>, <<"sol">>} -> 91
                [] OTHER -> 40
Tokens == {Assets6[i].aliases[1] : i \in DOMAIN Assets6} \cup {<<"solx">>, <<"nope">>, <<"brk">>}
Quotes == {<<"usd">>, UsdT, <<"btc">>, <<"eth">>, <<"jpy">>, <<"sui">>, <<"w">>, <<"nope">>}
Joined == {b \o d \o q : b \in Tokens, d \in {<<"/">>, <<"-">>, <<"_">>, <<>>}, q \in Quotes} \cup Tokens
Spellings == UNION {{s, <<"^">> \o s, s \o <<".", "m">>, s \o <<"cash">>, s \o <<Perp>>} : s \in Joined}
Words3 == BoundedSeq({"a", "b", "c"}, 4)
(* The tables in other orders: one entry moved to the front.               *)
Moved == {<<Assets6[i]>> \o SelectSeq(Assets6, LAMBDA e : e # Assets6[i]) : i \in DOMAIN Assets6}
         \cup {Reverse(Assets6)}

(* Config files: a sound one, and the same with one section varied.        *)
NoSigned == [format |-> <<>>, oracle |-> <<>>, chain |-> <<>>, default |-> <<>>, domains |-> <<>>,
             windows |-> <<>>, lookback |-> <<>>, feeds |-> <<>>,
             role |-> <<>>, sign_only |-> FALSE, retention_days |-> <<>>]
With(r, changes) == [k \in DOMAIN r |-> IF k \in DOMAIN changes THEN changes[k] ELSE r[k]]
Storage(quote, over) == [quote |-> quote, overrides |-> over, peg_bps |-> <<>>, peg_ms |-> <<>>,
                         peg_max |-> <<>>, parity |-> <<>>]
Base == [parses |-> TRUE, assets |-> {"BTC"}, z_gate |-> DefaultZGate, carry |-> Absent,
         basis |-> Absent, history |-> <<>>, blacklist |-> <<>>,
         oracles |-> ("pyth" :> {<<"low", "EUR/USD">>}),
         ctrader |-> [prior |-> <<>>, providers |-> ("icm" :> [symbols |-> {<<"up", "XAU/USD">>}, prior |-> <<>>])],
         onchain |-> [enabled |-> FALSE, rates |-> FALSE, pools |-> {}],
         storage |-> Storage(<<>>, <<>>), signed |-> NoSigned, interval |-> <<200>>, signing |-> <<>>,
         cal |-> [target |-> 30, by_pair |-> ("BTC/USDT" :> 50), by_class |-> ("crypto_major" :> 40),
                  bounds |-> <<1, 4>>]]
Changed1(key, values) == {With(Base, key :> v) : v \in values}
FeedSet == {[f EXCEPT !.bar_min = <<>>] : f \in Feeds({<<"low", "EUR/USD">>}, {336, 3000000}, {<<"gk">>})}
           \cup {[symbol |-> <<"up", "XAU/USD">>, window_bars |-> <<1>>, estimators |-> <<>>, bar_min |-> <<<<60, 30>>>>]}
SignedVariants ==
  {With(NoSigned, c) : c \in
      {d \in DomainKeys({"packed_v4", "ticker30"}, {"a", "z"}) :
         /\ d.chain = <<>> /\ d.oracle # <<"z">>
         /\ d.domains # <<>> => \A l \in DOMAIN d.domains : d.domains[l].chain = 0 /\ d.domains[l].oracle = "a"}
      \cup SigmaKeys({<<60>>, <<360, 10080, 20161>>, <<0>>, <<94370401>>}, {0, 48}, FeedSet)
      \cup {r @@ k : r \in RoleKeys({1, 400}), k \in SigmaKeys({<<20161>>}, {48}, {})}}
ConfigFiles ==
  Changed1("signed", SignedVariants)
  \cup Changed1("onchain", OnchainRosterYml({<<"low", "USDE/USD">>, <<"up", "QQQ/USD:PERP">>}))
  \cup Changed1("oracles", {"pyth" :> s : s \in SUBSET {<<"low", "QQQ/USD:PERP">>, <<"up", "EUR/USD">>}})
  \cup Changed1("z_gate", ZGateYml({0, 40, 200, 201}, {0, 20, 25, 1000}))
  \cup Changed1("carry", {<<c>> : c \in PeggedCarryYml(0 .. 2, {1}, {0, 4}, {4, 9})})
  \cup Changed1("basis", {<<g>> : g \in BasisGateYml({"icm", "none"}, {{}, {"FX"}, {"??"}},
                                                    {<<>>, "FX" :> 0, "FX" :> 3})})
  \cup Changed1("ctrader", CtraderYml({"icm" :> p : p \in CtraderProviderYml({<<"low", "XAU/USD">>}, {100, 101})},
                                       {0, 7, 101}))
  \cup Changed1("storage",
         StorageYml({"EUR", "??"},
                    {<<>>, "KRW" :> "JPY", "BTC" :> "EUR", "ETH" :> "EUR", "AA" :> "USD", "USD" :> "EUR",
                     "EUR" :> "EUR", ("KRW" :> "JPY") @@ ("JPY" :> "KRW")},
                    {<<>>} \cup {(<<"USD", "KRW">> :> <<l>>) @@ (<<"BTC">> :> <<>>) :
                                 l \in ParityLegYml({"upbit"}, {<<"low", "USDT/KRW">>})}, {1, 4000}))
  \cup Changed1("cal", CalibrationYml({"BTC/USDT"}, {"crypto_major"}))
  \cup Changed1("parses", {FALSE}) \cup Changed1("assets", {{"EUR"}})
  \cup Changed1("history", {<<"">>, <<"http">>, <<"ftp">>})
  \cup Changed1("interval", {<<>>, <<100>>}) \cup Changed1("signing", {<<50>>, <<100>>, <<150>>, <<0>>})
  \cup Changed1("blacklist", {<<<<"low", "MKR">>, <<"up", "">>>>})
LaterFiles == {Base, With(Base, "storage" :> Storage(<<"EUR">>, <<>>)), With(Base, "parses" :> FALSE),
               With(Base, "interval" :> <<100>>)}

PhysicalRam == {<<>>, <<16>>, <<64>>}
AvailableRam == {<<>>, <<10>>, <<40>>}
CgroupRam == {<<>>, <<0>>, <<4>>, <<10>>, <<30>>}
RequestedRam == {<<>>, <<0>>, <<12>>, <<60>>}
MemoAnswer(s) == IF s = "NOPE" THEN <<>> ELSE <<"id", s>>
(* Environments: directories moved, numbers that do and do not parse.      *)
Chosen(values) == UNION {{e \in [K -> UNION {values[k] : k \in K}] : \A k \in K : e[k] \in values[k]} :
                         K \in SUBSET DOMAIN values}
EnvPaths == [data_root |-> {<<>>, <<"mnt", "nxr">>}, indexes_dir |-> {<<>>, <<"idx">>, <<"ssd", "idx">>},
             bars_dir |-> {<<"bars">>}, config_dir |-> {<<"etc">>}, ticker_params_path |-> {<<"params">>}]
EnvNumbers == [sink_port |-> {<<>>, <<7>>}, weight_refresh_ms |-> {<<>>, <<600>>}]
PortTexts == ("7" :> 7) @@ ("9" :> 9)
SinkLists == BoundedSeq({Blank, <<"a">>, <<"b", "9">>, <<"b", "x">>, <<"", "9">>, <<"", "", "9">>}, 3)
Nothing == [s |-> <<>>, t |-> <<>>]
Cases == [s : Spellings, t : {<<>>}] \cup [s : Words3, t : Words3] \cup [s : {<<>>}, t : Moved]

RulesInit ==
  /\ part \in {"params", "config", "watch", "memory", "memo", "symbols", "boot"}
  /\ case = Nothing
  /\ IF part = "config" THEN CfgInit
     ELSE /\ file = Nothing /\ verdict = "none" /\ running = <<>> /\ policy = <<>>
          /\ cadence = <<>> /\ env_interval = <<>>
  /\ IF part = "memory" THEN MemInit
     ELSE host = Nothing /\ cap = None /\ limit = None /\ rss = 0 /\ fate = "runs"
  /\ ParInit /\ MemoInit /\ HotInit
  /\ part # "watch" => content = Missing
RulesNext ==
  \/ part = "params"  /\ ParNext  /\ UNCHANGED <<caseVars, hotVars, cfgVars, memVars, memoVars>>
  \/ part = "config"  /\ CfgNext  /\ UNCHANGED <<caseVars, hotVars, parVars, memVars, memoVars>>
  \/ part = "watch"   /\ HotNext  /\ UNCHANGED <<caseVars, parVars, cfgVars, memVars, memoVars>>
  \/ part = "memory"  /\ MemNext  /\ UNCHANGED <<caseVars, hotVars, parVars, cfgVars, memoVars>>
  \/ part = "memo"    /\ MemoNext /\ UNCHANGED <<caseVars, hotVars, parVars, cfgVars, memVars>>
  \/ part = "symbols" /\ case = Nothing /\ case' \in Cases
                      /\ UNCHANGED <<part, hotVars, parVars, cfgVars, memVars, memoVars>>
  \/ part = "boot"    /\ case = Nothing /\ \E n \in Chosen(EnvNumbers) :
                           \/ \E e \in Chosen(EnvPaths) : case' = [s |-> <<"env">>, t |-> Together(e, n)]
                           \/ \E l \in SinkLists : case' = [s |-> <<"sinks">>, t |-> l, env |-> n]
                      /\ UNCHANGED <<part, hotVars, parVars, cfgVars, memVars, memoVars>>
RulesSpec ==
  /\ RulesInit /\ [][RulesNext]_<<caseVars, hotVars, parVars, cfgVars, memVars, memoVars>>
  /\ WF_hotVars(part = "watch" /\ Watcher)

(* Type correctness of the parts, and the invariants they rest on.         *)
RulesTypeOK ==
  /\ part = "params" => ParInv
  /\ part = "config" => CfgInv
  /\ part = "memory" => MemInv
  /\ part = "watch"  => HotInv
  /\ part = "memo"   => MemoInv

(* What a process is told is told whole: no writer of the parameters       *)
(* reverts another, the guard acts before the kernel, and the storage      *)
(* policy and cadence of a process are those of one accepted file.         *)
OneTruth == /\ part = "params" => NothingReverted
            /\ part = "memory" => GuardFirst
            /\ part = "config" => OnePolicy
            /\ part = "memo"   => MemoTrue
            /\ (part = "boot" /\ case.s = <<"env">>) => EnvMeans(case.t)
            /\ (part = "boot" /\ case.s = <<"sinks">>) => SinksMean(case.t, FromEnv(case.env).sink_port)

(* A symbol means one pair of assets, to whoever asks and in whatever      *)
(* order the tables were loaded.                                           *)
SymbolsMean ==
  part = "symbols" =>
    /\ (case.s # <<>> /\ case.t = <<>>) => Resolves(case.s)
    /\ (case.s \in Words3 /\ case.t \in Words3) => SkipIsConservative(case.s, case.t)
    /\ (case.s = <<>> /\ Len(case.t) > 4) =>
         \A q \in Tokens, c \in {AnyClass, "CR", "EQ"} : LoadOrderFree(case.t, q, c)
    /\ case = Nothing =>
         /\ \A a \in Tokens, q \in Range(Majors) : CryptoKeepsItsName(a, q)
         /\ ~Collides(Table)
=============================================================================

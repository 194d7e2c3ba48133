--------------------------- MODULE PipelineConfig ---------------------------
(***************************************************************************)
(* pipeline_config.rs and config.rs: what a config file resolves to, what  *)
(* load refuses, and the process that boots from it.  The file is replaced *)
(* by an operator at any moment; a process reads it when it resolves its   *)
(* cadence, when it boots, and (a tool that never boots) when the storage  *)
(* policy is first asked for.                                              *)
(*                                                                         *)
(* An asset is a name; a symbol is <<case, name>>.  Times and basis points *)
(* are small integers (tenths for the z-gate).                             *)
(***************************************************************************)
EXTENDS SignedConfig

CONSTANTS
  FxAssets, CryptoAssets,   \* assets by class
  Hub,                      \* the default storage quote, an FxAsset
  Perps,                    \* the symbol names that carry the :PERP marker
  Registered,               \* provider names of market-providers.csv
  Classes30,                \* names of asset classes
  DefaultInterval,          \* DEFAULT_AGGREGATION_INTERVAL_MS
  PortText,                 \* the texts that parse as a port -> the port
  Files, Replacements,      \* config files an operator writes, first and later
  EnvIntervals              \* values of NXR_AGGREGATION_INTERVAL_MS

FileTyped(y) == OptNat(y.interval) /\ OptNat(y.signing) /\ SignedTyped(y.signed)
ASSUME CfgAssumption ==
  /\ DefaultInterval \in Nat /\ EnvIntervals \subseteq Nat
  /\ \A y \in Files \cup Replacements : FileTyped(y)

VARIABLES file, verdict, running, policy, cadence, env_interval
cfgVars == <<file, verdict, running, policy, cadence, env_interval>>

Up(name) == <<"up", name>>
UpperSym(s) == Up(s[2])
IsPerp(s) == s[2] \in Perps
Assets == FxAssets \cup CryptoAssets

-----------------------------------------------------------------------------
(* The sections, by the keys that the rules below read.                    *)
ZGateYml(Ts, Sds) == [threshold : Ts, min_sd : Sds]
PeggedCarryYml(Lone, Multi, Tol, Tops) == [lone : Lone, multi : Multi, tol : Tol, zero : Tops]
BasisGateYml(Incumbents, Shadows, Bands) ==
  [minutes : {0, 5}, incumbent : Incumbents, shadow : Shadows, bands : Bands]
CtraderProviderYml(Syms, Priors) == [symbols : SUBSET Syms, prior : Opt(Priors)]
CtraderYml(Ps, Priors) == [prior : Opt(Priors), providers : Ps]
OnchainRosterYml(Syms) ==
  [enabled : BOOLEAN, rates : BOOLEAN, pools : SUBSET [symbol : Syms, located : BOOLEAN]]
ParityLegYml(Names, Pairs) == [provider : Opt(Names), pair : Pairs]
StorageYml(Quotes, Overrides, Parities, Ms) ==
  [quote : Opt(Quotes), overrides : Overrides, parity : Parities,
   peg_bps : {<<>>}, peg_ms : Opt(Ms), peg_max : {<<>>}]
CalibrationYml(Pairs, Kinds) ==
  [target : {30}, by_pair : UNION {[P -> {50}] : P \in SUBSET Pairs},
   by_class : UNION {[C -> {40}] : C \in SUBSET Kinds}, bounds : {<<1, 4>>, <<2, 2>>}]

(* Gates.  A section that is absent is <<>>.                               *)
ZGateValid(g) ==
  /\ 0 < g.threshold /\ g.threshold <= 200
  /\ 1 <= g.min_sd /\ g.min_sd <= 1000
  /\ g.threshold * g.min_sd <= 5000
DefaultZGate == [threshold |-> 40, min_sd |-> 20]
CarryValid(c) == /\ 0 < c.lone /\ c.lone <= c.multi
                 /\ 0 < c.tol /\ c.tol < c.zero
PriorWeightOf(t, name) ==
  IF name \in DOMAIN t.providers /\ t.providers[name].prior # <<>>
    THEN t.providers[name].prior ELSE t.prior
PriorsValid(t) ==
  \A o \in {t.prior} \cup {t.providers[n].prior : n \in DOMAIN t.providers} :
    o # <<>> => 0 < o[1] /\ o[1] <= 100
BasisGateValid(g, providers) ==
  /\ g.minutes > 0
  /\ g.incumbent \in DOMAIN providers \cap Registered
  /\ DOMAIN providers \subseteq Registered
  /\ g.shadow \subseteq Classes30 /\ DOMAIN g.bands \subseteq Classes30
  /\ \A k \in DOMAIN g.bands : g.bands[k] > 0

(* Rosters: what the relay forwarders observe.                             *)
HasRateLegs(c) == c.enabled /\ c.rates
OnchainSymbols(c) == {UpperSym(p.symbol) : p \in {p \in c.pools : c.enabled /\ p.located}}
Declared(y) ==
  {UpperSym(s) : s \in UNION {y.oracles[n] : n \in DOMAIN y.oracles}
                 \cup UNION {y.ctrader.providers[n].symbols : n \in DOMAIN y.ctrader.providers}}
  \cup OnchainSymbols(y.onchain)
RelayManifest(y, perp) == {s \in Declared(y) : IsPerp(s) = perp}
ConfiguredSymbols(y) == RelayManifest(y, FALSE)
ConfiguredPerpSymbols(y) == RelayManifest(y, TRUE)
RelayProviders(y) ==
  DOMAIN y.oracles \cup DOMAIN y.ctrader.providers
  \cup {n \in {"onchain"} : OnchainSymbols(y.onchain) # {}}
  \cup {n \in {"onchain_rate"} : HasRateLegs(y.onchain)}

(* Storage: which pairs are stored, and which way up.                      *)
PegConfirm(s) == [bps |-> OrElse(s.peg_bps, 4), ms |-> OrElse(s.peg_ms, 1500),
                  most |-> OrElse(s.peg_max, 3000)]
HubOf(s) == OrElse(s.quote, Hub)
StorageQuoteFor(s, a) == IF a \in DOMAIN s.overrides THEN s.overrides[a] ELSE HubOf(s)
StoragePair(s, key) == IF Len(key) = 2 THEN key ELSE <<key[1], StorageQuoteFor(s, key[1])>>
Orientation(s, b, q) ==
  CASE b # q /\ q = StorageQuoteFor(s, b) -> "direct"
    [] b # q /\ q # StorageQuoteFor(s, b) /\ b = HubOf(s) /\ q \in FxAssets
         /\ StorageQuoteFor(s, q) = HubOf(s) -> "inverted"
    [] OTHER -> "cross"
StorageValid(s, listed) ==
  /\ PegConfirm(s).bps > 0 /\ PegConfirm(s).ms >= 0 /\ PegConfirm(s).most >= PegConfirm(s).ms
  /\ HubOf(s) \in Assets
  /\ \A a \in DOMAIN s.overrides :
       a \in Assets /\ s.overrides[a] \in Assets /\ a \notin listed

(* Calibration targets, and the cadences.                                  *)
TargetForPair(c, pair) == IF pair \in DOMAIN c.by_pair THEN c.by_pair[pair] ELSE c.target
TargetClassed(c, pair, class) ==
  IF pair \notin DOMAIN c.by_pair /\ class \in DOMAIN c.by_class
    THEN c.by_class[class] ELSE TargetForPair(c, pair)
Reconciles(e, y) == e # <<>> /\ y # <<>> => e = y
AggregationInterval(e, y) == OrElse(y, OrElse(e, DefaultInterval))
SigningIntervalValid(s, agg) == s > 0 /\ s <= agg /\ agg % s = 0
SigningInterval(o, agg) == OrElse(o, agg)

-----------------------------------------------------------------------------
(* NxrConfig: what the environment of a process says.  An environment maps *)
(* the variables that are set, by the field they fill, to their values: a  *)
(* path is the sequence of its components, a number <<n>>, or <<>> when    *)
(* its text does not parse.                                                *)
DefaultNumbers ==
  [listen_port |-> 9500, stale_threshold_ms |-> 10000, heartbeat_interval_ms |-> 1000,
   server_port |-> 40004, multicast_port_a |-> 40006, multicast_port_b |-> 40007,
   sink_port |-> 40010, anomaly_vol_ratio |-> 5, reject_min_providers |-> 2]

EnvOr(e, key, default) == IF key \in DOMAIN e THEN e[key] ELSE default
EnvOpt(e, key) == EnvOr(e, key, <<>>)
Together(f, g) == [k \in DOMAIN f \cup DOMAIN g |-> IF k \in DOMAIN f THEN f[k] ELSE g[k]]

RootDir(e) == EnvOr(e, "data_root", <<"data">>)
DataDir(e, key, name) == EnvOr(e, key, RootDir(e) \o <<name>>)
ConfigDir(e) == DataDir(e, "config_dir", "config")
EnvNumbersOf(e) == [k \in DOMAIN DefaultNumbers |-> OrElse(EnvOpt(e, k), DefaultNumbers[k])]
FromEnv(e) ==
  Together(EnvNumbersOf(e),
           [ticks_dir   |-> DataDir(e, "ticks_dir", "ticks"),
            bars_dir    |-> DataDir(e, "bars_dir", "bars"),
            indexes_dir |-> DataDir(e, "indexes_dir", "indexes"),
            ticker_params_path |-> EnvOr(e, "ticker_params_path", ConfigDir(e) \o <<"ticker-params.json">>),
            weight_refresh_ms  |-> EnvOpt(e, "weight_refresh_ms")])

(* data_root: the parent of the index directory; the root has no parent.   *)
DataRoot(cfg) == IF cfg.indexes_dir = <<>> THEN <<"data">> ELSE Front(cfg.indexes_dir)

(* A list in one variable is the sequence of its trimmed entries; the text *)
(* of a sink is the sequence of what its colons separate.                  *)
Blank == <<"">>
NonEmpty(list) ==
  FoldLeft(LAMBDA kept, s : IF s \in Range(list) \ {Blank} THEN Append(kept, s) ELSE kept, <<>>, list)
HostPort(s, port) ==
  IF Len(s) = 2 /\ s[1] # "" /\ s[2] \in DOMAIN PortText
    THEN [host |-> <<s[1]>>, port |-> PortText[s[2]]]
    ELSE [host |-> s, port |-> port]
SinkTargets(list, port) ==
  LET sinks == [i \in DOMAIN NonEmpty(list) |-> HostPort(NonEmpty(list)[i], port)]
  IN  IF sinks = <<>> THEN <<[host |-> Blank, port |-> port]>> ELSE sinks

-----------------------------------------------------------------------------
(* PipelineYml::load, and the boot of a process.  unpinned_clashes, in the *)
(* module Resolve, finds the assets of the roster that another class also  *)
(* holds and no pin settles; of the assets here these are the fiats.       *)
Absent == <<>>
Loads(y) ==
  /\ y.parses
  /\ y.assets \cap FxAssets = {}
  /\ ZGateValid(y.z_gate)
  /\ y.carry # Absent => CarryValid(y.carry[1])
  /\ y.basis # Absent => BasisGateValid(y.basis[1], y.ctrader.providers)
  /\ PriorsValid(y.ctrader)
  /\ HistoryUrlOk(y.history)
Accepted(y) == Loads(y) /\ StorageValid(y.storage, y.assets)

WriteFile(y) == /\ file' = y /\ verdict' = "none"
                /\ UNCHANGED <<running, policy, cadence, env_interval>>
CheckConfig == /\ verdict' = IF Accepted(file) THEN "ok" ELSE "refused"
               /\ UNCHANGED <<file, running, policy, cadence, env_interval>>

(* A file that does not load counts as one that names no interval.         *)
YamlInterval(y) == IF Loads(y) THEN y.interval ELSE <<>>
YamlSigning(y)  == IF Loads(y) THEN y.signing ELSE <<>>
ResolveIntervals ==
  LET agg == AggregationInterval(env_interval, YamlInterval(file))
      sig == SigningInterval(YamlSigning(file), agg) IN
  /\ cadence = <<>>
  /\ Reconciles(env_interval, YamlInterval(file)) /\ SigningIntervalValid(sig, agg)
  /\ cadence' = <<agg, sig>>
  /\ UNCHANGED <<file, verdict, running, policy, env_interval>>

CanInstall == policy = <<>>
Boot == /\ running = <<>> /\ Accepted(file) /\ CanInstall
        /\ running' = <<file>>
        /\ policy' = IF policy = <<>> THEN <<file.storage>> ELSE policy
        /\ UNCHANGED <<file, verdict, cadence, env_interval>>
StoragePolicy == /\ policy = <<>> /\ Accepted(file)
                 /\ policy' = <<file.storage>>
                 /\ UNCHANGED <<file, verdict, running, cadence, env_interval>>
Exit == /\ running' = <<>> /\ policy' = <<>> /\ cadence' = <<>>
        /\ UNCHANGED <<file, verdict, env_interval>>

CfgInit == /\ file \in Files /\ verdict = "none" /\ running = <<>> /\ policy = <<>>
           /\ cadence = <<>> /\ env_interval \in Opt(EnvIntervals)
CfgNext == (\E y \in Replacements : WriteFile(y)) \/ CheckConfig \/ ResolveIntervals
           \/ Boot \/ StoragePolicy \/ Exit

-----------------------------------------------------------------------------
CfgTypeOK == /\ FileTyped(file) /\ verdict \in {"none", "ok", "refused"}
             /\ running # <<>> => running = <<running[1]>> /\ FileTyped(running[1])
             /\ policy # <<>> => policy = <<policy[1]>>
             /\ cadence # <<>> => cadence \in Nat \X Nat
             /\ env_interval \in Opt(EnvIntervals)

(* The inductive invariant: a process that runs has booted from a file     *)
(* that check accepts and installed its policy, and the cadence it         *)
(* resolved is a cadence its environment allows.                           *)
CfgInv ==
  /\ CfgTypeOK
  /\ running # <<>> => Accepted(running[1]) /\ policy = <<running[1].storage>>
  /\ cadence # <<>> => /\ SigningIntervalValid(cadence[2], cadence[1])
                       /\ env_interval # <<>> => cadence[1] = env_interval[1]

(* shard.rs:1131: "a denomination names directories, so it is fixed for    *)
(* the process".  A process that booted stores by the file it booted from, *)
(* whatever replaced that file since and whoever asked for the policy      *)
(* first; and every row of the index falls on a signing tick.              *)
OnePolicy ==
  /\ running # <<>> => policy = <<running[1].storage>>
  /\ cadence # <<>> => /\ cadence[1] % cadence[2] = 0
                       /\ env_interval # <<>> => cadence[1] = env_interval[1]

(* pipeline_config.rs:1652: what is served, what is only state, and who    *)
(* observes it cannot drift apart; a section that is off observes nothing. *)
ManifestsPartition(y) ==
  /\ ConfiguredSymbols(y) \cap ConfiguredPerpSymbols(y) = {}
  /\ ConfiguredSymbols(y) \cup ConfiguredPerpSymbols(y) = Declared(y)
  /\ Declared(y) # {} => RelayProviders(y) # {}
  /\ ~y.onchain.enabled => RelayProviders(y) = DOMAIN y.oracles \cup DOMAIN y.ctrader.providers

(* pipeline_config.rs:2565: every asset has one stored series, in the      *)
(* quote that names its directory, unless that quote is the asset itself;  *)
(* a pair that is stored upside down is the inverse of one that is stored. *)
(* No pair is stored both ways, unless the hub itself is overridden, or    *)
(* the quote of an override is: validate accepts those.                    *)
PlainOverrides(s) == \A a \in DOMAIN s.overrides :
                    a # HubOf(s) /\ s.overrides[a] \notin DOMAIN s.overrides
StorageCoherent(s) ==
  /\ \A a \in Assets :
       {q \in Assets : Orientation(s, a, q) = "direct"} = {StorageQuoteFor(s, a)} \ {a}
  /\ \A b, q \in Assets :
       /\ Orientation(s, b, q) = "inverted" => Orientation(s, q, b) = "direct"
       /\ (Orientation(s, b, q) = "direct" /\ Orientation(s, q, b) = "direct") => ~PlainOverrides(s)
  /\ \A k \in DOMAIN s.parity :
       LET pair == StoragePair(s, k) IN
       (Len(k) = 1 /\ pair[1] # pair[2]) => Orientation(s, pair[1], pair[2]) = "direct"

(* config.rs:222: "single source of truth".  The data root read back from  *)
(* a config is the one it was built from, unless the index directory was   *)
(* moved by itself; whatever else is not moved is under it; and a number   *)
(* that does not parse is a number that is not set.                        *)
EnvMeans(e) ==
  LET cfg == FromEnv(e)
      moved(key) == key \in DOMAIN e IN
  /\ ~moved("indexes_dir") =>
       /\ DataRoot(cfg) = RootDir(e)
       /\ \A key \in {"ticks_dir", "bars_dir"} : moved(key) \/ IsPrefix(DataRoot(cfg), cfg[key])
       /\ moved("config_dir") \/ moved("ticker_params_path")
          \/ IsPrefix(DataRoot(cfg), cfg.ticker_params_path)
  /\ moved("ticker_params_path") \/ Front(cfg.ticker_params_path) = ConfigDir(e)
  /\ cfg = FromEnv([k \in {k \in DOMAIN e : e[k] # <<>> \/ k \notin DOMAIN DefaultNumbers} |-> e[k]])

(* config.rs:233: every entry is a target, in order, the first of them the *)
(* primary, whether or not its port is spelled out; and an entry without a *)
(* legible port keeps its whole text as the host.                          *)
SinksMean(list, port) ==
  LET sinks == SinkTargets(list, port)
      named == NonEmpty(list) IN
  /\ named # <<>> => Len(sinks) = Len(named)
  /\ \A i \in DOMAIN named :
       /\ IsPrefix(sinks[i].host, named[i])
       /\ sinks[i].host # named[i] => PortText[Last(named[i])] = sinks[i].port
       /\ \A text \in DOMAIN PortText :
            sinks[i].host[1] # "" /\ Len(sinks[i].host) = 1 /\ PortText[text] = sinks[i].port =>
              HostPort(sinks[i].host \o <<text>>, 0) = sinks[i]

(* A config a process runs with means what it says.                        *)
AcceptedMeans ==
  running # <<>> =>
    LET y == running[1] IN
    /\ ManifestsPartition(y)
    /\ StorageCoherent(y.storage)
    /\ SweepSpares(y.signed) /\ LegsResolve(y.signed) /\ FormatsPartition(y.signed)
    /\ \A n \in DOMAIN y.ctrader.providers :
         LET w == PriorWeightOf(y.ctrader, n) IN w # <<>> => 0 < w[1] /\ w[1] <= 100
    /\ \A p \in DOMAIN y.cal.by_pair, c \in Classes30 :
         TargetForPair(y.cal, p) = TargetClassed(y.cal, p, c)
    /\ BlacklistSet(y.blacklist) \cap {""} = {}
=============================================================================

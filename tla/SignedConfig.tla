---------------------------- MODULE SignedConfig ----------------------------
(***************************************************************************)
(* The signed_quotes section of pipeline_config.rs: what a declared or     *)
(* absent key resolves to.  An optional key is a sequence of at most one   *)
(* value.  Labels and formats are members of small sets; a spelling is     *)
(* <<case, name>>, which Upper takes to its trimmed upper-case name.       *)
(*                                                                         *)
(* LegsOnly is a wrong version of the definition that follows it: nothing  *)
(* uses it, and the property is checked to fail with it.                   *)
(***************************************************************************)
EXTENDS Sigma

Opt(S) == {<<>>} \cup {<<x>> : x \in S}
OrElse(o, d) == IF o = <<>> THEN d ELSE o[1]
Upper(s) == s[2]
Most(a, b) == IF a > b THEN a ELSE b
Low16(n)  == n % 65536
Sat16(n)  == IF n > 65535 THEN 65535 ELSE n

-----------------------------------------------------------------------------
(* Record layouts of a signing domain.                                     *)
Formats == {"idx24", "ticker22", "packedV2", "packedV4", "packedV5", "packedP8"}
Default == "ticker22"
Refused == "refused"
Spelt == [packed_v2 |-> "packedV2", packed_v4 |-> "packedV4",
          packed_v5 |-> "packedV5", packed_p8 |-> "packedP8"]
ParseFormat(s) ==
  IF s \in Formats THEN s ELSE IF s \in DOMAIN Spelt THEN Spelt[s] ELSE Refused

(* SignedDomainYml, SignedFeedYml and SignedQuotesYml, by the keys that    *)
(* the rules below read.                                                   *)
Domains(Fmts, Names) == [oracle : Names, chain : {0, 1}, format : Opt(Fmts)]
Feeds(Syms, Spans, Ests) ==
  [symbol : Syms, window_bars : Opt(Spans), estimators : Opt(Ests), bar_min : Opt({<<30>>, <<60, 30>>})]
DomainKeys(Fmts, Names) ==
  [format : Opt(Fmts), oracle : Opt(Names), chain : Opt({1}), default : Opt(Names),
   domains : {<<>>} \cup [{"a"} -> Domains(Fmts, Names)] \cup [{"a", "b"} -> Domains(Fmts, Names)]]
SigmaKeys(Windows, Bars30, Fs) ==
  [windows : Opt(Windows), lookback : Opt(Bars30), feeds : BoundedSeq(Fs, 2)]
RoleKeys(Days) ==
  [role : Opt({"light", "full"}), sign_only : BOOLEAN, retention_days : Opt(Days)]

(* What serde makes of any file: the keys have their types.                *)
OptNat(o) == o = <<>> \/ o[1] \in Nat
SignedTyped(q) ==
  /\ IsFiniteSet(DOMAIN q.domains) /\ IsFiniteSet(DOMAIN q.feeds)
  /\ q.windows # <<>> => q.windows[1] \in Seq(Nat)
  /\ OptNat(q.lookback) /\ OptNat(q.retention_days)
  /\ \A i \in DOMAIN q.feeds : OptNat(q.feeds[i].window_bars)

-----------------------------------------------------------------------------
DomainMap(q) ==
  CASE q.domains # <<>> -> q.domains
    [] q.domains = <<>> /\ q.oracle = <<>> -> <<>>
    [] q.domains = <<>> /\ q.oracle # <<>> ->
         [l \in {"default"} |->
            [oracle |-> q.oracle[1], chain |-> OrElse(q.chain, 0), format |-> <<>>]]
RecordFormatFor(q, d) ==
  ParseFormat(OrElse(d.format, OrElse(q.format, Default)))
DomainsInFormat(q, f) ==
  LET m == DomainMap(q) IN
  IF \E l \in DOMAIN m : RecordFormatFor(q, m[l]) = Refused THEN <<>>
  ELSE <<{l \in DOMAIN m : RecordFormatFor(q, m[l]) = f}>>
DefaultDomainLabel(q) ==
  IF q.default # <<>> THEN q.default
  ELSE IF Cardinality(DOMAIN DomainMap(q)) = 1 THEN SetToSeq(DOMAIN DomainMap(q)) ELSE <<>>

(* The lookback windows in minutes, and a feed's legs over them.           *)
DefaultWindows == <<60, 1440, 10080>>
SigmaWindows(q) ==
  CASE q.windows # <<>> -> q.windows[1]
    [] q.windows = <<>> /\ q.lookback # <<>> -> <<AtLeast1(q.lookback[1]) * 30>>
    [] q.windows = <<>> /\ q.lookback = <<>> -> DefaultWindows
StaleSigmaAlias(q) == q.windows # <<>> /\ q.lookback # <<>>
HasLegOverrides(f) == f.estimators # <<>> \/ f.bar_min # <<>>
At(o, i, d) == IF o # <<>> /\ i \in DOMAIN o[1] THEN o[1][i] ELSE d
ResolveSigmaLegs(ws, f) ==
  [i \in DOMAIN ws |-> [window |-> ws[i], width |-> At(f.bar_min, i, 30),
                        estimator |-> At(f.estimators, i, "parkinson")]]

(* The role, and how long it keeps shards.                                 *)
NodeRole(q) == OrElse(q.role, IF q.sign_only THEN "light" ELSE "full")
IndexRetentionDays(q) ==
  OrElse(q.retention_days, IF NodeRole(q) = "light" THEN 1 ELSE 365)
SweepArmed(q) == q.retention_days # <<>>
ScanDays(q) ==
  LET spans == {OrElse(q.feeds[i].window_bars, 0) : i \in DOMAIN q.feeds}
  IN  Low16((Max({0} \cup spans) * 30 + 1439) \div 1440)
LegsOnly(q) == Sat16(Low16(MaxDays(SigmaWindows(q), 30)) + 1)
BarsRetentionDays(q) ==
  Sat16(Most(Low16(MaxDays(SigmaWindows(q), 30)), ScanDays(q)) + 1)
SweepBarsDays(q) ==
  IF NodeRole(q) = "light" THEN BarsRetentionDays(q)
  ELSE Most(BarsRetentionDays(q), IndexRetentionDays(q))

(* Assets: the blacklist as the gates read it, the symbols to aggregate.   *)
BlacklistSet(list) == {Upper(a) : a \in Range(list)} \ {""}
HistoryUpstream(url) == url # <<>> /\ url[1] # ""
HistoryUrlOk(url) == HistoryUpstream(url) => url[1] \in {"http", "https"}

-----------------------------------------------------------------------------
(* pipeline_config.rs:889: one rule for a domain's layout.  The layouts    *)
(* partition the domains, or no domain arms; a sole domain is the default. *)
FormatsPartition(q) ==
  LET m == DomainMap(q) IN
  /\ (\A f \in Formats : DomainsInFormat(q, f) # <<>>) =>
       \A l \in DOMAIN m : Cardinality({f \in Formats : l \in DomainsInFormat(q, f)[1]}) = 1
  /\ (\E f \in Formats : DomainsInFormat(q, f) = <<>>) =>
       \A f \in Formats : DomainsInFormat(q, f) = <<>>
  /\ (Cardinality(DOMAIN m) = 1 /\ q.default = <<>>) => DefaultDomainLabel(q)[1] \in DOMAIN m

(* pipeline_config.rs:1002: the sweep never deletes the bars that the      *)
(* longest sigma leg, or the widest scan a feed asks for, has to read, as  *)
(* long as both fit the u16 of days; it never runs unless an operator      *)
(* named a retention.                                                      *)
Days16 == 65534
InDays16(q) ==
  /\ \A i \in DOMAIN SigmaWindows(q) : SigmaWindows(q)[i] <= Days16 * 1440
  /\ \A i \in DOMAIN q.feeds : OrElse(q.feeds[i].window_bars, 0) <= Days16 * 48
SweepSpares(q) ==
  LET days(bars) == (bars * 30 + 1439) \div 1440 IN
  /\ InDays16(q) =>
       /\ \A i \in DOMAIN SigmaWindows(q) :
            LET leg == [window |-> SigmaWindows(q)[i], width |-> 30] IN
            SweepBarsDays(q) * 1440 >= LegBars(leg) * 30 + 1440
       /\ \A i \in DOMAIN q.feeds :
            SweepBarsDays(q) >= days(OrElse(q.feeds[i].window_bars, 0)) + 1
  /\ NodeRole(q) = "full" => SweepBarsDays(q) >= IndexRetentionDays(q)
  /\ q.retention_days = <<>> => ~SweepArmed(q)

(* A feed that declares nothing has the default leg at every window.       *)
LegsResolve(q) ==
  \A i \in DOMAIN q.feeds :
    LET legs == ResolveSigmaLegs(SigmaWindows(q), q.feeds[i]) IN
    /\ Len(legs) = Len(SigmaWindows(q))
    /\ ~HasLegOverrides(q.feeds[i]) =>
         \A j \in DOMAIN legs : legs[j].width = 30 /\ legs[j].estimator = "parkinson"
    /\ StaleSigmaAlias(q) => \A j \in DOMAIN legs : legs[j].window = q.windows[1][j]
=============================================================================

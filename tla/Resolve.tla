------------------------------ MODULE Resolve -------------------------------
(***************************************************************************)
(* resolve.rs, ticker.rs, asset_class.rs and series_alias.rs: from a       *)
(* symbol to the ids of two assets, and who admits, classifies and files   *)
(* that ticker.                                                            *)
(*                                                                         *)
(* A symbol is a sequence of atoms: lower-case syllables, delimiters and   *)
(* the perp mark.  The asset tables are a sequence of entries in load      *)
(* order; the similarity of two names that are not equal is a constant of  *)
(* the model, and its algorithm is defined by itself at the end.           *)
(*                                                                         *)
(* LastWriteWins is a wrong version of the definition that follows it:     *)
(* nothing uses it, and the property is checked to fail with it.           *)
(***************************************************************************)
EXTENDS Integers, SequencesExt

CONSTANTS
  Table,             \* entries [name, aliases, class, id] in load order
  Pins,              \* class-pins.csv: key -> class
  Wraps,             \* <<wrap, underlying, parity, shares its series>>
  Similar(_, _)      \* similarity in percent of two keys that differ

Classes6 == <<"EQ", "SD", "FX", "CM", "CR", "IP">>    \* ordered by their wire id
ClassRank(c) == CHOOSE i \in DOMAIN Classes6 : Classes6[i] = c
AnyClass == "any"
Sigils == {"^", ".", "$", "#", "_"}
Delims == {"-", "_", ".", "$", "^", "#"}
Letters == {"us", "m", "c", "z", "b", "r", "d", "i"}
Words == {"usx", "mini", "micro", "cash", "spot", "ecn", "zero"}
Punct == (Delims \ {"-"}) \cup {"/"}
Perp == ":PERP"
UsdT == <<"usd", "t">>
UsdC == <<"usd", "c">>
Majors == <<UsdT, UsdC, <<"usd">>, <<"eur">>, <<"jpy">>, <<"btc">>, <<"eth">>>>
CryptoMajors == {UsdT, UsdC, <<"btc">>, <<"eth">>}

First(options) ==
  IF \A i \in DOMAIN options : options[i] = <<>> THEN <<>>
  ELSE SelectSeq(options, LAMBDA o : o # <<>>)[1]
LastAt(s, d) == LET at == {i \in DOMAIN s : s[i] = d} IN
                IF at = {} THEN 0 ELSE CHOOSE i \in at : \A j \in at : j <= i
DropEnd(s, set) == LET keep == {i \in DOMAIN s : s[i] \notin set} IN
                   SubSeq(s, 1, IF keep = {} THEN 0 ELSE CHOOSE i \in keep : \A j \in keep : j <= i)
DropStart(s, set) == Reverse(DropEnd(Reverse(s), set))

-----------------------------------------------------------------------------
(* Names.                                                                  *)
Business == {"inc", "corp", "ltd", "group"}
NormalizeAssetName(s) ==
  LET past_the(t) == IF t # <<>> /\ t[1] = "the" THEN Tail(t) ELSE t
      bare(t) == IF Len(t) > 1 /\ Last(t) \in Business THEN Front(t) ELSE t
  IN  SelectSeq(bare(past_the(DropEnd(s, Punct))), LAMBDA a : a \notin Punct)
StripOnce(s) ==
  CASE Len(s) >= 2 /\ s[Len(s) - 1] \in Delims /\ Last(s) \in Letters -> SubSeq(s, 1, Len(s) - 2)
    [] Len(s) > 1 /\ (Last(s) \in Words \/ Last(s) \in Delims) -> Front(s)
    [] OTHER -> s
StripTickerSuffixes(s) ==
  StripOnce(StripOnce(IF s # <<>> /\ s[1] \in Sigils THEN Tail(s) ELSE s))

(* The indexes built at load: the winner of a key is the lowest by rank    *)
(* (0 for the name or the first alias), then class, then id.               *)
ExactRank(e, key) ==
  IF e.name = key \/ (e.aliases # <<>> /\ e.aliases[1] = key) THEN 0
  ELSE IF key \in Range(e.aliases) THEN 1 ELSE 2
ExactKey(e, key) == <<ExactRank(e, key), ClassRank(e.class), e.id>>
Less3(a, b) == \/ a[1] < b[1]
               \/ a[1] = b[1] /\ a[2] < b[2]
               \/ a[1] = b[1] /\ a[2] = b[2] /\ a[3] < b[3]
LastWriteWins(e, won, key) == TRUE
Outranks(e, won, key) == won = <<>> \/ Less3(ExactKey(e, key), ExactKey(won[1], key))
Holder(order, key) ==
  FoldLeft(LAMBDA won, e : IF ExactRank(e, key) < 2 /\ Outranks(e, won, key) THEN <<e>> ELSE won,
           <<>>, order)
OfClass(order, c) == SelectSeq(order, LAMBDA e : c \in {AnyClass, e.class})
Collides(order) ==
  \E i, j \in DOMAIN order : i < j /\ order[i].class = "CR" /\ order[j].class = "CR"
    /\ \E key \in {order[j].name} \cup Range(order[j].aliases) :
         Holder(SubSeq(order, 1, j - 1), key) = <<order[i]>>

(* find: an exact holder, else the most similar entry.                     *)
Likeness(a, b) == IF a = b THEN 100 ELSE Similar(a, b)
BestLikeness(e, q) == Max({Likeness(q, k) : k \in {e.name} \cup Range(e.aliases)})
Closer(e, f, q) ==
  LET tied(x) == <<Len(x.name), ClassRank(x.class), x.id>>
      ahead(a, b) == a > b \/ (a = b /\ Less3(tied(e), tied(f)))
  IN  ahead(BestLikeness(e, q), BestLikeness(f, q))
Match(e, c) == <<[asset |-> e, confidence |-> c]>>
Fuzzy(order, q, least, class) ==
  LET better(w, e) == IF BestLikeness(e, q) >= least /\ (w = <<>> \/ Closer(e, w[1], q)) THEN <<e>> ELSE w
      matched(won) == IF won = <<>> THEN <<>> ELSE Match(won[1], BestLikeness(won[1], q))
  IN  matched(FoldLeft(better, <<>>, OfClass(order, class)))
Exact(order, key, class) ==
  LET held(all, own) == CASE all # <<>> /\ class \in {AnyClass, all[1].class} -> Match(all[1], 100)
                          [] own # <<>> /\ class # AnyClass /\ all[1].class # class -> Match(own[1], 100)
                          [] OTHER -> <<>>
  IN  IF key = <<>> THEN <<>> ELSE held(Holder(order, key), Holder(OfClass(order, class), key))
FindIn(order, query, least, class) ==
  LET by(exact, norm) == First(<<Exact(order, exact, class), Exact(order, norm, class),
                                 Fuzzy(order, norm, least, class)>>)
  IN  IF query = <<>> \/ OfClass(order, class) = <<>> THEN <<>>
      ELSE by(NormalizeAssetName(query), NormalizeAssetName(StripTickerSuffixes(query)))
Find(query, least, class) == FindIn(Table, query, least, class)

PinnedClass(token) ==
  IF token \in DOMAIN Pins /\ Holder(OfClass(Table, Pins[token]), token) # <<>>
    THEN Pins[token] ELSE AnyClass
UnpinnedClashes(class, symbols) ==
  {s \in symbols : LET key == NormalizeAssetName(s) IN
     /\ Holder(OfClass(Table, class), key) # <<>>
     /\ PinnedClass(s) # class
     /\ Holder(Table, key)[1].class # class}

-----------------------------------------------------------------------------
(* Tickers.                                                                *)
QuoteClass(token) == IF token \in CryptoMajors THEN "CR" ELSE "FX"
ResolveQuoteToken(token) ==
  First(<<IF token \in Range(Majors) THEN Find(token, 95, QuoteClass(token))
          ELSE Find(token, 100, "FX"),
          Find(token, 95, AnyClass)>>)
Split(quote, rest) == IF quote = <<>> THEN <<>> ELSE <<[quote |-> quote[1].asset, rest |-> rest]>>
AtDelim(s, d) ==
  LET trim(t) == DropStart(DropEnd(t, {"/", "_", "-"}), {"/", "_", "-"})
      sides(base, quote) == IF <<>> \in {base, quote} THEN <<>> ELSE Split(ResolveQuoteToken(quote), base)
      cut(at) == IF at = 0 THEN <<>>
                 ELSE sides(trim(SubSeq(s, 1, at - 1)), trim(SubSeq(s, at + 1, Len(s))))
  IN  cut(LastAt(s, d))
AtEnd(s, q) ==
  LET rest == DropEnd(SubSeq(s, 1, Len(s) - Len(q)), {"/", "_", "."}) IN
  IF ~IsSuffix(q, s) \/ Len(s) <= Len(q) \/ rest = <<>> THEN <<>> ELSE Split(ResolveQuoteToken(q), rest)
AtStart(s, q) ==
  LET rest == DropStart(SubSeq(s, Len(q) + 1, Len(s)), {"/", "_", "."})
      either(own) == IF own = <<>> THEN <<>> ELSE First(<<Split(ResolveQuoteToken(rest), q), Split(own, rest)>>)
  IN  IF ~IsPrefix(q, s) \/ Len(s) <= Len(q) \/ rest = <<>> THEN <<>> ELSE either(ResolveQuoteToken(q))
DetectQuoteCurrency(s) ==
  First(<<AtDelim(s, "/"), AtDelim(s, "_"), AtDelim(s, "-")>>
        \o [i \in 1 .. 2 * Len(Majors) |-> IF i % 2 = 1 THEN AtEnd(s, Majors[(i + 1) \div 2])
                                           ELSE AtStart(s, Majors[i \div 2])])

Ticker(type, b, q) == <<[type |-> type, base |-> <<b.class, b.id>>, quote |-> <<q.class, q.id>>, sub |-> 0]>>
IsCryptoQuote(q) == q.class = "CR" /\ \E m \in CryptoMajors : m \in Range(q.aliases)
Least(s) == IF Len(s) = 1 THEN 95 ELSE 90    \* one atom is four letters at most
BaseOf(rest, crypto, pinned) ==
  IF ~crypto THEN Find(rest, Least(rest), pinned)
  ELSE First([i \in 1 .. 5 |-> Find(rest, Least(rest), <<"CR", "FX", "CM", "IP", "EQ">>[i])])
UsdAsset == Find(<<"usd">>, 95, "FX")
ResolveTicker(symbol, type) ==
  LET pin(token) == IF StripTickerSuffixes(symbol) = symbol THEN PinnedClass(token) ELSE AnyClass
      minted(base, quote) == IF base = <<>> THEN <<>> ELSE Ticker(type, base[1].asset, quote)
      read(cleaned, found) ==
        IF found = <<>> THEN minted(Find(cleaned, 90, pin(cleaned)), UsdAsset[1].asset)
        ELSE minted(BaseOf(found[1].rest, IsCryptoQuote(found[1].quote), pin(found[1].rest)), found[1].quote)
  IN  read(StripTickerSuffixes(symbol), DetectQuoteCurrency(StripTickerSuffixes(symbol)))

SplitPerp(symbol) ==
  IF symbol # <<>> /\ Last(symbol) = Perp THEN <<Front(symbol), "PERP">> ELSE <<symbol, "SPOT">>
IsPerpSymbol(symbol) == SplitPerp(symbol)[2] = "PERP"
SixLetters(s) == Len(s) = 2 /\ \A i \in DOMAIN s : s[i] \in {"usd", "eur", "jpy", "btc", "eth", "sui"}
ResolveFx6(s, type) ==
  IF ~SixLetters(s) THEN <<>>
  ELSE LET both(b, q) == IF <<>> \in {b, q} THEN <<>> ELSE Ticker(type, b[1].asset, q[1].asset)
       IN  both(Find(<<s[1]>>, 90, "FX"), Find(<<s[2]>>, 90, "FX"))
ResolveUncached(symbol) ==
  LET p == SplitPerp(symbol) IN First(<<ResolveFx6(p[1], p[2]), ResolveTicker(p[1], p[2])>>)

-----------------------------------------------------------------------------
(* Who may use a ticker, how it is classed, where it is filed.             *)
AssetById(a) == SelectSeq(Table, LAMBDA e : <<e.class, e.id>> = a)
TickerAssets(t) == <<AssetById(t.base), AssetById(t.quote)>>
AssetBlacklisted(e, list) == {e.name, <<e.class, e.id>>} \cap list # {} \/ Range(e.aliases) \cap list # {}
TickerAdmissible(t, list) ==
  LET sides == TickerAssets(t)
      bad(s) == s = <<>> \/ AssetBlacklisted(Last(s), list) IN
  CASE t.type # "SPOT" \/ t.sub # 0 -> "Shape"
    [] t.type = "SPOT" /\ t.sub = 0 /\ bad(sides[1]) -> "Base"
    [] t.type = "SPOT" /\ t.sub = 0 /\ ~bad(sides[1]) /\ bad(sides[2]) -> "Quote"
    [] OTHER -> "ok"

PegAsset(a) == LET w == {w \in Wraps : w[1] = a /\ w[3]} IN IF w = {} THEN a ELSE (CHOOSE x \in w : TRUE)[2]
IsParityWrap(t) == PegAsset(t.base) # t.base
SeriesCanonical(t) ==
  LET w == {w \in Wraps : w[1] = t.base /\ w[4]} IN
  IF w = {} THEN t ELSE [t EXCEPT !.base = (CHOOSE x \in w : TRUE)[2]]

-----------------------------------------------------------------------------
(* jaro_winkler_similarity of two sequences of characters, as a fraction,  *)
(* and the bound that lets the scan skip it.                               *)
Taken(c1, c2) ==
  LET most == IF Len(c1) > Len(c2) THEN Len(c1) ELSE Len(c2)
      window == IF most <= 2 THEN 0 ELSE most \div 2 - 1
      step(m, i) ==
        LET free == {j \in i - window .. i + window : j \in DOMAIN c2 \ m[2] /\ c1[i] = c2[j]} IN
        IF free = {} THEN m
        ELSE <<m[1] \cup {i}, m[2] \cup {CHOOSE j \in free : \A k \in free : j <= k}>>
  IN  FoldLeft(step, <<{}, {}>>, [i \in DOMAIN c1 |-> i])
Matched(c, at) == LET s == SetToSortSeq(at, <) IN [i \in DOMAIN s |-> c[s[i]]]
Jaro(c1, c2) ==
  LET t == Taken(c1, c2)
      m == Cardinality(t[1])
      a == Matched(c1, t[1])
      b == Matched(c2, t[2])
      moved == Cardinality({i \in DOMAIN a : a[i] # b[i]}) IN
  IF m = 0 THEN <<0, 1>>
  ELSE <<2 * m * m * (Len(c1) + Len(c2)) + Len(c1) * Len(c2) * (2 * m - moved),
         6 * Len(c1) * Len(c2) * m>>
CommonPrefix(c1, c2) ==
  Cardinality({n \in 1 .. 4 : n <= Len(c1) /\ n <= Len(c2) /\ SubSeq(c1, 1, n) = SubSeq(c2, 1, n)})
Boosted(j, prefix) == <<10 * j[1] + prefix * (j[2] - j[1]), 10 * j[2]>>
JaroWinkler(c1, c2) ==
  IF c1 = c2 THEN <<1, 1>> ELSE IF <<>> \in {c1, c2} THEN <<0, 1>>
  ELSE Boosted(Jaro(c1, c2), CommonPrefix(c1, c2))
JwUpperBound(c1, c2) ==
  LET shared == Cardinality({i \in DOMAIN c2 : c2[i] \in Range(c1)})
      m == CHOOSE n \in {Len(c1), Len(c2), shared} :
             n <= Len(c1) /\ n <= Len(c2) /\ n <= shared
  IN  Boosted(<<m * (Len(c1) + Len(c2)) + Len(c1) * Len(c2), 3 * Len(c1) * Len(c2)>>,
              CommonPrefix(c1, c2))

-----------------------------------------------------------------------------
(* resolve.rs:313: the winner of a lookup never depends on the order the   *)
(* tables were loaded in.                                                  *)
LoadOrderFree(order, query, class) ==
  FindIn(order, query, 90, class) = FindIn(Table, query, 90, class)

(* resolve.rs:877: a symbol that resolves is minted in the one shape the   *)
(* gates admit, its perp in none; a crypto quote never lands a crypto      *)
(* asset on a company of the same name; what load accepts as the crypto    *)
(* universe resolves in it; and the series of a ticker has one name.       *)
Resolves(symbol) ==
  \A t \in Range(ResolveUncached(symbol)) :
    /\ TickerAdmissible(t, {}) = IF IsPerpSymbol(symbol) THEN "Shape" ELSE "ok"
    /\ TickerAdmissible(t, Range(AssetById(t.base)[1].aliases)) # "ok"
    /\ SeriesCanonical(SeriesCanonical(t)) = SeriesCanonical(t)
    /\ SeriesCanonical(t) # t => TickerAdmissible(SeriesCanonical(t), {}) # "Base" /\ IsParityWrap(t)
CryptoKeepsItsName(asset, quote) ==
  Holder(OfClass(Table, "CR"), asset) # <<>> =>
    LET kept(r) ==
          /\ quote \in CryptoMajors => r # <<>> /\ r[1].base[1] = "CR" /\ r[1].quote[1] = "CR"
          /\ (UnpinnedClashes("CR", {asset}) = {} /\ quote = <<"usd">>) => r # <<>> /\ r[1].base[1] = "CR"
    IN  kept(ResolveUncached(asset \o <<"/">> \o quote))

(* resolve.rs:185: the skip is conservative.                               *)
SkipIsConservative(c1, c2) ==
  (c1 # <<>> /\ c2 # <<>>) =>
    LET s == JaroWinkler(c1, c2)
        u == JwUpperBound(c1, c2) IN s[1] * u[2] <= u[1] * s[2]

-----------------------------------------------------------------------------
(* ticker.rs Memo: the bounded memo of answers, shared by threads.  The    *)
(* map and its counter are two things: each step is one access to one.     *)
CONSTANTS
  Answer(_),           \* what the resolver says of a symbol
  Threads, Symbols,    \* callers, and what they ask
  LongSymbols,         \* symbols too long to be kept
  MemoCap, MaxCalls    \* the cap; a bound of the model

ASSUME MemoAssumption ==
  MemoCap \in Nat \ {0} /\ MaxCalls \in Nat /\ IsFiniteSet(Threads)

VARIABLES map, len, at, asked, calls
memoVars == <<map, len, at, asked, calls>>

Storable(s) == s \notin LongSymbols
Go(t, step) == at' = [at EXCEPT ![t] = step]

(* A call: a hit answers at once.                                          *)
Miss(t, s) == /\ at[t] = "idle" /\ calls < MaxCalls /\ s \notin DOMAIN map
              /\ Storable(s)
              /\ asked' = [asked EXCEPT ![t] = s] /\ calls' = calls + 1
              /\ Go(t, "check") /\ UNCHANGED <<map, len>>
CheckCap(t) == /\ at[t] = "check"
               /\ Go(t, IF len >= MemoCap THEN "clear" ELSE "insert")
               /\ UNCHANGED <<map, len, asked, calls>>
ClearMap(t) == /\ at[t] = "clear" /\ map' = <<>>
               /\ Go(t, "zero") /\ UNCHANGED <<len, asked, calls>>
ZeroLen(t) == /\ at[t] = "zero" /\ len' = 0
              /\ Go(t, "insert") /\ UNCHANGED <<map, asked, calls>>
Stored(t) == Answer(asked[t])
InsertEntry(t) ==
  /\ at[t] = "insert"
  /\ map' = [s \in DOMAIN map \cup {asked[t]} |-> IF s = asked[t] THEN Stored(t) ELSE map[s]]
  /\ Go(t, IF asked[t] \in DOMAIN map THEN "idle" ELSE "count")
  /\ UNCHANGED <<len, asked, calls>>
CountEntry(t) == /\ at[t] = "count" /\ len' = len + 1
                 /\ Go(t, "idle") /\ UNCHANGED <<map, asked, calls>>

MemoInit == /\ map = <<>> /\ len = 0 /\ calls = 0
            /\ at = [t \in Threads |-> "idle"]
            /\ asked = [t \in Threads |-> CHOOSE s \in Symbols : TRUE]
MemoNext == \E t \in Threads :
  \/ \E s \in Symbols : Miss(t, s)
  \/ CheckCap(t) \/ ClearMap(t) \/ ZeroLen(t) \/ InsertEntry(t) \/ CountEntry(t)
MemoSpec == MemoInit /\ [][MemoNext]_memoVars

-----------------------------------------------------------------------------
(* An answer is the resolver's whatever was cleared in between.  The memo  *)
(* outgrows its cap not by the number of threads (ticker.rs:142): threads  *)
(* that have cleared it and not yet zeroed the count forget, one after the *)
(* other, what those before them let in, and the j-th lets in cap - 1 + j. *)
(* RoomFor(k) is twice the sum of that over k threads.                     *)
RoomFor(k) == k * (2 * MemoCap - 1 + k)
MemoTrue ==
  /\ \A s \in DOMAIN map : map[s] = Answer(s) /\ Storable(s)
  /\ 2 * Cardinality(DOMAIN map) <= RoomFor(Cardinality(Threads))

(* The inductive invariant: what the threads that are not about to zero    *)
(* the count can have let in, and what the count knows of it.              *)
MemoSteps == {"idle", "check", "clear", "zero", "insert", "count"}
Doing(step) == {t \in Threads : at[t] = step}
Heads(step) == Cardinality(Doing(step))
Roaming == Cardinality(Threads \ Doing("zero"))
MemoInv ==
  /\ at \in [Threads -> MemoSteps] /\ DOMAIN asked = Threads /\ len \in Nat
  /\ IsFiniteSet(DOMAIN map) /\ MemoTrue
  /\ \A t \in Threads : at[t] # "idle" => Storable(asked[t])
  /\ 2 * (Cardinality(DOMAIN map) + Heads("insert")) <= RoomFor(Roaming)
  /\ Roaming > 0 =>
       2 * Cardinality(DOMAIN map) <= RoomFor(Roaming - 1) + 2 * (len + Heads("count"))
=============================================================================

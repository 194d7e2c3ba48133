----------------------------- MODULE HistoryCall ----------------------------
(***************************************************************************)
(* The history request of the three clients (client.rs, ts/src/client.ts,  *)
(* python ergo.py and http.rs): what a ticker, a base, a quote and a kind  *)
(* given in any form become, and how the body is cut into records.         *)
(*                                                                         *)
(* A text is a sequence of names and separators, trimmed and upper-case; a *)
(* request is <<path, query>>, or Refused.  0 is an option not given.      *)
(*                                                                         *)
(* And the plan errors of the API (errors.rs, ts/src/errors.ts, python     *)
(* errors.py), and what each client takes for one.                         *)
(*                                                                         *)
(* FirstSeparator is a wrong version of the definition that follows it; no *)
(* operator uses it, and the property is checked to fail with it.          *)
(***************************************************************************)
EXTENDS Integers, Sequences, SequencesExt, FiniteSetsExt

Separators   == {"/", "-", "_"}
DefaultQuote == <<"USDT">>
NoRequest    == <<>>
Absent       == <<>>

Cuts(t, seps) == {i \in DOMAIN t : t[i] \in seps}
CutAt(t, i)   == <<SubSeq(t, 1, i - 1), SubSeq(t, i + 1, Len(t))>>

(* ticker.rs split_pair_multi and client.rs parse_ticker: one separator    *)
(* and two sides, or the whole text is the base.                           *)
FirstSeparator(t) == Cuts(t, Separators) # {}
TwoSided(t) == \E i \in 2 .. Len(t) - 1 : Cuts(t, Separators) = {i}
RustParseTicker(t) ==
  IF TwoSided(t) THEN CutAt(t, Min(Cuts(t, Separators))) ELSE <<t, DefaultQuote>>

(* client.ts parseTicker, ergo.py _parse_ticker: the first of the first    *)
(* separator that occurs.                                                  *)
ScriptParseTicker(t) ==
  LET seps == SelectSeq(<<"/", "-", "_">>, LAMBDA s : Cuts(t, {s}) # {})
  IN  IF seps = <<>> THEN <<t, DefaultQuote>> ELSE CutAt(t, Min(Cuts(t, {seps[1]})))

Given(x, default) == IF x = Absent THEN default ELSE x
BaseQuote(o, parsed) ==
  IF o.ticker # Absent THEN <<parsed[1], Given(o.quote, parsed[2])>>
  ELSE IF o.base # Absent THEN <<o.base, Given(o.quote, DefaultQuote)>>
  ELSE NoRequest

(* url_sym replaces every slash; urlSym of client.ts the first one.        *)
RustUrlSym(t) == [i \in DOMAIN t |-> IF t[i] = "/" THEN "-" ELSE t[i]]
TsUrlSym(t)   == [i \in DOMAIN t |-> IF t[i] = "/" /\ i = Min(Cuts(t, {"/"})) THEN "-" ELSE t[i]]

(* build_range, range of client.ts, append_query: what is given, in order. *)
Query(o) == SelectSeq(<<<<"from", o.from>>, <<"to", o.to>>, <<"limit", o.limit>>, <<"cursor", o.cursor>>>>,
                      LAMBDA p : p[2] # 0)

Kind(o)       == IF o.kind = "" THEN "renko" ELSE o.kind
Instrument(o) == IF o.instrument = "" THEN "spot" ELSE o.instrument
Path(kind, sym) == IF kind = "idx" THEN <<"idx", sym>> ELSE <<"bars", sym, kind>>

RustHistory(o) ==
  LET bq == BaseQuote(o, RustParseTicker(o.ticker))
  IN  IF bq = NoRequest \/ Instrument(o) # "spot" THEN NoRequest
      ELSE <<Path(Kind(o), RustUrlSym(bq[1] \o <<"/">> \o bq[2])), Query(o)>>
TsHistory(o) ==
  LET bq == BaseQuote(o, ScriptParseTicker(o.ticker))
  IN  IF bq = NoRequest \/ Instrument(o) # "spot" \/ Kind(o) \notin {"idx", "kline", "renko"} THEN NoRequest
      ELSE <<Path(Kind(o), TsUrlSym(bq[1] \o <<"/">> \o bq[2])), Query(o)>>
(* Python knows no cursor, and the candles of /v1/ohlc when tf is given.   *)
PyHistory(o) ==
  LET bq == BaseQuote(o, ScriptParseTicker(o.ticker))
      o1 == [o EXCEPT !.cursor = 0]
      sym == RustUrlSym(bq[1] \o <<"/">> \o bq[2])
  IN  IF bq = NoRequest \/ Instrument(o) # "spot" THEN NoRequest
      ELSE IF Kind(o) \in {"idx", "kline", "renko"} THEN <<Path(Kind(o), sym), Query(o1)>>
      ELSE IF Kind(o) = "ohlc" /\ o.tf # 0 THEN <<<<"ohlc", sym>>, <<<<"tf", o.tf>>>> \o Query(o1)>>
      ELSE NoRequest

-----------------------------------------------------------------------------
(* The chained builders: a call sets one option.  Rust and TypeScript keep *)
(* the pair as given; Python splits it, over a quote set before.           *)
NoOpts == [ticker |-> Absent, base |-> Absent, quote |-> Absent, kind |-> "", instrument |-> "",
           from |-> 0, to |-> 0, limit |-> 0, cursor |-> 0, tf |-> 0]
Set(o, field, v) == [o EXCEPT ![field] = v]
PySet(o, field, v) ==
  IF field = "ticker" THEN LET bq == ScriptParseTicker(v) IN [o EXCEPT !.base = bq[1], !.quote = bq[2]]
                      ELSE Set(o, field, v)
Built(calls, by) ==
  FoldLeft(LAMBDA o, c : IF by = "py" THEN PySet(o, c[1], c[2]) ELSE Set(o, c[1], c[2]), NoOpts, calls)

-----------------------------------------------------------------------------
(* decode_packed_ids refuses a body that no row ends; decode_pod_slice     *)
(* leaves the last bytes out; the decoders of the bindings refuse both.    *)
PackedIds(bytes)          == IF bytes % 8 = 0 THEN bytes \div 8 ELSE -1
PodRecords(bytes, stride) == bytes \div stride
Slab(bytes, stride)       == IF bytes = 0 \/ bytes % stride # 0 THEN -1 ELSE bytes \div stride

(* json_get, bytes_get: a status that is no success is an error.           *)
Succeeds(status) == status \in 200 .. 299
Fetched(status, decoded) == IF Succeeds(status) THEN decoded ELSE -1

-----------------------------------------------------------------------------
(* client.rs:579 ("Smart defaults applied"), client.ts:491, ergo.py:497:   *)
(* whichever way a pair of two legs is written and whatever is left to its *)
(* default, the clients send the same request; a chain of calls asks for   *)
(* what the object form asks for, unless Python's pair came after its      *)
(* quote.                                                                  *)
Plain(o) == /\ o.ticker = Absent \/ Cuts(o.ticker, Separators) = {} \/ TwoSided(o.ticker)
            /\ Kind(o) \in {"idx", "kline", "renko"} /\ o.cursor = 0
RequestsAgree(o) == Plain(o) => {RustHistory(o), TsHistory(o), PyHistory(o)} = {RustHistory(o)}
LastOf(calls, field) == LET at == {i \in DOMAIN calls : calls[i][1] = field}
                        IN  IF at = {} THEN 0 ELSE CHOOSE i \in at : \A j \in at : j <= i
ChainsAgree(calls) ==
  /\ LastOf(calls, "ticker") < LastOf(calls, "quote") \/ LastOf(calls, "quote") = 0 =>
       (LastOf(calls, "base") = 0 /\ Plain(Built(calls, "rust")) =>
          RustHistory(Built(calls, "rust")) = PyHistory(Built(calls, "py")))
  /\ \A i \in DOMAIN Query(Built(calls, "rust")) :
       LET p == Query(Built(calls, "rust"))[i] IN calls[LastOf(calls, p[1])] = p

(* client.rs:954-981: a body cut short gives no record that the server did *)
(* not send whole; only the record decoder of Rust says nothing of it.     *)
CutShort(bytes, status) ==
  /\ \A stride \in {56, 96} :
       LET n == Fetched(status, PodRecords(bytes, stride))
       IN  n = -1 \/ (n * stride <= bytes /\ bytes < (n + 1) * stride)
  /\ Fetched(status, PackedIds(bytes)) # -1 => bytes % 8 = 0 /\ Succeeds(status)
  /\ \A stride \in {32, 56, 96} :
       Slab(bytes, stride) # -1 => Slab(bytes, stride) = PodRecords(bytes, stride)

-----------------------------------------------------------------------------
(* A body is a record: whether it is JSON and an object, whether error is  *)
(* the discriminant, its code, whether the four strings are there, and     *)
(* what stands for its two numbers.                                        *)
Codes == {"RateLimitHttp", "RateLimitWs", "WsFeedCap", "WsConnCap", "EncodingForbidden",
          "TimeframeForbidden", "HistoryForbidden", "AuthRequired", "KeyInvalid", "KeyRevoked"}
Candidates == {401, 403, 406, 429}
NoError == "none"

UpgradeNeeded == {"EncodingForbidden", "TimeframeForbidden", "HistoryForbidden", "WsFeedCap", "WsConnCap"}
RateLimits    == {"RateLimitHttp", "RateLimitWs"}
AuthErrors    == {"AuthRequired", "KeyInvalid", "KeyRevoked"}

HttpStatus(c) ==
  CASE c \in {"RateLimitHttp", "RateLimitWs", "WsConnCap"} -> 429
    [] c \in {"AuthRequired", "KeyInvalid"}                -> 401
    [] c = "EncodingForbidden"                             -> 406
    [] OTHER                                               -> 403

WsCloseCode(c) ==
  CASE c = "RateLimitWs" -> 4029
    [] c = "WsFeedCap"   -> 4030
    [] c = "WsConnCap"   -> 4031
    [] c \in {"AuthRequired", "KeyInvalid"} -> 4401
    [] c = "KeyRevoked"  -> 4403
    [] OTHER             -> 0

-----------------------------------------------------------------------------
Numbers == {"absent", "count", "negative", "text"}
Bodies  == [object : BOOLEAN, discriminant : BOOLEAN, code : Codes \cup {"unheard"},
            strings : BOOLEAN, number : Numbers]
Shaped(b) == b.object /\ b.discriminant /\ b.strings

(* errors.rs: the shape, then the typed decode, whose numbers are u64.     *)
RustIsPlan(b) == Shaped(b) /\ b.code \in Codes
RustJson(b)   == IF RustIsPlan(b) /\ b.number \in {"absent", "count"} THEN b.code ELSE NoError
RustParse(status, b) == IF status \in Candidates THEN RustJson(b) ELSE NoError

(* errors.ts: the code may be any string.                                  *)
TsIsPlan(b) == Shaped(b)
TsJson(b)   == IF TsIsPlan(b) THEN b.code ELSE NoError
TsParse(status, json, b) == IF status \in Candidates /\ json THEN TsJson(b) ELSE NoError
TsUpgrade   == {"EncodingForbidden", "TimeframeForbidden", "HistoryForbidden", "WsFeedCap", "WsConnCap"}
TsRetry     == {"RateLimitHttp", "RateLimitWs"}
TsAuth      == {"AuthRequired", "KeyInvalid", "KeyRevoked"}

(* errors.py: int() of a text raises.                                      *)
PyCodes     == {"RateLimitHttp", "RateLimitWs", "WsFeedCap", "WsConnCap", "EncodingForbidden",
                "TimeframeForbidden", "HistoryForbidden", "AuthRequired", "KeyInvalid", "KeyRevoked"}
PyUpgrade   == {"EncodingForbidden", "TimeframeForbidden", "HistoryForbidden", "WsFeedCap", "WsConnCap"}
PyRetry     == {"RateLimitHttp", "RateLimitWs"}
PyAuth      == {"AuthRequired", "KeyInvalid", "KeyRevoked"}
PyIsPlan(b) == Shaped(b) /\ b.code \in PyCodes
PyError(b)  == IF b.number = "text" THEN "raises" ELSE b.code
PyJson(b)   == IF PyIsPlan(b) THEN PyError(b) ELSE NoError
PyParse(status, json, b) == IF status \in Candidates /\ json THEN PyJson(b) ELSE NoError

-----------------------------------------------------------------------------
(* errors.rs:90-113: a plan error asks for exactly one thing of its        *)
(* caller, an upgrade, a key or a retry, and of every caller the same; a   *)
(* code that a retry answers says so to HTTP (429) and to a socket (4029). *)
OneAnswerEach ==
  /\ <<UpgradeNeeded, RateLimits, AuthErrors>> = <<TsUpgrade, TsRetry, TsAuth>>
  /\ <<UpgradeNeeded, RateLimits, AuthErrors>> = <<PyUpgrade, PyRetry, PyAuth>>
  /\ \A c \in Codes : Cardinality({s \in {UpgradeNeeded, RateLimits, AuthErrors} : c \in s}) = 1
  /\ \A c \in RateLimits : HttpStatus(c) = 429 /\ WsCloseCode(c) \in {0, 4029}
  /\ \A c, d \in Codes : WsCloseCode(c) = WsCloseCode(d) /\ WsCloseCode(c) # 0 =>
       (c \in AuthErrors <=> d \in AuthErrors)

(* errors.rs:197-237 with errors.ts:148-196 and errors.py:166-250: an      *)
(* error that the server sends as it should is the same typed error to     *)
(* every client; whatever Rust takes for a plan error the others take for  *)
(* the same one, and no client takes a body of another status or shape.    *)
ClientsAgree(status, json, b) ==
  /\ b.code \in Codes /\ Shaped(b) /\ b.number \in {"absent", "count"} /\ json =>
       /\ RustParse(HttpStatus(b.code), b) = b.code
       /\ TsParse(HttpStatus(b.code), TRUE, b) = b.code
       /\ PyParse(HttpStatus(b.code), TRUE, b) = b.code
  /\ json /\ RustParse(status, b) # NoError =>
       {TsParse(status, TRUE, b), PyParse(status, TRUE, b)} = {RustParse(status, b)}
  /\ status \notin Candidates \/ ~Shaped(b) =>
       {RustParse(status, b), TsParse(status, json, b), PyParse(status, json, b)} = {NoError}
  /\ RustParse(status, b) # NoError => RustJson(b) = RustParse(status, b)

=============================================================================

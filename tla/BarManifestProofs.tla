-------------------------- MODULE BarManifestProofs --------------------------
(***************************************************************************)
(* Proofs about the bars of a ticker, for every set of extensions, days,   *)
(* prices, sizes, books and reads.  However the writers of a ticker run    *)
(* together, the entries of the manifest they share tell of bars that are  *)
(* there, and it lists every closed day of a ticker that has bars of one   *)
(* kind; between two finalizations that overlap, it is whole and forgets   *)
(* nothing.  A brick accounts for its ticks, a bar tells the ticks since   *)
(* the last flush, a stream hands out the records of the file it reads,    *)
(* the ways to rebuild a manifest agree, and a file has one owner.         *)
(***************************************************************************)
EXTENDS MCBars, Induction

-----------------------------------------------------------------------------
(* Documents.                                                              *)

LEMMA DocParts ==
  ASSUME NEW m \in Docs
  PROVE  /\ Listed(m) \subseteq Days /\ m.kind \subseteq Exts
         /\ m.shards \in [Listed(m) -> Entries]
         /\ m = [shards |-> m.shards, kind |-> m.kind]
BY DEF Docs, Listed

LEMMA DocOf ==
  ASSUME NEW D \in SUBSET Days, NEW s \in [D -> Entries], NEW k \in SUBSET Exts
  PROVE  [shards |-> s, kind |-> k] \in Docs
<1>1. s \in UNION {[C -> Entries] : C \in SUBSET Days}
  OBVIOUS
<1>2. QED BY <1>1 DEF Docs

LEMMA NewDocOK == NewDoc \in Docs /\ Listed(NewDoc) = {} /\ NewDoc.kind = {}
<1> DEFINE s == [d \in {} |-> NoDoc]
<1>1. s \in [{} -> Entries] /\ {} \in SUBSET Days /\ {} \in SUBSET Exts
  OBVIOUS
<1>2. [shards |-> s, kind |-> {}] \in Docs
  BY <1>1, DocOf
<1>3. QED BY <1>2 DEF NewDoc, Listed

(* An upsert sets the entry of one day and keeps the others.               *)
LEMMA UpsertDoc ==
  ASSUME NEW m \in Docs, NEW d \in Days, NEW e \in Entries, NEW x \in Exts,
         NEW g, g = WithKind(Upsert(m, d, e), x)
  PROVE  /\ g \in Docs /\ Listed(g) = Listed(m) \cup {d} /\ g.kind = m.kind \cup {x}
         /\ g.shards[d] = e
         /\ \A c \in Listed(m) : c # d => g.shards[c] = m.shards[c]
<1> DEFINE D == Listed(m) \cup {d}
           s == [c \in D |-> IF c = d THEN e ELSE m.shards[c]]
           k == m.kind \cup {x}
<1>1. /\ Listed(m) \subseteq Days /\ m.kind \subseteq Exts
      /\ m.shards \in [Listed(m) -> Entries]
      /\ m = [shards |-> m.shards, kind |-> m.kind]
  BY DocParts
<1>2. g = [shards |-> s, kind |-> k]
  BY <1>1 DEF WithKind, Upsert
<1>3. s \in [D -> Entries] /\ D \in SUBSET Days /\ k \in SUBSET Exts
  BY <1>1
<1>4. g \in Docs
  BY <1>2, <1>3, DocOf
<1>5. QED BY <1>2, <1>4 DEF Listed

(* A document whose entries tell of bars that are there: Real of the bars. *)
RealIn(m, b) ==
  m \in Docs => \A d \in Listed(m) : /\ m.shards[d].n <= b[m.shards[d].ext][d]
                                     /\ m.shards[d].ext \in m.kind

LEMMA RealMeans ==
  /\ Real(manifest) <=> RealIn(manifest, bars)
  /\ Real(tmp) <=> RealIn(tmp, bars)
  /\ \A x \in Exts : Real(doc[x]) <=> RealIn(doc[x], bars)
BY DEF Real, RealIn

LEMMA RealNext ==
  /\ Real(manifest)' <=> RealIn(manifest', bars')
  /\ Real(tmp)' <=> RealIn(tmp', bars')
  /\ \A x \in Exts : Real(doc[x])' <=> RealIn(doc'[x], bars')
BY DEF Real, RealIn

LEMMA NothingReal ==
  ASSUME NEW b
  PROVE  RealIn(NoDoc, b) /\ RealIn(Torn, b) /\ RealIn(NewDoc, b)
BY NewDocOK, DocAssumption DEF RealIn

LEMMA Types ==
  ASSUME TypeOK
  PROVE  /\ bars \in [Exts -> [Days -> 0 .. MaxBars]] /\ MaxBars \in Nat
         /\ pc \in [Exts -> {"down", "idle", "open", "read", "create", "write", "rename"}]
         /\ after \in [Exts -> {"idle", "open", "down"}]
         /\ cur_date \in [Exts -> Days \cup {NoDay}] /\ target \in [Exts -> Days \cup {NoDay}]
         /\ doc \in [Exts -> Docs] /\ fd \in [Exts -> {"", "tmp", "manifest"}]
         /\ Days \subseteq Nat /\ NoDay \notin Days
         /\ \A y \in Exts, d \in Days : bars[y][d] \in Nat
<1>1. MaxBars \in Nat /\ LastDay \in Nat
  BY ParamsAssumption
<1>2. Days \subseteq Nat /\ NoDay \notin Days
  BY <1>1 DEF Days, NoDay
<1>3. bars \in [Exts -> [Days -> 0 .. MaxBars]]
  BY DEF TypeOK
<1>4. \A y \in Exts, d \in Days : bars[y][d] \in 0 .. MaxBars
  BY <1>3
<1>5. \A y \in Exts, d \in Days : bars[y][d] \in Nat
  BY <1>1, <1>4
<1>6. QED BY <1>1, <1>2, <1>3, <1>5 DEF TypeOK

(* More bars keep a document real.                                         *)
LEMMA RealGrows ==
  ASSUME TypeOK, bars' \in [Exts -> [Days -> 0 .. MaxBars]],
         \A y \in Exts, d \in Days : bars[y][d] <= bars'[y][d],
         NEW m, RealIn(m, bars)
  PROVE  RealIn(m, bars')
<1> SUFFICES ASSUME m \in Docs, NEW d \in Listed(m)
             PROVE  m.shards[d].n <= bars'[m.shards[d].ext][d] /\ m.shards[d].ext \in m.kind
  BY DEF RealIn
<1>1. /\ m.shards[d] \in Entries /\ d \in Days /\ m.shards[d].n <= bars[m.shards[d].ext][d]
      /\ m.shards[d].ext \in m.kind
  BY DocParts DEF RealIn
<1>2. MaxBars \in Nat
  BY ParamsAssumption
<1>3. m.shards[d].ext \in Exts /\ m.shards[d].n \in Nat
  BY <1>1, <1>2 DEF Entries
<1> DEFINE y == m.shards[d].ext
<1>4. bars[y][d] \in Nat /\ bars'[y][d] \in 0 .. MaxBars /\ bars[y][d] <= bars'[y][d]
  <2>1. y \in Exts /\ d \in Days
    BY <1>1, <1>3
  <2> HIDE DEF y
  <2>2. bars[y][d] \in Nat /\ bars[y][d] <= bars'[y][d]
    BY <2>1, Types
  <2>3. bars'[y][d] \in 0 .. MaxBars
    BY <2>1
  <2>4. QED BY <2>2, <2>3
<1>5. QED BY <1>1, <1>2, <1>3, <1>4

(* A draft is the manifest with one more entry.                            *)
LEMMA DraftFacts ==
  ASSUME TypeOK, Real(manifest), manifest # Torn, NEW x \in Exts, WriterInv(x),
         cur_date[x] # NoDay
  PROVE  /\ Drafted(x) \in Docs /\ Drafted(x) # Torn /\ Drafted(x) # NoDoc
         /\ cur_date[x] \in Listed(Drafted(x))
         /\ Drafted(x).shards[cur_date[x]] = Entry(x, cur_date[x])
         /\ manifest \in Docs =>
              /\ StillTells(manifest, Drafted(x))
              /\ \A d \in Listed(manifest) :
                   d # cur_date[x] => Drafted(x).shards[d] = manifest.shards[d]
         /\ RealIn(Drafted(x), bars)
<1> DEFINE day == cur_date[x]
<1>1. /\ day \in Days /\ bars[x][day] \in 1 .. MaxBars
      /\ bars \in [Exts -> [Days -> 0 .. MaxBars]]
  <2>1. day \in Days /\ bars \in [Exts -> [Days -> 0 .. MaxBars]] /\ MaxBars \in Nat
    BY ParamsAssumption DEF TypeOK
  <2>2. bars[x][day] \in 0 .. MaxBars
    BY <2>1
  <2>3. bars[x][day] > 0
    BY DEF WriterInv
  <2>4. QED BY <2>1, <2>2, <2>3
<1>2. Entry(x, day) \in Entries
  BY <1>1 DEF Entry, Entries
<1>3. Base \in Docs /\ RealIn(Base, bars) /\ (manifest \in Docs => Base = manifest)
  <2>1. CASE manifest = NoDoc
    BY <2>1, NewDocOK, NothingReal, DocAssumption DEF Base
  <2>2. CASE manifest # NoDoc
    BY <2>2, RealMeans DEF Base, TypeOK
  <2>3. QED BY <2>1, <2>2
<1> DEFINE g == Drafted(x)
<1>4. /\ g \in Docs /\ Listed(g) = Listed(Base) \cup {day} /\ g.kind = Base.kind \cup {x}
      /\ g.shards[day] = Entry(x, day)
      /\ \A c \in Listed(Base) : c # day => g.shards[c] = Base.shards[c]
  BY <1>1, <1>2, <1>3, UpsertDoc DEF Drafted
<1>5. g # Torn /\ g # NoDoc
  BY <1>4, DocAssumption
<1> HIDE DEF g, day
<1>6. RealIn(g, bars)
  <2> SUFFICES ASSUME NEW d \in Listed(g)
               PROVE  g.shards[d].n <= bars[g.shards[d].ext][d] /\ g.shards[d].ext \in g.kind
    BY DEF RealIn
  <2>1. CASE d = day
    <3>1. g.shards[d].n = bars[x][d] /\ g.shards[d].ext = x /\ bars[x][d] \in Nat
      BY <1>1, <1>4, <2>1 DEF Entry
    <3>2. QED BY <1>4, <3>1
  <2>2. CASE d # day
    <3>1. d \in Listed(Base) /\ g.shards[d] = Base.shards[d]
      BY <1>4, <2>2
    <3>2. QED BY <1>3, <1>4, <3>1 DEF RealIn
  <2>3. QED BY <2>1, <2>2
<1>7. manifest \in Docs => StillTells(manifest, g)
  BY <1>3, <1>4 DEF StillTells
<1>8. QED BY <1>3, <1>4, <1>5, <1>6, <1>7 DEF g, day

-----------------------------------------------------------------------------
(* The parts a step may leave alone.                                       *)

(* What a writer knows of itself stays true while another one is served.   *)
SameWriter(y) ==
  /\ pc'[y] = pc[y] /\ after'[y] = after[y] /\ cur_date'[y] = cur_date[y]
  /\ target'[y] = target[y] /\ doc'[y] = doc[y] /\ fd'[y] = fd[y] /\ bars'[y] = bars[y]

LEMMA WriterKept ==
  ASSUME NEW y \in Exts, WriterInv(y), SameWriter(y), Real(doc[y])'
  PROVE  WriterInv(y)'
<1>1. /\ cur_date'[y] # NoDay => /\ bars'[y][cur_date'[y]] > 0
                                 /\ \A d \in Days : bars'[y][d] > 0 => d <= cur_date'[y]
      /\ pc'[y] = "idle" /\ cur_date'[y] = NoDay => ~HasBars(y)'
  BY DEF WriterInv, SameWriter, HasBars
<1>2. /\ Busy(y)' => cur_date'[y] # NoDay
      /\ after'[y] = "idle" \/ pc'[y] = "read" \/ Finalizing(y)'
  BY DEF WriterInv, SameWriter, Busy, Finalizing
<1>3. "open" \in {pc'[y], after'[y]} =>
        target'[y] \in Days /\ cur_date'[y] < target'[y] /\ bars'[y][target'[y]] < MaxBars
  BY DEF WriterInv, SameWriter
<1>4. QED BY <1>1, <1>2, <1>3 DEF WriterInv

LEMMA SameBars ==
  ASSUME UNCHANGED bars, NEW y \in Exts
  PROVE  (HasBars(y)' <=> HasBars(y)) /\ (OnlyKind(y)' <=> OnlyKind(y))
BY DEF HasBars, OnlyKind

LEMMA OlderKept ==
  ASSUME UNCHANGED <<bars, manifest>>, NEW z \in Exts, OlderListed(z),
         pc'[z] = "open" => pc[z] = "open" /\ cur_date'[z] = cur_date[z]
  PROVE  OlderListed(z)'
BY SameBars DEF OlderListed, InManifest

(* Two kinds have bars once two finalizations have met.                    *)
LEMMA RacedKinds ==
  ASSUME OwnerInv, raced, NEW z \in Exts
  PROVE  ~OnlyKind(z)
BY DEF OwnerInv, OnlyKind

(* A step of the writer x that changes no bars and not the manifest.       *)
LEMMA LocalStep ==
  ASSUME OwnerInv, NEW x \in Exts, TypeOK', WriterInv(x)', Real(tmp)',
         UNCHANGED <<bars, manifest>>, pc'[x] # "open",
         raced => raced',
         raced' => raced \/ \E y \in Exts \ {x} : HasBars(x) /\ HasBars(y),
         ~raced' => Alone(x)',
         tmp' = tmp \/ Finalizing(x),
         \A y \in Exts : y # x => SameWriter(y)
  PROVE  OwnerInv'
<1>1. ASSUME NEW y \in Exts
      PROVE  WriterInv(y)' /\ OlderListed(y)'
  <2>1. CASE y = x
    BY <2>1, OlderKept DEF OwnerInv
  <2>2. CASE y # x
    <3>1. SameWriter(y) /\ WriterInv(y)
      BY <2>2 DEF OwnerInv
    <3>2. Real(doc[y])'
      BY <3>1 DEF WriterInv, Real, SameWriter
    <3>3. OlderListed(y)'
      BY <3>1, OlderKept DEF OwnerInv, SameWriter
    <3>4. QED BY <3>1, <3>2, <3>3, WriterKept
  <2>3. QED BY <2>1, <2>2
<1>2. ManifestWhole'
  BY DEF OwnerInv, ManifestWhole, Real, NeverTorn
<1>3. (raced => \E a, b \in Exts : a # b /\ HasBars(a) /\ HasBars(b))'
  BY SameBars DEF OwnerInv
<1>4. ASSUME ~raced', NEW y \in Exts
      PROVE  Alone(y)'
  <2>1. CASE y = x
    BY <1>4, <2>1
  <2>2. CASE y # x
    <3> SUFFICES ASSUME Finalizing(y)' PROVE Alone(y)'
      BY DEF Alone
    <3>1. SameWriter(y) /\ Finalizing(y)
      BY <2>2 DEF Finalizing, SameWriter
    <3>2. Alone(y)
      BY <1>4 DEF OwnerInv
    <3>3. ~Finalizing(x) /\ tmp' = tmp
      BY <2>2, <3>1, <3>2 DEF Alone
    <3>4. ~Finalizing(x)'
      BY <1>4, <2>2 DEF Alone
    <3>5. \A z \in Exts \ {y} : ~Finalizing(z)'
      <4>1. ASSUME NEW z \in Exts \ {y}, z # x
            PROVE  ~Finalizing(z)'
        <5>1. SameWriter(z) /\ ~Finalizing(z)
          BY <4>1, <3>1, <3>2 DEF Alone
        <5>2. QED BY <5>1 DEF SameWriter, Finalizing
      <4>2. QED BY <3>4, <4>1
    <3>6. Drafted(y)' = Drafted(y)
      BY <3>1 DEF Drafted, Base, Entry, SameWriter
    <3>7. QED BY <3>1, <3>2, <3>3, <3>5, <3>6 DEF Alone, SameWriter
  <2>3. QED BY <2>1, <2>2
<1>5. QED BY <1>1, <1>2, <1>3, <1>4 DEF OwnerInv

(* While two finalizations overlap.                                        *)
LEMMA RacedStep ==
  ASSUME OwnerInv, raced, TypeOK', UNCHANGED bars, Real(manifest)', Real(tmp)',
         \A y \in Exts : WriterInv(y)',
         ~raced' => manifest' # Torn /\ \A y \in Exts : ~Finalizing(y)'
  PROVE  OwnerInv'
<1>1. ManifestWhole' /\ (~raced' => \A y \in Exts : Alone(y)')
  BY DEF ManifestWhole, NeverTorn, Alone
<1>2. PICK a, b \in Exts : a # b /\ HasBars(a) /\ HasBars(b)
  BY DEF OwnerInv
<1>3. HasBars(a)' /\ HasBars(b)'
  BY <1>2, SameBars
<1>4. ASSUME NEW z \in Exts
      PROVE  OlderListed(z)'
  BY <1>2, <1>3 DEF OlderListed, OnlyKind
<1>5. (raced => \E c, d \in Exts : c # d /\ HasBars(c) /\ HasBars(d))'
  BY <1>2, <1>3
<1>6. QED BY <1>1, <1>4, <1>5 DEF OwnerInv
-----------------------------------------------------------------------------
(* The steps that change no bars and not the manifest.                     *)

LEMMA RotateInv ==
  ASSUME OwnerInv, NEW x \in Exts, NEW d \in Days, Rotate(x, d)
  PROVE  OwnerInv'
<1>1. /\ TypeOK /\ WriterInv(x) /\ Real(tmp)
      /\ pc[x] = "idle" /\ bars[x][d] < MaxBars /\ cur_date[x] # NoDay /\ cur_date[x] < d
      /\ pc' = [pc EXCEPT ![x] = "read"] /\ after' = [after EXCEPT ![x] = "open"]
      /\ target' = [target EXCEPT ![x] = d]
      /\ UNCHANGED <<today, bars, manifest, tmp, cur_date, doc, fd, raced, kills>>
  <2>1. cur_date[x] # NoDay /\ cur_date[x] # d /\ d >= cur_date[x]
    BY DEF Rotate, RouteDays, Rotation
  <2>2. cur_date[x] \in Nat /\ d \in Nat
    BY <2>1, Types DEF OwnerInv
  <2>3. QED BY <2>1, <2>2 DEF Rotate, OwnerInv
<1>2. TypeOK'
  BY <1>1, Types DEF TypeOK
<1>3. /\ pc'[x] = "read" /\ after'[x] = "open" /\ target'[x] = d
      /\ \A y \in Exts : y # x => SameWriter(y)
  BY <1>1, Types DEF SameWriter
<1>4. WriterInv(x)'
  BY <1>1, <1>3 DEF WriterInv, Finalizing, Busy, HasBars, Real
<1>5. ~Finalizing(x)' /\ Real(tmp)'
  BY <1>1, <1>3 DEF Finalizing, Real
<1>6. Alone(x)'
  BY <1>5 DEF Alone
<1>7. QED BY <1>1, <1>2, <1>3, <1>4, <1>5, <1>6, LocalStep

LEMMA FinalizeInv ==
  ASSUME OwnerInv, NEW x \in Exts, NEW next \in {"idle", "down"}, FinalizeCurrent(x, next)
  PROVE  OwnerInv'
<1>1. /\ TypeOK /\ WriterInv(x) /\ Real(tmp) /\ pc[x] = "idle" /\ cur_date[x] # NoDay
      /\ pc' = [pc EXCEPT ![x] = "read"] /\ after' = [after EXCEPT ![x] = next]
      /\ UNCHANGED <<today, bars, manifest, tmp, cur_date, target, doc, fd, raced, kills>>
  BY DEF FinalizeCurrent, OwnerInv
<1>2. TypeOK'
  BY <1>1, Types DEF TypeOK
<1>3. /\ pc'[x] = "read" /\ after'[x] = next
      /\ \A y \in Exts : y # x => SameWriter(y)
  BY <1>1, Types DEF SameWriter
<1>4. WriterInv(x)'
  BY <1>1, <1>3 DEF WriterInv, Finalizing, Busy, HasBars, Real
<1>5. ~Finalizing(x)' /\ Real(tmp)'
  BY <1>1, <1>3 DEF Finalizing, Real
<1>6. Alone(x)'
  BY <1>5 DEF Alone
<1>7. QED BY <1>1, <1>2, <1>3, <1>4, <1>5, <1>6, LocalStep

(* The manifest cannot be parsed, or the writer has its draft in memory;   *)
(* if another one has read it too, the two race.                           *)
LEMMA ReadInv ==
  ASSUME OwnerInv, NEW x \in Exts, ReadManifest(x)
  PROVE  OwnerInv'
<1>1. /\ pc[x] = "read" /\ WriterInv(x) /\ cur_date[x] # NoDay /\ HasBars(x)
      /\ TypeOK /\ Real(manifest) /\ Real(tmp)
      /\ UNCHANGED <<today, bars, manifest, tmp, cur_date, target, fd, kills>>
  <2>1. pc[x] = "read" /\ WriterInv(x) /\ TypeOK /\ Real(manifest) /\ Real(tmp)
    BY DEF ReadManifest, OwnerInv, ManifestWhole
  <2>2. cur_date[x] # NoDay
    BY <2>1 DEF WriterInv, Busy
  <2>3. HasBars(x)
    BY <2>1, <2>2, Types DEF WriterInv, HasBars
  <2>4. QED BY <2>1, <2>2, <2>3 DEF ReadManifest
<1>2. CASE manifest = Torn
  <2>1. /\ raced /\ pc' = [pc EXCEPT ![x] = after[x]] /\ after' = [after EXCEPT ![x] = "idle"]
        /\ UNCHANGED <<doc, raced>>
    BY <1>2 DEF ReadManifest, OwnerInv, ManifestWhole, NeverTorn
  <2>2. TypeOK'
    <3>1. after[x] \in {"idle", "open", "down"}
      BY <1>1, Types
    <3>2. QED BY <1>1, <2>1, <3>1, Types DEF TypeOK
  <2>3. /\ pc'[x] = after[x] /\ after'[x] = "idle"
        /\ \A y \in Exts : y # x => SameWriter(y)
    BY <1>1, <2>1, Types DEF SameWriter
  <2>4. ASSUME NEW y \in Exts
        PROVE  WriterInv(y)'
    <3>1. Real(doc[y])'
      BY <1>1, <2>1 DEF Real, OwnerInv, WriterInv
    <3>2. CASE y # x
      BY <2>3, <3>1, <3>2, WriterKept DEF OwnerInv
    <3>3. CASE y = x
      BY <1>1, <2>3, <3>1, <3>3 DEF WriterInv, Busy, HasBars
    <3>4. QED BY <3>2, <3>3
  <2>5. Real(manifest)' /\ Real(tmp)'
    BY <1>1 DEF Real
  <2>6. QED BY <1>1, <2>1, <2>2, <2>4, <2>5, RacedStep
<1>3. CASE manifest # Torn
  <2>1. /\ doc' = [doc EXCEPT ![x] = Drafted(x)] /\ pc' = [pc EXCEPT ![x] = "create"]
        /\ raced' = (raced \/ \E y \in Exts \ {x} : Finalizing(y)) /\ UNCHANGED after
    BY <1>3, Zenon DEF ReadManifest, Drafted, Base, Entry
  <2>2. Drafted(x) \in Docs /\ RealIn(Drafted(x), bars)
    BY <1>1, <1>3, DraftFacts
  <2>3. TypeOK'
    <3>1. raced' \in BOOLEAN
      BY <2>1
    <3>2. QED BY <1>1, <2>1, <2>2, <3>1, Types DEF TypeOK
  <2>4. /\ pc'[x] = "create" /\ doc'[x] = Drafted(x)
        /\ \A y \in Exts : y # x => SameWriter(y)
    BY <1>1, <2>1, Types DEF SameWriter
  <2>5. Drafted(x)' = Drafted(x)
    BY <1>1 DEF Drafted, Base, Entry
  <2>6. Real(doc[x])'
    BY <1>1, <2>2, <2>4, RealNext
  <2>7. WriterInv(x)'
    BY <1>1, <2>1, <2>4, <2>6 DEF WriterInv, Finalizing, Busy, HasBars
  <2>8. ASSUME ~raced'
        PROVE  Alone(x)'
    <3>1. \A y \in Exts \ {x} : ~Finalizing(y)
      BY <2>1, <2>8
    <3>2. \A y \in Exts \ {x} : ~Finalizing(y)'
      BY <2>4, <3>1 DEF Finalizing, SameWriter
    <3>3. QED BY <2>4, <2>5, <3>2 DEF Alone
  <2>9. ASSUME NEW y \in Exts \ {x}, Finalizing(y)
        PROVE  HasBars(y)
    <3>1. cur_date[y] # NoDay /\ WriterInv(y)
      BY <2>9 DEF OwnerInv, WriterInv, Busy, Finalizing
    <3>2. QED BY <1>1, <3>1, Types DEF WriterInv, HasBars
  <2>10. Real(tmp)'
    BY <1>1 DEF Real
  <2>11. raced' => raced \/ \E y \in Exts \ {x} : HasBars(x) /\ HasBars(y)
    BY <1>1, <2>1, <2>9
  <2>12. QED BY <1>1, <2>1, <2>3, <2>4, <2>7, <2>8, <2>10, <2>11, LocalStep
<1>4. QED BY <1>2, <1>3

LEMMA CreateInv ==
  ASSUME OwnerInv, NEW x \in Exts, CreateTmp(x)
  PROVE  OwnerInv'
<1>1. /\ pc[x] = "create" /\ WriterInv(x) /\ TypeOK
      /\ tmp' = Torn /\ fd' = [fd EXCEPT ![x] = "tmp"] /\ pc' = [pc EXCEPT ![x] = "write"]
      /\ UNCHANGED <<today, bars, manifest, cur_date, target, after, doc, raced, kills>>
  BY DEF CreateTmp, OwnerInv
<1>2. TypeOK'
  BY <1>1, Types DEF TypeOK
<1>3. /\ pc'[x] = "write" /\ fd'[x] = "tmp" /\ \A y \in Exts : y # x => SameWriter(y)
  BY <1>1, Types DEF SameWriter
<1>4. Drafted(x)' = Drafted(x)
  BY <1>1 DEF Drafted, Base, Entry
<1>5. WriterInv(x)'
  BY <1>1, <1>3 DEF WriterInv, Finalizing, Busy, HasBars, Real
<1>6. ASSUME ~raced'
      PROVE  Alone(x)'
  <2>1. Finalizing(x) /\ Alone(x)
    BY <1>1, <1>6 DEF Finalizing, OwnerInv
  <2>2. (\A y \in Exts \ {x} : ~Finalizing(y)') /\ doc'[x] = Drafted(x)'
    BY <1>1, <1>3, <1>4, <2>1 DEF Alone, Finalizing, SameWriter
  <2>3. QED BY <1>1, <1>3, <2>2 DEF Alone
<1>7. Real(tmp)'
  BY <1>1, NothingReal, RealNext
<1>8. Finalizing(x)
  BY <1>1 DEF Finalizing
<1>9. QED BY <1>1, <1>2, <1>3, <1>5, <1>6, <1>7, <1>8, LocalStep

(* Alone, it writes over the empty file it has created; a file another     *)
(* writer has opened or renamed may be left torn.                          *)
LEMMA WriteTmpInv ==
  ASSUME OwnerInv, NEW x \in Exts, WriteTmp(x)
  PROVE  OwnerInv' /\ (~raced => UNCHANGED manifest)
<1>1. /\ pc[x] = "write" /\ WriterInv(x) /\ TypeOK /\ Real(manifest) /\ Real(tmp)
      /\ pc' = [pc EXCEPT ![x] = "rename"] /\ doc[x] \in Docs /\ RealIn(doc[x], bars)
      /\ UNCHANGED <<today, bars, cur_date, target, after, doc, fd, raced, kills>>
      /\ {tmp', manifest'} \subseteq {tmp, manifest, doc[x], Torn}
  <2>1. pc[x] = "write" /\ WriterInv(x) /\ TypeOK /\ Real(manifest) /\ Real(tmp)
    BY DEF WriteTmp, OwnerInv, ManifestWhole
  <2>2. {tmp', manifest'} \subseteq {tmp, manifest, doc[x], Torn}
    BY DEF WriteTmp, Written
  <2>3. doc[x] \in Docs /\ RealIn(doc[x], bars)
    BY <2>1, Types, RealMeans DEF WriterInv
  <2>4. QED BY <2>1, <2>2, <2>3 DEF WriteTmp
<1>2. TypeOK'
  <2>1. {tmp', manifest'} \subseteq Docs \cup {NoDoc, Torn}
    BY <1>1 DEF TypeOK
  <2>2. QED BY <1>1, <2>1, Types DEF TypeOK
<1>3. Real(manifest)' /\ Real(tmp)'
  BY <1>1, RealMeans, RealNext, NothingReal
<1>4. /\ pc'[x] = "rename" /\ \A y \in Exts : y # x => SameWriter(y)
  BY <1>1, Types DEF SameWriter
<1>5. WriterInv(x)'
  BY <1>1, <1>4 DEF WriterInv, Finalizing, Busy, HasBars, Real
<1>6. CASE raced
  <2>1. ASSUME NEW y \in Exts, y # x
        PROVE  WriterInv(y)'
    <3>1. SameWriter(y) /\ WriterInv(y)
      BY <1>4, <2>1 DEF OwnerInv
    <3>2. Real(doc[y])'
      BY <1>1, <3>1 DEF WriterInv, Real
    <3>3. QED BY <3>1, <3>2, WriterKept
  <2>2. QED BY <1>1, <1>2, <1>3, <1>5, <1>6, <2>1, RacedStep
<1>7. CASE ~raced
  <2>1. Finalizing(x) /\ Alone(x)
    BY <1>1, <1>7 DEF Finalizing, OwnerInv
  <2>2. tmp' = doc[x] /\ UNCHANGED manifest
    BY <1>1, <2>1 DEF WriteTmp, Written, Alone
  <2>3. Drafted(x)' = Drafted(x)
    BY <1>1, <2>2 DEF Drafted, Base, Entry
  <2>4. Alone(x)'
    <3>1. (\A y \in Exts \ {x} : ~Finalizing(y)') /\ doc'[x] = Drafted(x)'
      BY <1>1, <1>4, <2>1, <2>3 DEF Alone, Finalizing, SameWriter
    <3>2. fd'[x] = "tmp" /\ tmp' = doc'[x]
      BY <1>1, <2>1, <2>2 DEF Alone
    <3>3. QED BY <1>4, <3>1, <3>2 DEF Alone
  <2>5. QED BY <1>1, <1>2, <1>3, <1>4, <1>5, <1>7, <2>1, <2>2, <2>4, LocalStep
<1>8. QED BY <1>6, <1>7

LEMMA OpenWriterInv ==
  ASSUME OwnerInv, NEW x \in Exts, OpenWriter(x)
  PROVE  OwnerInv'
<1>1. /\ pc[x] = "down" /\ WriterInv(x) /\ TypeOK /\ Real(tmp)
      /\ pc' = [pc EXCEPT ![x] = "idle"]
      /\ UNCHANGED <<today, bars, manifest, tmp, target, after, doc, fd, raced, kills>>
  BY DEF OpenWriter, OwnerInv
<1>2. PICK day \in Days \cup {NoDay} :
        /\ cur_date' = [cur_date EXCEPT ![x] = day]
        /\ IF day = NoDay THEN \A d \in Days : bars[x][d] = 0
                          ELSE bars[x][day] > 0 /\ \A e \in Days : e > day => bars[x][e] = 0
  BY <1>1, Types DEF OpenWriter
<1>3. TypeOK'
  BY <1>1, <1>2, Types DEF TypeOK
<1>4. /\ pc'[x] = "idle" /\ cur_date'[x] = day
      /\ \A y \in Exts : y # x => SameWriter(y)
  BY <1>1, <1>2, Types DEF SameWriter
<1>5. \A d \in Days : bars[x][d] \in Nat /\ d \in Nat
  BY <1>1, Types
<1>6. /\ day # NoDay => day \in Days /\ \A d \in Days : bars[x][d] > 0 => d <= day
      /\ day = NoDay => ~HasBars(x)
  BY <1>2, <1>5 DEF HasBars
<1>7. WriterInv(x)'
  <2>1. after'[x] = "idle" /\ Real(doc[x])'
    BY <1>1 DEF WriterInv, Finalizing, Real
  <2>2. /\ cur_date'[x] # NoDay => /\ bars'[x][cur_date'[x]] > 0
                                   /\ \A d \in Days : bars'[x][d] > 0 => d <= cur_date'[x]
        /\ cur_date'[x] = NoDay => ~HasBars(x)'
    BY <1>1, <1>2, <1>4, <1>6 DEF HasBars
  <2>3. QED BY <1>4, <2>1, <2>2 DEF WriterInv, Busy
<1>8. Alone(x)' /\ Real(tmp)'
  BY <1>1, <1>4 DEF Alone, Finalizing, Real
<1>9. QED BY <1>1, <1>3, <1>4, <1>7, <1>8, LocalStep
-----------------------------------------------------------------------------
(* The steps that change bars or the manifest.                             *)

(* One more bar, on the newest day or on a later one whose predecessor the *)
(* manifest has.                                                           *)
LEMMA BarWritten ==
  ASSUME OwnerInv, NEW x \in Exts, NEW d \in Days, WriteBar(x, d), bars[x][d] < MaxBars,
         \/ pc[x] = "idle" /\ ~Rotation(x, d)
         \/ pc[x] = "open" /\ target[x] = d,
         target' \in {target, [target EXCEPT ![x] = NoDay]},
         UNCHANGED <<today, manifest, tmp, after, doc, fd, raced, kills>>
  PROVE  OwnerInv'
<1>1. /\ bars' = [bars EXCEPT ![x][d] = @ + 1] /\ cur_date' = [cur_date EXCEPT ![x] = d]
      /\ pc' = [pc EXCEPT ![x] = "idle"] /\ WriterInv(x) /\ TypeOK
  BY DEF WriteBar, OwnerInv
<1>2. /\ bars \in [Exts -> [Days -> 0 .. MaxBars]] /\ MaxBars \in Nat
      /\ \A y \in Exts, e \in Days : bars[y][e] \in Nat
      /\ NoDay \notin Days /\ \A e \in Days : e \in Nat
  BY <1>1, Types
<1>3. /\ bars'[x][d] = bars[x][d] + 1
      /\ \A y \in Exts, e \in Days : (y # x \/ e # d) => bars'[y][e] = bars[y][e]
      /\ \A y \in Exts : y # x => bars'[y] = bars[y]
  BY <1>1, <1>2
<1>4. bars' \in [Exts -> [Days -> 0 .. MaxBars]]
  <2>1. bars[x][d] + 1 \in 0 .. MaxBars
    BY <1>2
  <2>2. QED BY <1>1, <1>2, <2>1
<1>5. TypeOK'
  BY <1>1, <1>4, Types DEF TypeOK
<1>6. /\ pc'[x] = "idle" /\ cur_date'[x] = d
      /\ \A y \in Exts : y # x => SameWriter(y)
  BY <1>1, <1>3, Types DEF SameWriter
(* The days before it.                                                     *)
<1>7. \A e \in Days : bars[x][e] > 0 => e <= d
  <2>1. CASE pc[x] = "idle"
    <3>1. cur_date[x] = d \/ cur_date[x] = NoDay
      BY <2>1 DEF Rotation
    <3>2. CASE cur_date[x] = d
      BY <1>1, <1>2, <3>2 DEF WriterInv
    <3>3. CASE cur_date[x] = NoDay
      BY <1>1, <1>2, <2>1, <3>3 DEF WriterInv, HasBars
    <3>4. QED BY <3>1, <3>2, <3>3
  <2>2. CASE pc[x] = "open"
    <3>1. cur_date[x] < d /\ cur_date[x] \in Days
          /\ \A e \in Days : bars[x][e] > 0 => e <= cur_date[x]
      BY <1>1, <2>2, Types DEF WriterInv, Busy
    <3>2. QED BY <1>2, <3>1
  <2>3. QED BY <2>1, <2>2
(* Every document stays real.                                              *)
<1>8. Real(manifest)' /\ Real(tmp)' /\ \A y \in Exts : Real(doc[y])'
  <2>1. \A y \in Exts, e \in Days : bars[y][e] <= bars'[y][e]
    BY <1>2, <1>3
  <2>2. ASSUME NEW m, RealIn(m, bars)
        PROVE  RealIn(m, bars')
    BY <1>1, <1>4, <2>1, <2>2, RealGrows
  <2>3. RealIn(manifest, bars) /\ RealIn(tmp, bars) /\ \A y \in Exts : RealIn(doc[y], bars)
    BY RealMeans DEF OwnerInv, ManifestWhole, WriterInv
  <2>4. RealIn(manifest, bars') /\ RealIn(tmp, bars')
    BY <2>2, <2>3
  <2>5. \A y \in Exts : RealIn(doc[y], bars')
    BY <2>2, <2>3
  <2>6. QED BY <2>4, <2>5, RealNext
<1>9. ASSUME NEW y \in Exts
      PROVE  WriterInv(y)'
  <2>1. CASE y = x
    <3>1. bars'[x][d] > 0 /\ \A e \in Days : bars'[x][e] > 0 => e <= d
      BY <1>2, <1>3, <1>7
    <3>2. after'[x] = "idle" /\ d # NoDay
      BY <1>1, <1>2 DEF WriterInv, Finalizing
    <3>3. QED BY <1>6, <1>8, <2>1, <3>1, <3>2 DEF WriterInv, Finalizing, Busy
  <2>2. CASE y # x
    BY <1>6, <1>8, <2>2, WriterKept DEF OwnerInv
  <2>3. QED BY <2>1, <2>2
<1>10. \A y \in Exts : HasBars(y) => HasBars(y)'
  BY <1>2, <1>3 DEF HasBars
<1>11. HasBars(x)'
  BY <1>2, <1>3 DEF HasBars
<1>12. ASSUME NEW z \in Exts
       PROVE  OlderListed(z)'
  <2> SUFFICES ASSUME OnlyKind(z)' PROVE OlderListed(z)'
    BY DEF OlderListed
  <2>1. z = x /\ OnlyKind(x)
    BY <1>10, <1>11 DEF OnlyKind
  <2>2. ASSUME NEW a \in Days, NEW b \in Days, a < b, bars'[x][a] > 0, bars'[x][b] > 0
        PROVE  InManifest(x, a)'
    <3>1. a < d /\ b <= d
      BY <1>2, <1>3, <1>7, <2>2
    <3>2. bars[x][a] > 0 /\ bars'[x][a] = bars[x][a]
      BY <1>2, <1>3, <2>2, <3>1
    <3>3. InManifest(x, a)
      <4>1. CASE b # d
        <5>1. bars[x][b] > 0
          BY <1>3, <2>2, <4>1
        <5>2. QED BY <2>1, <2>2, <3>2, <5>1 DEF OwnerInv, OlderListed
      <4>2. CASE b = d /\ pc[x] = "idle"
        <5>1. cur_date[x] = d
          BY <1>1, <1>2, <3>2, <4>2 DEF WriterInv, Rotation, HasBars
        <5>2. bars[x][d] > 0 /\ d # NoDay
          BY <1>1, <1>2, <5>1 DEF WriterInv
        <5>3. QED BY <2>1, <3>1, <3>2, <5>2 DEF OwnerInv, OlderListed
      <4>3. CASE b = d /\ pc[x] = "open"
        <5>1. /\ cur_date[x] \in Days /\ bars[x][cur_date[x]] > 0 /\ a <= cur_date[x]
              /\ InManifest(x, cur_date[x])
          <6>1. cur_date[x] # NoDay
            BY <1>1, <4>3 DEF WriterInv, Busy
          <6>2. cur_date[x] \in Days /\ bars[x][cur_date[x]] > 0 /\ a <= cur_date[x]
            BY <1>1, <3>2, <6>1, Types DEF WriterInv
          <6>3. InManifest(x, cur_date[x])
            BY <2>1, <4>3 DEF OwnerInv, OlderListed
          <6>4. QED BY <6>2, <6>3
        <5>2. CASE a = cur_date[x]
          BY <5>1, <5>2
        <5>3. CASE a # cur_date[x]
          <6>1. a \in Nat /\ cur_date[x] \in Nat
            BY <1>2, <5>1
          <6>2. a < cur_date[x]
            BY <5>1, <5>3, <6>1
          <6>3. QED BY <2>1, <3>2, <5>1, <6>2 DEF OwnerInv, OlderListed
        <5>4. QED BY <5>2, <5>3
      <4>4. QED BY <4>1, <4>2, <4>3
    <3>4. QED BY <3>2, <3>3 DEF InManifest
  <2>3. pc'[x] # "open"
    BY <1>6
  <2>4. QED BY <2>1, <2>2, <2>3 DEF OlderListed
<1>13. ASSUME ~raced', NEW y \in Exts
       PROVE  Alone(y)'
  <2>1. ~Finalizing(x) /\ ~Finalizing(x)' /\ Alone(y)
    BY <1>6, <1>13 DEF Finalizing, OwnerInv
  <2>2. CASE y = x
    BY <2>1, <2>2 DEF Alone
  <2>3. CASE y # x
    <3> SUFFICES ASSUME Finalizing(y)' PROVE Alone(y)'
      BY DEF Alone
    <3>1. SameWriter(y) /\ Finalizing(y)
      BY <1>6, <2>3 DEF Finalizing, SameWriter
    <3>2. \A z \in Exts \ {y} : ~Finalizing(z)'
      <4>1. ASSUME NEW z \in Exts \ {y}, z # x
            PROVE  ~Finalizing(z)'
        BY <1>6, <2>1, <3>1, <4>1 DEF Alone, SameWriter, Finalizing
      <4>2. QED BY <2>1, <4>1
    <3>3. Drafted(y)' = Drafted(y)
      BY <3>1 DEF Drafted, Base, Entry, SameWriter
    <3>4. QED BY <2>1, <3>1, <3>2, <3>3 DEF Alone, SameWriter
  <2>4. QED BY <2>2, <2>3
<1>14. ManifestWhole'
  BY <1>8 DEF OwnerInv, ManifestWhole, NeverTorn
<1>15. (raced => \E a, b \in Exts : a # b /\ HasBars(a) /\ HasBars(b))'
  BY <1>10 DEF OwnerInv
<1>16. QED BY <1>5, <1>8, <1>9, <1>12, <1>13, <1>14, <1>15 DEF OwnerInv

(* The rename puts the draft of a writer that is alone in the place of the *)
(* manifest; two that race may leave either draft, or bytes of both.       *)
LEMMA RenameInv ==
  ASSUME OwnerInv, NEW x \in Exts, RenameTmp(x)
  PROVE  /\ OwnerInv'
         /\ ~raced /\ manifest \in Docs => StillTells(manifest, manifest')
<1>1. /\ pc[x] = "rename" /\ WriterInv(x) /\ cur_date[x] # NoDay /\ Finalizing(x)
      /\ TypeOK /\ Real(manifest) /\ Real(tmp) /\ cur_date[x] \in Days
      /\ after[x] \in {"idle", "open", "down"} /\ bars[x][cur_date[x]] > 0
      /\ pc' = [pc EXCEPT ![x] = after[x]] /\ doc' = [doc EXCEPT ![x] = NewDoc]
      /\ after' = [after EXCEPT ![x] = "idle"]
      /\ UNCHANGED <<today, bars, cur_date, target, kills>>
  <2>1. /\ pc[x] = "rename" /\ WriterInv(x) /\ TypeOK /\ Real(manifest) /\ Real(tmp)
        /\ Finalizing(x)
    BY DEF RenameTmp, OwnerInv, ManifestWhole, Finalizing
  <2>2. cur_date[x] # NoDay
    BY <2>1 DEF WriterInv, Busy
  <2>3. cur_date[x] \in Days /\ after[x] \in {"idle", "open", "down"}
        /\ bars[x][cur_date[x]] > 0
    BY <2>1, <2>2, Types DEF WriterInv
  <2>4. QED BY <2>1, <2>2, <2>3 DEF RenameTmp
<1>2. /\ {tmp', manifest'} \subseteq {tmp, manifest, NoDoc}
      /\ fd' \in [Exts -> {"", "tmp", "manifest"}]
      /\ raced' \in BOOLEAN
  <2>1. fd \in [Exts -> {"", "tmp", "manifest"}]
    BY <1>1, Types
  <2>2. QED BY <2>1 DEF RenameTmp
<1>3. TypeOK'
  <2>1. {tmp', manifest'} \subseteq Docs \cup {NoDoc, Torn}
    BY <1>1, <1>2 DEF TypeOK
  <2>2. QED BY <1>1, <1>2, <2>1, Types, NewDocOK DEF TypeOK
<1>4. Real(manifest)' /\ Real(tmp)'
  <2>1. bars' = bars /\ RealIn(manifest, bars) /\ RealIn(tmp, bars) /\ RealIn(NoDoc, bars)
    BY <1>1, RealMeans, NothingReal
  <2>2. QED BY <1>2, <2>1, RealNext
<1>5. /\ pc'[x] = after[x] /\ after'[x] = "idle" /\ doc'[x] = NewDoc
      /\ \A y \in Exts : y # x => /\ pc'[y] = pc[y] /\ after'[y] = after[y]
                                  /\ doc'[y] = doc[y]
  BY <1>1, Types
<1>6. ASSUME NEW y \in Exts
      PROVE  WriterInv(y)'
  <2>1. CASE y = x
    <3>1. Real(doc[x])'
      BY <1>5, NothingReal, RealNext
    <3>2. QED BY <1>1, <1>5, <2>1, <3>1 DEF WriterInv, Busy, HasBars
  <2>2. CASE y # x
    <3>1. /\ WriterInv(y) /\ pc'[y] = pc[y] /\ after'[y] = after[y] /\ doc'[y] = doc[y]
          /\ UNCHANGED <<bars, cur_date, target>>
      BY <1>1, <1>5, <2>2 DEF OwnerInv
    <3>2. QED BY <3>1 DEF WriterInv, HasBars, Busy, Finalizing, Real
  <2>3. QED BY <2>1, <2>2
<1>7. ~Finalizing(x)'
  BY <1>1, <1>5 DEF Finalizing
<1>8. CASE raced
  <2>1. ASSUME ~raced'
        PROVE  manifest' # Torn /\ \A y \in Exts : ~Finalizing(y)'
    <3>1. ~Unsettled(Exts \ {x}, manifest')
      BY <1>8, <2>1 DEF RenameTmp
    <3>2. manifest' # Torn /\ \A y \in Exts \ {x} : ~Finalizing(y)
      BY <3>1 DEF Unsettled
    <3>3. QED BY <1>5, <1>7, <3>2 DEF Finalizing
  <2>2. QED BY <1>1, <1>3, <1>4, <1>6, <1>8, <2>1, RacedStep
<1>9. CASE ~raced
  <2>1. /\ ~raced' /\ tmp = Drafted(x) /\ manifest # Torn
        /\ \A y \in Exts \ {x} : ~Finalizing(y)
    <3>1. Alone(x) /\ manifest # Torn
      BY <1>9 DEF OwnerInv, ManifestWhole, NeverTorn
    <3>2. QED BY <1>1, <1>9, <3>1 DEF Alone, RenameTmp
  <2>2. /\ Drafted(x) \in Docs /\ Drafted(x) # Torn /\ Drafted(x) # NoDoc
        /\ cur_date[x] \in Listed(Drafted(x))
        /\ Drafted(x).shards[cur_date[x]] = Entry(x, cur_date[x])
        /\ manifest \in Docs =>
             /\ StillTells(manifest, Drafted(x))
             /\ \A d \in Listed(manifest) :
                  d # cur_date[x] => Drafted(x).shards[d] = manifest.shards[d]
    BY <1>1, <2>1, DraftFacts
  <2>3. manifest' = Drafted(x)
    BY <2>1, <2>2 DEF RenameTmp
  <2>4. ManifestWhole'
    BY <1>4, <2>2, <2>3 DEF ManifestWhole, NeverTorn
  <2>5. \A y \in Exts : ~Finalizing(y)'
    BY <1>5, <1>7, <2>1 DEF Finalizing
  <2>6. \A y \in Exts : Alone(y)'
    BY <2>5 DEF Alone
  <2>7. InManifest(x, cur_date[x])'
    BY <1>1, <2>2, <2>3 DEF InManifest, Entry
  <2>8. ASSUME NEW z \in Exts
        PROVE  OlderListed(z)'
    <3> SUFFICES ASSUME OnlyKind(z)' PROVE OlderListed(z)'
      BY DEF OlderListed
    <3>1. HasBars(x)'
      BY <1>1 DEF HasBars
    <3>2. z = x
      BY <3>1 DEF OnlyKind
    <3>3. OnlyKind(x)
      BY <1>1, <3>2, SameBars
    <3>4. ASSUME NEW a \in Days, NEW b \in Days, a < b, bars[x][a] > 0, bars[x][b] > 0
          PROVE  InManifest(x, a)'
      <4>1. InManifest(x, a)
        BY <3>3, <3>4 DEF OwnerInv, OlderListed
      <4>2. CASE a = cur_date[x]
        BY <1>1, <2>7, <4>2
      <4>3. CASE a # cur_date[x]
        <5>1. manifest \in Docs /\ a \in Listed(manifest)
              /\ manifest.shards[a] = [ext |-> x, n |-> bars[x][a]]
          BY <4>1 DEF InManifest
        <5>2. manifest' \in Docs /\ a \in Listed(manifest')
              /\ manifest'.shards[a] = [ext |-> x, n |-> bars[x][a]]
          BY <2>2, <2>3, <4>3, <5>1 DEF StillTells
        <5>3. QED BY <1>1, <5>2 DEF InManifest
      <4>4. QED BY <4>2, <4>3
    <3>5. QED BY <1>1, <2>7, <3>2, <3>4 DEF OlderListed
  <2>9. QED BY <1>3, <1>4, <1>6, <2>1, <2>2, <2>3, <2>4, <2>6, <2>8 DEF OwnerInv
<1>10. QED BY <1>8, <1>9

LEMMA AppendOpenInv ==
  ASSUME OwnerInv, NEW x \in Exts,
         (\E d \in Days : AppendBar(x, d)) \/ OpenShard(x)
  PROVE  OwnerInv'
<1>1. CASE \E d \in Days : AppendBar(x, d)
  BY <1>1, BarWritten DEF AppendBar
<1>2. CASE OpenShard(x)
  <2>1. target[x] \in Days /\ bars[x][target[x]] < MaxBars
    BY <1>2 DEF OpenShard, OwnerInv, WriterInv
  <2>2. QED BY <1>2, <2>1, BarWritten DEF OpenShard
<1>3. QED BY <1>1, <1>2

-----------------------------------------------------------------------------
(* A kill takes the writers of a process; what is on disk stays.           *)
LEMMA KillInv ==
  ASSUME OwnerInv, NEW dead \in SUBSET Exts, Kill(dead)
  PROVE  OwnerInv'
<1>1. /\ pc' = [y \in Exts |-> IF y \in dead THEN "down" ELSE pc[y]]
      /\ fd' = [y \in Exts |-> IF y \in dead THEN "" ELSE fd[y]]
      /\ cur_date' = [y \in Exts |-> IF y \in dead THEN NoDay ELSE cur_date[y]]
      /\ target' = [y \in Exts |-> IF y \in dead THEN NoDay ELSE target[y]]
      /\ after' = [y \in Exts |-> IF y \in dead THEN "idle" ELSE after[y]]
      /\ doc' = [y \in Exts |-> IF y \in dead THEN NewDoc ELSE doc[y]]
      /\ kills' = kills + 1 /\ kills < MaxKills
      /\ raced' = (raced /\ Unsettled(Exts \ dead, manifest))
      /\ UNCHANGED <<today, bars, manifest, tmp>>
  BY DEF Kill
<1>2. TypeOK'
  <2>1. kills' \in 0 .. MaxKills
    <3>1. MaxKills \in Nat /\ kills \in 0 .. MaxKills
      BY ParamsAssumption DEF OwnerInv, TypeOK
    <3>2. kills' = kills + 1 /\ kills < MaxKills
      BY <1>1
    <3>3. QED BY <3>1, <3>2
  <2>2. TypeOK /\ raced' \in BOOLEAN
    BY <1>1 DEF OwnerInv
  <2>3. /\ pc' \in [Exts -> {"down", "idle", "open", "read", "create", "write", "rename"}]
        /\ fd' \in [Exts -> {"", "tmp", "manifest"}]
        /\ after' \in [Exts -> {"idle", "open", "down"}]
    BY <1>1, <2>2, Types
  <2>4. /\ cur_date' \in [Exts -> Days \cup {NoDay}] /\ target' \in [Exts -> Days \cup {NoDay}]
        /\ doc' \in [Exts -> Docs]
    BY <1>1, <2>2, Types, NewDocOK
  <2>5. QED BY <1>1, <2>1, <2>2, <2>3, <2>4 DEF TypeOK
<1>3. ASSUME NEW y \in Exts
      PROVE  /\ y \in dead => /\ pc'[y] = "down" /\ cur_date'[y] = NoDay
                              /\ after'[y] = "idle" /\ doc'[y] = NewDoc
             /\ y \notin dead => SameWriter(y)
  BY <1>1 DEF SameWriter
<1>4. ASSUME NEW y \in Exts
      PROVE  WriterInv(y)'
  <2>1. CASE y \in dead
    <3>1. Real(doc[y])'
      BY <1>3, <2>1, NothingReal, RealNext
    <3>2. QED BY <1>3, <2>1, <3>1 DEF WriterInv, Busy
  <2>2. CASE y \notin dead
    <3>1. SameWriter(y) /\ WriterInv(y)
      BY <1>3, <2>2 DEF OwnerInv
    <3>2. Real(doc[y])'
      BY <1>1, <3>1 DEF WriterInv, Real, SameWriter
    <3>3. QED BY <3>1, <3>2, WriterKept
  <2>3. QED BY <2>1, <2>2
<1>5. Real(manifest)' /\ Real(tmp)'
  BY <1>1 DEF OwnerInv, ManifestWhole, Real
<1>6. CASE raced
  <2>1. ASSUME ~raced'
        PROVE  manifest' # Torn /\ \A y \in Exts : ~Finalizing(y)'
    <3>1. manifest # Torn /\ \A y \in Exts \ dead : ~Finalizing(y)
      BY <1>1, <1>6, <2>1 DEF Unsettled
    <3>2. QED BY <1>1, <1>3, <3>1 DEF Finalizing, SameWriter
  <2>2. QED BY <1>1, <1>2, <1>4, <1>5, <1>6, <2>1, RacedStep
<1>7. CASE ~raced
  <2>1. ~raced' /\ ManifestWhole'
    BY <1>1, <1>5, <1>7 DEF OwnerInv, ManifestWhole, NeverTorn
  <2>2. ASSUME NEW y \in Exts
        PROVE  Alone(y)'
    <3> SUFFICES ASSUME Finalizing(y)' PROVE Alone(y)'
      BY DEF Alone
    <3>1. y \notin dead /\ SameWriter(y) /\ Finalizing(y)
      BY <1>3 DEF Finalizing, SameWriter
    <3>2. Alone(y)
      BY <1>7 DEF OwnerInv
    <3>3. \A z \in Exts \ {y} : ~Finalizing(z)'
      BY <1>3, <3>1, <3>2 DEF Alone, Finalizing, SameWriter
    <3>4. Drafted(y)' = Drafted(y)
      BY <1>1, <3>1 DEF Drafted, Base, Entry, SameWriter
    <3>5. QED BY <1>1, <3>1, <3>2, <3>3, <3>4 DEF Alone, SameWriter
  <2>3. ASSUME NEW y \in Exts
        PROVE  OlderListed(y)'
    <3>1. pc'[y] = "open" => pc[y] = "open" /\ cur_date'[y] = cur_date[y]
      BY <1>3 DEF SameWriter
    <3>2. QED BY <1>1, <3>1, OlderKept DEF OwnerInv
  <2>4. QED BY <1>2, <1>4, <1>5, <2>1, <2>2, <2>3 DEF OwnerInv
<1>8. QED BY <1>6, <1>7

LEMMA MidnightInv ==
  ASSUME OwnerInv, Midnight \/ UNCHANGED vars
  PROVE  OwnerInv'
<1>1. UNCHANGED <<bars, manifest, tmp, locals, raced, kills>> /\ today' \in Days
  <2>1. LastDay \in Nat /\ today \in Days
    BY ParamsAssumption DEF OwnerInv, TypeOK
  <2>2. QED BY <2>1 DEF Midnight, vars, Days
<1>2. TypeOK'
  BY <1>1 DEF locals, OwnerInv, TypeOK
<1>3. UNCHANGED <<pc, cur_date, target, after, doc, fd>>
  BY <1>1 DEF locals
<1>4. ASSUME NEW y \in Exts
      PROVE  WriterInv(y)' /\ OlderListed(y)' /\ SameWriter(y)
  <2>1. SameWriter(y) /\ WriterInv(y) /\ OlderListed(y)
    BY <1>1, <1>3 DEF OwnerInv, SameWriter
  <2>2. Real(doc[y])'
    BY <1>1, <2>1 DEF WriterInv, Real, SameWriter
  <2>3. OlderListed(y)'
    BY <1>1, <1>3, <2>1, OlderKept
  <2>4. QED BY <2>1, <2>2, <2>3, WriterKept
<1>5. ASSUME ~raced', NEW y \in Exts
      PROVE  Alone(y)'
  <2>1. Alone(y)
    BY <1>1, <1>5 DEF OwnerInv
  <2>2. QED BY <1>1, <1>3, <2>1 DEF Alone, Finalizing, Drafted, Base, Entry
<1>6. ManifestWhole' /\ Real(tmp)'
  BY <1>1 DEF OwnerInv, ManifestWhole, NeverTorn, Real
<1>7. (raced => \E a, b \in Exts : a # b /\ HasBars(a) /\ HasBars(b))'
  BY <1>1, SameBars DEF OwnerInv
<1>8. QED BY <1>2, <1>4, <1>5, <1>6, <1>7 DEF OwnerInv

LEMMA OwnerInit == Init => OwnerInv
<1> SUFFICES ASSUME Init PROVE OwnerInv
  OBVIOUS
<1>1. LastDay \in Nat /\ MaxBars \in Nat /\ MaxKills \in Nat
  BY ParamsAssumption
<1>2. bars \in [Exts -> [Days -> 0 .. MaxBars]]
  <2>1. [d \in Days |-> 0] \in [Days -> 0 .. MaxBars]
    BY <1>1
  <2>2. QED BY <2>1 DEF Init
<1>3. TypeOK
  <2>1. today \in Days /\ kills \in 0 .. MaxKills
    <3>1. today = 0 /\ kills = 0
      BY DEF Init
    <3>2. QED BY <1>1, <3>1 DEF Days
  <2>2. QED BY <1>2, <2>1, NewDocOK DEF Init, TypeOK
<1>4. ManifestWhole /\ Real(tmp) /\ \A x \in Exts : Real(doc[x])
  <2>1. /\ manifest = NoDoc /\ tmp = NoDoc /\ manifest # Torn
        /\ \A x \in Exts : doc[x] = NewDoc
    BY DocAssumption DEF Init
  <2>2. QED BY <2>1, NothingReal, RealMeans DEF ManifestWhole, NeverTorn
<1>5. ASSUME NEW x \in Exts
      PROVE  WriterInv(x) /\ OlderListed(x) /\ Alone(x)
  <2>1. /\ pc[x] = "down" /\ cur_date[x] = NoDay /\ after[x] = "idle"
        /\ \A d \in Days : bars[x][d] = 0
    BY DEF Init
  <2>2. QED BY <1>4, <2>1 DEF WriterInv, OlderListed, Busy, Finalizing, Alone
<1>6. ~raced
  BY DEF Init
<1>7. QED BY <1>3, <1>4, <1>5, <1>6 DEF OwnerInv

LEMMA OwnerNext ==
  ASSUME OwnerInv, [Next]_vars
  PROVE  OwnerInv'
<1>1. ASSUME NEW x \in Exts, NEW d \in Days, Rotate(x, d)
      PROVE  OwnerInv'
  BY <1>1, RotateInv
<1>2. ASSUME NEW x \in Exts, Flush(x) \/ DropWriter(x)
      PROVE  OwnerInv'
  BY <1>2, FinalizeInv DEF Flush, DropWriter
<1>3. ASSUME NEW x \in Exts,
             \/ ReadManifest(x) \/ CreateTmp(x) \/ WriteTmp(x) \/ RenameTmp(x)
             \/ OpenWriter(x)
      PROVE  OwnerInv'
  BY <1>3, ReadInv, CreateInv, WriteTmpInv, RenameInv, OpenWriterInv
<1>4. ASSUME NEW dead \in SUBSET Exts, Kill(dead)
      PROVE  OwnerInv'
  BY <1>4, KillInv
<1>5. QED BY <1>1, <1>2, <1>3, <1>4, AppendOpenInv, MidnightInv DEF Next

-----------------------------------------------------------------------------
(* shard.rs BarShardWriter: the invariant, for every set of extensions,    *)
(* any days, bars and kills, however the finalizations overlap.            *)
THEOREM OwnerInductive == Spec => []OwnerInv
<1>1. OwnerInv /\ [Next]_vars => OwnerInv'
  BY OwnerNext
<1>2. QED BY <1>1, OwnerInit, PTL DEF Spec

(* shard.rs:1742: the entries of the manifest tell of bars that are there, *)
(* whatever the writers do at the same time; and it can be parsed at any   *)
(* moment, through every kill, until two finalizations overlap.            *)
THEOREM ManifestIsWhole == Spec => []ManifestWhole
<1>1. OwnerInv => ManifestWhole
  BY DEF OwnerInv
<1>2. QED BY <1>1, OwnerInductive, PTL

(* shard.rs:818: every day that a writer has left behind is listed whole,  *)
(* while the ticker has bars of one kind.                                  *)
THEOREM ClosedDaysListed == Spec => []OneKindListed
<1>1. ASSUME OwnerInv, OneKind
      PROVE  ClosedShardsListed
  <2>1. PICK x \in Exts : \A y \in Exts \ {x}, d \in Days : bars[y][d] = 0
    BY <1>1 DEF OneKind
  <2>2. OnlyKind(x) /\ TypeOK /\ WriterInv(x) /\ OlderListed(x)
    BY <1>1, <2>1 DEF OnlyKind, HasBars, OwnerInv
  <2> SUFFICES ASSUME NEW y \in Exts, NEW d \in Days, bars[y][d] > 0,
                      cur_date[y] # NoDay, d < cur_date[y]
               PROVE  InManifest(y, d)
    BY DEF ClosedShardsListed
  <2>3. y = x
    BY <2>1
  <2>4. cur_date[x] \in Days /\ bars[x][cur_date[x]] > 0
    BY <2>2, <2>3, Types DEF WriterInv
  <2>5. QED BY <2>2, <2>3, <2>4 DEF OlderListed
<1>2. OwnerInv => OneKindListed
  BY <1>1 DEF OneKindListed
<1>3. QED BY <1>2, OwnerInductive, PTL

(* shard.rs:1742: no rewrite of the manifest forgets a day or a kind,      *)
(* unless two finalizations overlap.                                       *)
THEOREM ManifestOnlyGrows == Spec => NothingForgotten
<1>1. ASSUME OwnerInv, [Next]_vars, manifest \in Docs, ~raced
      PROVE  StillTells(manifest, manifest')
  <2>1. CASE UNCHANGED manifest
    BY <1>1, <2>1 DEF StillTells
  <2>2. CASE \E x \in Exts : RenameTmp(x)
    BY <1>1, <2>2, RenameInv
  <2>3. ASSUME NEW x \in Exts, WriteTmp(x)
        PROVE  UNCHANGED manifest
    BY <1>1, <2>3, WriteTmpInv
  <2>4. QED BY <1>1, <2>1, <2>2, <2>3
            DEF Next, vars, Midnight, AppendBar, Rotate, OpenShard, Flush, DropWriter,
                FinalizeCurrent, ReadManifest, CreateTmp, Kill, OpenWriter
<1>2. OwnerInv /\ [Next]_vars =>
        [(manifest \in Docs /\ ~raced) => StillTells(manifest, manifest')]_vars
  BY <1>1
<1>3. QED BY <1>2, OwnerInductive, PTL DEF Spec, NothingForgotten
-----------------------------------------------------------------------------
(* Renko: the bricks account for every tick.                               *)

(* Rounding to a step is off by half a step at most.                       *)
LEMMA RoundFacts ==
  ASSUME NEW v \in Nat, NEW s \in Nat \ {0}
  PROVE  /\ Round(v, s) \in Nat /\ 2 * Round(v, s) <= 2 * v + s /\ 2 * v - s < 2 * Round(v, s)
         /\ Round(v, s) % s = 0
<1> DEFINE x == 2 * v + s
           m == 2 * s
           q == x \div m
           r == x % m
<1>1. x \in Nat /\ m \in Nat \ {0}
  OBVIOUS
<1>2. q \in Int /\ r \in 0 .. m - 1 /\ x = m * q + r
  <2> HIDE DEF x, m
  <2>1. QED BY <1>1, DivSplit
<1>3. q >= 0
  <2> HIDE DEF x, m
  <2>1. QED BY <1>1
<1>4. m * q = 2 * (q * s) /\ q * s \in Nat
  <2>1. ASSUME NEW a \in Nat PROVE (2 * s) * a = 2 * (a * s) /\ a * s \in Nat
    OBVIOUS
  <2> HIDE DEF q
  <2>2. QED BY <2>1, <1>2, <1>3
<1>5. Round(v, s) = q * s
  BY DEF Round
<1>6. (q * s) % s = 0
  <2>1. ASSUME NEW a \in Nat PROVE (a * s) % s = 0
    <3> DEFINE y == a * s
    <3>1. y \in Int
      OBVIOUS
    <3>2. y \div s \in Int /\ y % s \in 0 .. s - 1 /\ y = s * (y \div s) + (y % s)
      <4> HIDE DEF y
      <4>1. QED BY <3>1, DivSplit
    <3>3. ASSUME NEW e \in Int, NEW f \in 0 .. s - 1, a * s = s * e + f PROVE f = 0
      <4>1. s * (a - e) = f
        BY <3>3
      <4>2. CASE a - e >= 1
        <5>1. s * (a - e) >= s
          BY <4>2
        <5>2. QED BY <4>1, <5>1
      <4>3. CASE a - e <= -1
        <5>1. s * (a - e) <= -s
          BY <4>3
        <5>2. QED BY <4>1, <5>1
      <4>4. CASE a - e = 0
        BY <4>1, <4>4
      <4>5. QED BY <4>2, <4>3, <4>4
    <3>4. QED BY <3>2, <3>3
  <2> HIDE DEF q
  <2>2. QED BY <2>1, <1>2, <1>3
<1> HIDE DEF q, r, x, m
<1>7. 2 * (q * s) + r = 2 * v + s /\ r >= 0 /\ r < 2 * s
  BY <1>2, <1>4 DEF x, m
<1>8. \A w \in Nat : 2 * w + r = 2 * v + s => 2 * w <= 2 * v + s /\ 2 * v - s < 2 * w
  BY <1>2, <1>7, SMT DEF m
<1>9. 2 * (q * s) <= 2 * v + s /\ 2 * v - s < 2 * (q * s)
  BY <1>4, <1>7, <1>8
<1>10. QED BY <1>4, <1>5, <1>6, <1>9

-----------------------------------------------------------------------------
Limit == 1000000
LEMMA PowerFacts ==
  ASSUME NEW v \in Nat, 1 <= v, v < Limit
  PROVE  Power10(v) \in {1, 10, 100, 1000, 10000, 100000} /\ Power10(v) <= v /\ v < 10 * Power10(v)
<1> DEFINE P == {1, 10, 100, 1000, 10000, 100000}
<1>1. v \in Nat /\ v >= 1 /\ v < 1000000
  BY SMT DEF Limit
<1>2. \E p \in P : p <= v /\ v < 10 * p
  <2>1. CASE v < 10
    BY <1>1, <2>1, SMT
  <2>2. CASE v >= 10 /\ v < 100
    BY <1>1, <2>2, SMT
  <2>3. CASE v >= 100 /\ v < 1000
    BY <1>1, <2>3, SMT
  <2>4. CASE v >= 1000 /\ v < 10000
    BY <1>1, <2>4, SMT
  <2>5. CASE v >= 10000 /\ v < 100000
    BY <1>1, <2>5, SMT
  <2>6. CASE v >= 100000
    BY <1>1, <2>6, SMT
  <2>7. QED BY <1>1, <2>1, <2>2, <2>3, <2>4, <2>5, <2>6, SMT
<1>3. Power10(v) = CHOOSE p \in P : p <= v /\ v < 10 * p
  BY SMT DEF Power10
<1> HIDE DEF P
<1>4. Power10(v) \in P /\ Power10(v) <= v /\ v < 10 * Power10(v)
  BY <1>2, <1>3
<1>5. QED BY <1>4, SMT DEF P

LEMMA UnitFacts ==
  ASSUME NEW v \in Nat, 1 <= v, v < Limit
  PROVE  /\ Unit(v) \in {1, 10, 100} /\ (Unit(v) > 1 => 1000 * Unit(v) <= v)
         /\ GridStep(v) \in Nat \ {0} /\ (v >= 2 => GridStep(v) < 2 * v)
<1>1. Unit(v) \in {1, 10, 100} /\ (Unit(v) > 1 => 1000 * Unit(v) <= v)
  <2>1. 1000 \div 1000 = 1 /\ 10000 \div 1000 = 10 /\ 100000 \div 1000 = 100
    BY SMT
  <2>2. QED BY <2>1, PowerFacts, SMT DEF Unit
<1>2. QED BY <1>1, SMT DEF GridStep

(* A size on the grid is two at least.                                     *)
LEMMA SnapFacts ==
  ASSUME NEW v \in Nat, v < Limit
  PROVE  SnapTo25Grid(v) \in Nat /\ (v = 0 => SnapTo25Grid(v) = 0) /\ (v > 0 => SnapTo25Grid(v) >= 2)
<1>1. CASE v = 0
  BY <1>1 DEF SnapTo25Grid
<1>2. CASE v > 0
  <2> DEFINE u == Unit(v)
             two == Round(v, 2 * u)
             five == Round(v, 5 * u)
  <2>1. 1 <= v
    BY <1>2
  <2>2. u \in {1, 10, 100} /\ (u > 1 => 1000 * u <= v)
    BY <2>1, UnitFacts
  <2>3. 2 * u \in Nat \ {0} /\ 5 * u \in Nat \ {0}
    BY <2>2
  <2>4. SnapTo25Grid(v) = IF Away(v, two) <= Away(v, five) THEN two ELSE five
    BY <1>2 DEF SnapTo25Grid
  <2> HIDE DEF u
  <2>5. /\ two \in Nat /\ 2 * two <= 2 * v + 2 * u /\ 2 * v - 2 * u < 2 * two
        /\ five \in Nat /\ 2 * five <= 2 * v + 5 * u /\ 2 * v - 5 * u < 2 * five
    BY <2>3, RoundFacts
  <2>6. CASE u > 1
    <3> HIDE DEF two, five
    <3>1. QED BY <1>2, <2>2, <2>4, <2>5, <2>6, SMT
  <2>7. CASE u = 1
    <3>1. two % 2 = 0
      BY <2>3, <2>7, RoundFacts
    <3>3. five % 5 = 0
      BY <2>3, <2>7, RoundFacts
    <3> HIDE DEF two, five
    <3>2. five # 1
      BY <3>3, SMT
    <3>4. two >= 2
      BY <2>5, <2>7, <1>2, <3>1, SMT
    <3>5. ~(Away(v, two) <= Away(v, five)) => five >= 2
      BY <2>5, <2>7, <1>2, <3>1, <3>2, <3>4, SMT DEF Away
    <3>6. QED BY <1>2, <2>4, <2>5, <3>4, <3>5, SMT
  <2>8. QED BY <2>2, <2>6, <2>7
<1>3. QED BY <1>1, <1>2

-----------------------------------------------------------------------------
Wicks  == [high : Int, low : Int]
Engine == [k : Nat, size : Nat, step : Nat, period : Int, init : BOOLEAN, last : Nat,
           wick : Wicks, since : Nat, ticks : Nat]
Laid   == [open : Nat, close : Nat, open_t : Nat, close_t : Nat, hl : Wicks, synthetic : BOOLEAN,
           ticks : Nat, size : Nat, step : Nat]
Walks  == [g : Engine, out : Seq(Laid)]
Sized(g) == g.size # 0 => g.step \in Nat \ {0} /\ g.step < 2 * g.size

(* The next close lies a size away, up to half a step, towards the price.  *)
LEMMA TargetFacts ==
  ASSUME NEW g \in Engine, NEW p \in Nat
  PROVE  /\ Target(g, p) \in Nat
         /\ Sized(g) /\ g.size # 0 =>
              /\ Target(g, p) = g.last => Away(p, g.last) < g.size
              /\ Target(g, p) # g.last =>
                   /\ Target(g, p) % g.step = 0
                   /\ 2 * Away(Away(g.last, Target(g, p)), g.size) <= g.step
                   /\ \/ p - g.last >= g.size /\ Target(g, p) > g.last /\ Target(g, p) - p < g.size
                      \/ g.last - p >= g.size /\ Target(g, p) < g.last /\ p - Target(g, p) < g.size
<1> DEFINE l == g.last
           z == g.size
           st == g.step
           c == Target(g, p)
<1>1. l \in Nat /\ z \in Nat /\ st \in Nat
  BY DEF Engine
<1>2. c = CASE p - l >= z -> SnapToGrid(l + z, st)
            [] l - p >= z -> SnapToGrid(l - z, st)
            [] OTHER -> l
  BY DEF Target
<1>3. ASSUME NEW v \in Nat PROVE SnapToGrid(v, st) \in Nat
  <2>1. CASE st <= 0
    BY <2>1 DEF SnapToGrid
  <2>2. CASE st \in Nat \ {0}
    BY <2>2, RoundFacts DEF SnapToGrid
  <2>3. QED BY <1>1, <2>1, <2>2
<1> HIDE DEF l, z, st, c
<1>4. l + z \in Nat /\ (l - p >= z => l - z \in Nat)
  BY <1>1
<1>5. c \in Nat
  BY <1>1, <1>2, <1>3, <1>4
<1>6. ASSUME z # 0, st # 0, st < 2 * z
      PROVE  /\ c = l => Away(p, l) < z
             /\ c # l =>
                  /\ c % st = 0
                  /\ 2 * Away(Away(l, c), z) <= st
                  /\ \/ p - l >= z /\ c > l /\ c - p < z
                     \/ l - p >= z /\ c < l /\ p - c < z
  <2>1. ASSUME NEW v \in Nat
        PROVE  /\ SnapToGrid(v, st) = Round(v, st) /\ Round(v, st) \in Nat
               /\ 2 * Round(v, st) <= 2 * v + st /\ 2 * v - st < 2 * Round(v, st)
               /\ Round(v, st) % st = 0
    BY <1>1, <1>6, RoundFacts DEF SnapToGrid
  <2>2. CASE p - l >= z
    <3>0. ~(l - p >= z)
      BY <2>2, <1>1, <1>6
    <3>1. c = Round(l + z, st)
      BY <1>2, <1>4, <2>1, <2>2, <3>0
    <3>2. c % st = 0 /\ 2 * c <= 2 * (l + z) + st /\ 2 * (l + z) - st < 2 * c
      BY <3>1, <1>4, <2>1
    <3>3. c > l /\ c - p < z
      BY <3>2, <2>2, <1>1, <1>5, <1>6, SMT
    <3>4. 2 * Away(Away(l, c), z) <= st
      BY <3>2, <3>3, <1>1, <1>5, <1>6, SMT DEF Away
    <3>5. QED BY <2>2, <3>2, <3>3, <3>4, <1>1, <1>5
  <2>3. CASE l - p >= z
    <3>0. ~(p - l >= z)
      BY <2>3, <1>1, <1>6
    <3>1. c = Round(l - z, st)
      BY <1>2, <1>4, <2>1, <2>3, <3>0
    <3>2. c % st = 0 /\ 2 * c <= 2 * (l - z) + st /\ 2 * (l - z) - st < 2 * c
      BY <3>1, <1>4, <2>1, <2>3
    <3>3. c < l /\ p - c < z
      BY <3>2, <2>3, <1>1, <1>5, <1>6, SMT
    <3>4. 2 * Away(Away(l, c), z) <= st
      BY <3>2, <3>3, <1>1, <1>5, <1>6, SMT DEF Away
    <3>5. QED BY <2>3, <3>2, <3>3, <3>4, <1>1, <1>5
  <2>4. CASE ~(p - l >= z) /\ ~(l - p >= z)
    <3>1. c = l
      BY <1>2, <2>4
    <3>2. Away(p, l) < z
      BY <2>4, <1>1 DEF Away
    <3>3. QED BY <3>1, <3>2
  <2>5. QED BY <2>2, <2>3, <2>4
<1>7. QED BY <1>1, <1>5, <1>6 DEF Sized, c, l, z, st

(* The state of the walk after n turns of its loop.                        *)
OneBrick(chain, i) ==
  /\ 2 * Away(Body(chain[i]), chain[i].size) <= chain[i].step
  /\ chain[i].close % chain[i].step = 0
  /\ chain[i].synthetic <=> i > 1
  /\ i > 1 => chain[i].open = chain[i - 1].close /\ chain[i].ticks = 0
Towards(g, p, s) ==
  \/ s.g.last - p < g.size /\ \A i \in DOMAIN s.out : s.out[i].open < s.out[i].close
  \/ p - s.g.last < g.size /\ \A i \in DOMAIN s.out : s.out[i].open > s.out[i].close
Along(g, p, s) ==
  /\ s \in Walks
  /\ s.g.size = g.size /\ s.g.step = g.step /\ s.g.k = g.k
  /\ s.out = <<>> => s.g = g
  /\ s.out # <<>> =>
       /\ s.g.ticks = 0 /\ s.g.wick = NoWindow /\ s.g.last = s.out[Len(s.out)].close
       /\ s.out[1].ticks = g.ticks
       /\ s.out[1].hl = HighLow(g, g.last, s.out[1].close, TRUE)
  /\ \A i \in DOMAIN s.out : OneBrick(s.out, i)
  /\ Towards(g, p, s)
Walked(g, p, s, n) ==
  /\ Along(g, p, s) /\ Len(s.out) <= n
  /\ Len(s.out) = n \/ Target(s.g, p) = s.g.last

TurnsAt(p, t, i, s) ==
  LET c == Target(s.g, p) IN
  IF c = s.g.last THEN s
  ELSE [g |-> Emitted(s.g, t, c), out |-> Append(s.out, Brick(s.g, t, c, i = 1))]

LEMMA EmittedType ==
  ASSUME NEW g \in Engine, NEW c \in Nat, NEW t \in Nat
  PROVE  /\ Emitted(g, t, c) \in Engine
         /\ Emitted(g, t, c).size = g.size /\ Emitted(g, t, c).step = g.step /\ Emitted(g, t, c).k = g.k
         /\ Emitted(g, t, c).ticks = 0 /\ Emitted(g, t, c).wick = NoWindow /\ Emitted(g, t, c).last = c
<1>1. NoWindow \in Wicks
  BY DEF NoWindow, Wicks
<1>2. QED BY <1>1 DEF Emitted, Engine

LEMMA WidenedType ==
  ASSUME NEW w \in Wicks, NEW p \in Int
  PROVE  /\ Widened(w, p) \in Wicks
         /\ Widened(w, p).low <= p /\ p <= Widened(w, p).high
         /\ w # NoWindow => Widened(w, p).low <= w.low /\ w.high <= Widened(w, p).high
BY DEF Widened, Wicks

LEMMA LaidOne ==
  ASSUME NEW s \in Seq(Laid), NEW m \in Laid
  PROVE  LET n == Len(s)  chain == Append(s, m)
         IN  /\ chain \in Seq(Laid) /\ Len(chain) = n + 1 /\ chain # <<>> /\ chain[n + 1] = m
             /\ \A i \in 1 .. n : chain[i] = s[i]
             /\ DOMAIN chain = 1 .. n + 1 /\ DOMAIN s = 1 .. n
OBVIOUS

(* What one turn that lays a brick makes of the engine.                    *)
Made(e, c, i, new, later) ==
  /\ new \in Laid /\ new.open = e.last /\ new.close = c /\ (new.synthetic <=> i # 1)
  /\ new.size = e.size /\ new.step = e.step /\ new.ticks = (IF i = 1 THEN e.ticks ELSE 0)
  /\ i = 1 => new.hl = HighLow(e, e.last, c, TRUE)
  /\ later \in Engine /\ later.size = e.size /\ later.step = e.step /\ later.k = e.k
  /\ later.ticks = 0 /\ later.wick = NoWindow /\ later.last = c
LEMMA Makes ==
  ASSUME NEW g \in Engine, NEW c \in Nat, NEW t \in Nat, NEW i \in Nat
  PROVE  Made(g, c, i, Brick(g, t, c, i = 1), Emitted(g, t, c))
<1> DEFINE body == [high |-> IF g.last > c THEN g.last ELSE c, low |-> IF g.last > c THEN c ELSE g.last]
           one == i = 1
           hl == HighLow(g, g.last, c, one)
           count == IF one THEN g.ticks ELSE 0
           new == Brick(g, t, c, one)
           later == Emitted(g, t, c)
<1>1. body \in Wicks /\ g.wick \in Wicks /\ g.last \in Nat /\ g.size \in Nat /\ g.step \in Nat
      /\ g.since \in Nat /\ g.ticks \in Nat /\ count \in Nat
  BY DEF Wicks, Engine
<1>2. hl = IF one /\ g.wick # NoWindow
        THEN Widened(Widened(body, g.wick.high), g.wick.low) ELSE body
  BY DEF HighLow
<1>3. g.wick.high \in Int /\ g.wick.low \in Int
  BY <1>1 DEF Wicks
<1>4. hl \in Wicks
  <2> HIDE DEF body, hl, one
  <2>1. QED BY <1>1, <1>2, <1>3, WidenedType
<1>5. (i = 1) => hl = HighLow(g, g.last, c, TRUE)
  BY DEF HighLow
<1>6. new = [open |-> g.last, close |-> c, open_t |-> g.since, close_t |-> t, hl |-> hl,
             synthetic |-> ~one,
             ticks |-> count, size |-> g.size, step |-> g.step]
  BY DEF Brick
<1>7. (~one) \in BOOLEAN
  OBVIOUS
<1> HIDE DEF new, hl, count
<1>8. new \in Laid
  <2> HIDE DEF one
  <2>1. QED BY <1>1, <1>4, <1>6, <1>7 DEF Laid
<1>9. new.synthetic <=> i # 1
  BY <1>6
<1>10. /\ new.open = g.last /\ new.close = c /\ new.size = g.size /\ new.step = g.step
       /\ new.ticks = count /\ new.hl = hl
  BY <1>6
<1>11. i = 1 => new.hl = HighLow(g, g.last, c, TRUE)
  BY <1>5, <1>10
<1>12. new.ticks = IF i = 1 THEN g.ticks ELSE 0
  BY <1>10 DEF count
<1>13. /\ later \in Engine /\ later.size = g.size /\ later.step = g.step /\ later.k = g.k
       /\ later.ticks = 0 /\ later.wick = NoWindow /\ later.last = c
  BY EmittedType
<1> HIDE DEF later, one
<1>14. Made(g, c, i, new, later)
  BY <1>8, <1>9, <1>10, <1>11, <1>12, <1>13 DEF Made
<1>15. QED BY <1>14 DEF new, later, one

LEMMA TurnFacts ==
  ASSUME NEW g \in Engine, Sized(g), g.size # 0, NEW p \in Nat, NEW t \in Nat,
         NEW n \in Nat, NEW s, Walked(g, p, s, n)
  PROVE  Walked(g, p, TurnsAt(p, t, n + 1, s), n + 1)
<1> DEFINE c == Target(s.g, p)
           e == s.g
           new == Brick(e, t, c, n + 1 = 1)
           later == Emitted(e, t, c)
           chain == Append(s.out, new)
           N == Len(s.out)
<1>1. s.g \in Engine /\ s.out \in Seq(Laid) /\ N \in Nat /\ N <= n /\ Along(g, p, s)
  <2>1. Along(g, p, s) /\ s \in Walks /\ Len(s.out) <= n
    BY DEF Walked, Along
  <2>2. s.g \in Engine /\ s.out \in Seq(Laid)
    BY <2>1 DEF Walks
  <2>3. QED BY <2>1, <2>2
<1>2. Sized(s.g) /\ s.g.size # 0 /\ s.g.size = g.size /\ s.g.step = g.step /\ s.g.k = g.k
  BY <1>1 DEF Along, Sized
<1>3. CASE c = s.g.last
  <2>1. TurnsAt(p, t, n + 1, s) = s
    BY <1>3 DEF TurnsAt
  <2>2. QED BY <2>1, <1>1, <1>3 DEF Walked
<1>4. CASE c # s.g.last
  <2>1. TurnsAt(p, t, n + 1, s) = [g |-> later, out |-> chain]
    BY <1>4 DEF TurnsAt
  <2>2. N = n
    BY <1>4 DEF Walked
  <2>3. /\ c \in Nat /\ c % g.step = 0 /\ 2 * Away(Away(s.g.last, c), g.size) <= g.step
        /\ \/ p - s.g.last >= g.size /\ c > s.g.last /\ c - p < g.size
           \/ s.g.last - p >= g.size /\ c < s.g.last /\ p - c < g.size
    BY <1>1, <1>2, <1>4, TargetFacts
  <2>4. Made(e, c, n + 1, new, later)
    <3>1. c \in Nat /\ n + 1 \in Nat /\ e \in Engine
      BY <1>1, <2>3
    <3> HIDE DEF c, e
    <3>2. \A ii \in Nat : Made(e, c, ii, Brick(e, t, c, ii = 1), Emitted(e, t, c))
      BY <3>1, Makes
    <3>3. QED BY <3>1, <3>2
  <2> HIDE DEF c, e, new, later
  <2>17. (n + 1 # 1 <=> n # 0) /\ (n = 0 => n + 1 = 1) /\ (n # 0 => n + 1 # 1)
    OBVIOUS
  <2>16. /\ new \in Laid /\ new.open = s.g.last /\ new.close = c /\ (new.synthetic <=> n # 0)
         /\ new.size = g.size /\ new.step = g.step /\ (n = 0 => new.ticks = s.g.ticks)
         /\ (n # 0 => new.ticks = 0)
         /\ n = 0 => new.hl = HighLow(s.g, s.g.last, c, TRUE)
    <3>1. e.size = g.size /\ e.step = g.step
      BY <1>2 DEF e
    <3>2. /\ new \in Laid /\ new.open = e.last /\ new.close = c /\ (new.synthetic <=> n + 1 # 1)
          /\ new.size = e.size /\ new.step = e.step
      BY <2>4 DEF Made
    <3>3. /\ n = 0 => new.ticks = e.ticks /\ new.hl = HighLow(e, e.last, c, TRUE)
          /\ n # 0 => new.ticks = 0
      BY <2>4, <2>17 DEF Made
    <3>4. QED BY <3>1, <3>2, <3>3, <2>17 DEF e
  <2>5. /\ later \in Engine /\ later.size = g.size /\ later.step = g.step /\ later.k = g.k
        /\ later.ticks = 0 /\ later.wick = NoWindow /\ later.last = c
    BY <2>4, <1>2 DEF Made, e
  <2>6. /\ chain \in Seq(Laid) /\ Len(chain) = n + 1 /\ chain # <<>> /\ chain[n + 1] = new
        /\ \A i \in 1 .. n : chain[i] = s.out[i]
        /\ DOMAIN chain = 1 .. n + 1 /\ DOMAIN s.out = 1 .. n
    BY <1>1, <2>2, <2>16, LaidOne
  <2>7. n # 0 => s.g.last = s.out[n].close /\ s.out # <<>>
    <3>1. n # 0 => s.out # <<>>
      BY <2>2
    <3>2. QED BY <1>1, <2>2, <3>1 DEF Along
  <2>8. n = 0 => s.out = <<>> /\ s.g = g
    <3>1. n = 0 => s.out = <<>>
      BY <1>1, <2>2, EmptySeq
    <3>2. QED BY <1>1, <3>1 DEF Along
  <2> HIDE DEF chain
  <2>9. ASSUME NEW i \in 1 .. n + 1 PROVE OneBrick(chain, i)
    <3>1. CASE i = n + 1
      <4>1. /\ chain[i].open = s.g.last /\ chain[i].close = c /\ chain[i].step = g.step
            /\ chain[i].size = g.size
        BY <3>1, <2>16, <2>6
      <4>2. Body(chain[i]) = Away(s.g.last, c)
        BY <4>1 DEF Body
      <4>3. chain[i].synthetic <=> i > 1
        BY <3>1, <2>16, <2>6
      <4>4. i > 1 => chain[i].open = chain[i - 1].close /\ chain[i].ticks = 0
        BY <3>1, <2>16, <2>6, <2>7
      <4>5. QED BY <4>1, <4>2, <4>3, <4>4, <2>3 DEF OneBrick
    <3>2. CASE i \in 1 .. n
      <4>1. OneBrick(s.out, i)
        BY <3>2, <2>6, <1>1 DEF Along
      <4>2. chain[i] = s.out[i] /\ (i > 1 => chain[i - 1] = s.out[i - 1])
        BY <3>2, <2>6
      <4>3. QED BY <4>1, <4>2 DEF OneBrick
    <3>3. QED BY <3>1, <3>2
  <2>10. Towards(g, p, [g |-> later, out |-> chain])
    <3> DEFINE u == [g |-> later, out |-> chain]
    <3>1. u.g.last = c /\ u.out = chain
      BY <2>5
    <3>2. s.g.last \in Nat /\ g.size \in Nat
      BY <1>1 DEF Engine
    <3>3. CASE p - s.g.last >= g.size /\ c > s.g.last /\ c - p < g.size
      <4>1. ~(p - s.g.last < g.size)
        BY <3>2, <3>3
      <4>2. \A i \in 1 .. n : s.out[i].open < s.out[i].close
        BY <4>1, <2>6, <1>1 DEF Along, Towards
      <4>3. chain[n + 1].open < chain[n + 1].close
        BY <3>3, <2>16, <2>6, <3>2, <2>3
      <4>4. \A i \in DOMAIN chain : chain[i].open < chain[i].close
        BY <4>2, <4>3, <2>6
      <4>5. QED BY <4>4, <3>1, <3>3 DEF Towards
    <3>4. CASE s.g.last - p >= g.size /\ c < s.g.last /\ p - c < g.size
      <4>1. ~(s.g.last - p < g.size)
        BY <3>2, <3>4
      <4>2. \A i \in 1 .. n : s.out[i].open > s.out[i].close
        BY <4>1, <2>6, <1>1 DEF Along, Towards
      <4>3. chain[n + 1].open > chain[n + 1].close
        BY <3>4, <2>16, <2>6, <3>2, <2>3
      <4>4. \A i \in DOMAIN chain : chain[i].open > chain[i].close
        BY <4>2, <4>3, <2>6
      <4>5. QED BY <4>4, <3>1, <3>4 DEF Towards
    <3>5. QED BY <3>3, <3>4, <2>3
  <2>11. /\ chain[1].ticks = g.ticks /\ chain[1].hl = HighLow(g, g.last, chain[1].close, TRUE)
    <3>1. CASE n = 0
      <4>1. chain[1] = new
        BY <3>1, <2>6
      <4>2. QED BY <4>1, <3>1, <2>16, <2>8
    <3>2. CASE n # 0
      <4>1. chain[1] = s.out[1]
        BY <3>2, <2>6
      <4>2. QED BY <4>1, <3>2, <2>7, <1>1 DEF Along
    <3>3. QED BY <3>1, <3>2
  <2>12. [g |-> later, out |-> chain] \in Walks
    BY <2>5, <2>6 DEF Walks
  <2> DEFINE u == [g |-> later, out |-> chain]
  <2>13. u.g = later /\ u.out = chain
    OBVIOUS
  <2>14. Along(g, p, u)
    <3>1. u \in Walks /\ Towards(g, p, u)
      BY <2>10, <2>12
    <3>2. later.last = chain[Len(chain)].close
      BY <2>16, <2>5, <2>6
    <3> HIDE DEF u
    <3>3. QED BY <3>1, <3>2, <1>2, <2>5, <2>6, <2>9, <2>11, <2>13 DEF Along
  <2> HIDE DEF u
  <2>15. QED BY <2>1, <2>6, <2>13, <2>14 DEF Walked, u
<1>5. QED BY <1>3, <1>4

LEMMA WalkFacts ==
  ASSUME NEW g \in Engine, Sized(g), g.size # 0, NEW p \in Nat, NEW t \in Nat
  PROVE  Walked(g, p, Walk(g, p, t), MaxBricks)
<1> DEFINE N == MaxBricks
           step == [i \in 1 .. N |-> [s \in Walks |-> TurnsAt(p, t, i, s)]]
           start == [g |-> g, out |-> <<>>]
           w[i \in 0 .. MaxBricks] ==
             IF i = 0 THEN [g |-> g, out |-> <<>>]
             ELSE LET s == w[i - 1]  c == Target(s.g, p) IN
               IF c = s.g.last THEN s
               ELSE [g |-> Emitted(s.g, t, c), out |-> Append(s.out, Brick(s.g, t, c, i = 1))]
<1>0. N \in Nat
  BY RenkoAssumption
<1>1. start \in Walks
  BY DEF Walks
<1>2. ASSUME NEW i \in 1 .. N, NEW s \in Walks PROVE TurnsAt(p, t, i, s) \in Walks
  <2>1. s.g \in Engine /\ s.out \in Seq(Laid)
    BY DEF Walks
  <2>2. Target(s.g, p) \in Nat
    BY <2>1, TargetFacts
  <2>3. Emitted(s.g, t, Target(s.g, p)) \in Engine
    BY <2>1, <2>2, EmittedType
  <2>4. Brick(s.g, t, Target(s.g, p), i = 1) \in Laid
    <3>1. \A ee \in Engine : \A cc, ii \in Nat : Brick(ee, t, cc, ii = 1) \in Laid
      BY Makes DEF Made
    <3>2. i \in Nat
      BY <1>0
    <3>3. QED BY <2>1, <2>2, <3>1, <3>2
  <2>5. Append(s.out, Brick(s.g, t, Target(s.g, p), i = 1)) \in Seq(Laid)
    BY <2>1, <2>4
  <2>6. QED BY <2>1, <2>3, <2>5 DEF TurnsAt, Walks
<1>3. step \in [1 .. N -> [Walks -> Walks]]
  BY <1>2
<1>4. PICK h \in [0 .. N -> Walks] : h[0] = start /\ \A i \in 1 .. N : h[i] = step[i][h[i - 1]]
  <2> HIDE DEF step, start, N
  <2>1. QED BY <1>0, <1>1, <1>3, Iterates
<1>5. ASSUME NEW i \in 1 .. N PROVE h[i - 1] \in Walks /\ h[i] = TurnsAt(p, t, i, h[i - 1])
  <2>1. i - 1 \in 0 .. N
    BY <1>0
  <2>2. h[i - 1] \in Walks /\ h[i] = step[i][h[i - 1]]
    BY <1>4, <2>1
  <2>3. step[i] = [s \in Walks |-> TurnsAt(p, t, i, s)]
    OBVIOUS
  <2>4. QED BY <2>2, <2>3
<1>6. w = [i \in 0 .. N |-> IF i = 0 THEN start ELSE TurnsAt(p, t, i, w[i - 1])]
  <2>1. h = [i \in 0 .. N |-> IF i = 0 THEN start ELSE TurnsAt(p, t, i, h[i - 1])]
    BY <1>4, <1>5, <1>0
  <2> DEFINE Loop(f_) == [i \in 0 .. N |-> IF i = 0 THEN start ELSE TurnsAt(p, t, i, f_[i - 1])]
  <2>2. w = CHOOSE f_ : f_ = Loop(f_)
    BY DEF TurnsAt
  <2> HIDE DEF w, Loop
  <2>3. h = Loop(h)
    BY <2>1 DEF Loop
  <2>4. w = Loop(w)
    BY <2>2, <2>3
  <2>5. QED BY <2>4 DEF Loop
<1>7. Walk(g, p, t) = w[N]
  BY DEF Walk
<1> HIDE DEF w, N, step
<1> DEFINE T == {n \in Nat : n <= N => Walked(g, p, w[n], n)}
<1>8. 0 \in T
  <2>1. w[0] = start
    BY <1>0, <1>6
  <2>2. Towards(g, p, start)
    <3>1. g.last \in Nat /\ g.size \in Nat
      BY DEF Engine
    <3>2. g.last - p < g.size \/ p - g.last < g.size
      BY <3>1
    <3>3. QED BY <3>2 DEF Towards
  <2>3. start.g = g /\ start.out = <<>>
    OBVIOUS
  <2>4. Along(g, p, start)
    <3>1. \A i \in DOMAIN start.out : OneBrick(start.out, i)
      BY <2>3
    <3> HIDE DEF start
    <3>2. QED BY <3>1, <2>2, <2>3, <1>1 DEF Along
  <2>5. QED BY <2>1, <2>3, <2>4 DEF Walked
<1>9. ASSUME NEW n \in Nat, n \in T PROVE n + 1 \in T
  <2> SUFFICES ASSUME n + 1 <= N PROVE Walked(g, p, w[n + 1], n + 1)
    OBVIOUS
  <2>1. Walked(g, p, w[n], n)
    BY <1>9, <1>0
  <2>2. w[n + 1] = TurnsAt(p, t, n + 1, w[n])
    <3>1. n + 1 \in 0 .. N /\ n + 1 # 0 /\ (n + 1) - 1 = n
      BY <1>0
    <3>2. QED BY <3>1, <1>6
  <2>3. QED BY <2>1, <2>2, TurnFacts
<1>10. N \in T
  <2> HIDE DEF T
  <2>1. QED BY <1>0, <1>8, <1>9, Inductively
<1>11. QED BY <1>0, <1>7, <1>10 DEF N

-----------------------------------------------------------------------------
(* The inductive invariant.                                                *)
Ks == Multipliers \cup {KFloor}

Pasts == [owed : Int, fed : SUBSET Nat, covered : SUBSET Nat, price : Nat, disk : Nat]
RenHeld ==
  /\ ren \in Engine /\ Sized(ren) /\ ren.k \in Ks /\ halfHour \in Nat
  /\ past \in Pasts /\ bricks \in Seq(Laid) /\ Len(bricks) <= MaxBricks
  /\ \A q \in past.fed : ren.wick # NoWindow /\ ren.wick.low <= q /\ q <= ren.wick.high
RenInv == RenHeld /\ RenkoAccounts

LEMMA RenParams ==
  /\ Prices \subseteq Nat /\ Sigmas \subseteq Nat /\ Ks \subseteq Nat /\ MaxBricks \in Nat
BY RenkoAssumption DEF Ks, KFloor

LEMMA GeneratorType ==
  ASSUME NEW k \in Ks
  PROVE  LET e == Generator(k) IN
         /\ e \in Engine /\ e.k = k /\ e.size = 0 /\ e.ticks = 0 /\ e.wick = NoWindow
<1>1. NoWindow \in Wicks
  BY DEF NoWindow, Wicks
<1>2. k \in Nat /\ -1 \in Int
  BY RenParams
<1>3. QED BY <1>1, <1>2 DEF Generator, Engine

LEMMA SnapType ==
  ASSUME NEW v \in Nat, NEW step \in Nat
  PROVE  SnapToGrid(v, step) \in Nat
<1>1. CASE step <= 0
  BY <1>1 DEF SnapToGrid
<1>2. CASE step \in Nat \ {0}
  BY <1>2, RoundFacts DEF SnapToGrid
<1>3. QED BY <1>1, <1>2

(* A new size, and what stays as it was.                                   *)
Refitted(e, r) ==
  /\ r \in Engine /\ Sized(r) /\ r.k = e.k /\ r.wick = e.wick /\ r.ticks = e.ticks
LEMMA SizedType ==
  ASSUME NEW e \in Engine, NEW z \in Nat, NEW st \in Nat, NEW t \in Nat
  PROVE  [e EXCEPT !.size = z, !.step = st, !.period = t] \in Engine
<1>1. t \in Int
  OBVIOUS
<1>2. QED BY <1>1 DEF Engine
LEMMA ResizedFacts ==
  ASSUME NEW e \in Engine, e.k \in Ks, NEW p \in Prices, NEW t \in Nat, NEW sigma \in Sigmas
  PROVE  Refitted(e, Resized(e, p, t, sigma))
<1>1. CASE e.k < KFloor
  <2>1. Resized(e, p, t, sigma) = [e EXCEPT !.size = 0, !.step = 0]
    BY <1>1 DEF Resized
  <2> DEFINE r == [e EXCEPT !.size = 0, !.step = 0]
  <2>2. r \in Engine
    BY DEF Engine
  <2>3. r.size = 0 /\ r.k = e.k /\ r.wick = e.wick /\ r.ticks = e.ticks
    BY DEF Engine
  <2> HIDE DEF r
  <2>4. Refitted(e, r)
    BY <2>2, <2>3 DEF Refitted, Sized
  <2>5. QED BY <2>1, <2>4 DEF r
<1>2. CASE ~(e.k < KFloor)
  <2> DEFINE raw == RawBrick(e.k, p, sigma)
             size == SnapTo25Grid(raw)
             step == GridStep(size)
  <2>1. Resized(e, p, t, sigma) = [e EXCEPT !.size = size, !.step = step, !.period = t]
    BY <1>2 DEF Resized
  <2>2. raw \in Nat
    <3>1. p \in Nat /\ sigma \in Nat /\ e.k \in Nat
      BY RenParams
    <3>2. \A a, b_ \in Nat : a * b_ \in Nat
      OBVIOUS
    <3> DEFINE pct == IF e.k * sigma > MinPct THEN e.k * sigma ELSE MinPct
    <3>3. pct \in Nat
      BY <3>1, <3>2 DEF MinPct
    <3>4. raw = (p * pct) \div 200
      BY DEF RawBrick, KFloor
    <3> HIDE DEF pct, raw
    <3>5. p * pct \in Nat
      BY <3>1, <3>2, <3>3
    <3>6. \A a \in Nat : a \div 200 \in Nat
      BY SMT
    <3>7. QED BY <3>4, <3>5, <3>6
  <2>3. raw < Limit /\ size < Limit
    BY SizesFit DEF Ks, Limit
  <2> HIDE DEF raw
  <2>4. size \in Nat /\ (size # 0 => size >= 2)
    BY <2>2, <2>3, SnapFacts
  <2> HIDE DEF size
  <2>5. size # 0 => step \in Nat \ {0} /\ step < 2 * size
    BY <2>3, <2>4, UnitFacts
  <2>6. step \in Nat
    <3>1. size = 0 => step = 1
      BY DEF GridStep
    <3>2. QED BY <2>5, <3>1
  <2> HIDE DEF step
  <2> DEFINE r == [e EXCEPT !.size = size, !.step = step, !.period = t]
  <2>7. r \in Engine
    BY <2>4, <2>6, SizedType
  <2>8. r.size = size /\ r.step = step /\ r.k = e.k /\ r.wick = e.wick /\ r.ticks = e.ticks
    BY DEF Engine
  <2> HIDE DEF r
  <2>9. Refitted(e, r)
    BY <2>5, <2>7, <2>8 DEF Refitted, Sized
  <2>10. QED BY <2>1, <2>9 DEF r
<1>3. QED BY <1>1, <1>2

LEMMA RegriddedFacts ==
  ASSUME NEW e \in Engine, Sized(e), e.k \in Ks,
         NEW p \in Prices, NEW t \in Nat, NEW sigma \in Sigmas
  PROVE  Refitted(e, Regridded(e, p, t, sigma))
<1> DEFINE s == Resized(e, p, t, sigma)
<1>1. Refitted(e, s)
  BY ResizedFacts
<1>2. CASE t > e.period
  <2>1. Regridded(e, p, t, sigma) = [s EXCEPT !.last = SnapToGrid(@, s.step)]
    BY <1>2 DEF Regridded
  <2>2. s \in Engine
    BY <1>1 DEF Refitted
  <2> HIDE DEF s
  <2>3. s.last \in Nat /\ s.step \in Nat
    BY <2>2 DEF Engine
  <2>4. SnapToGrid(s.last, s.step) \in Nat
    BY <2>3, SnapType
  <2>5. QED BY <1>1, <2>1, <2>4 DEF Refitted, Engine, Sized
<1>3. CASE ~(t > e.period)
  BY <1>3 DEF Regridded, Refitted
<1>4. QED BY <1>2, <1>3

LEMMA RenInitInv == RenInit => RenInv
<1> SUFFICES ASSUME RenInit PROVE RenInv
  OBVIOUS
<1>1. PICK k \in Ks : ren = Generator(k)
  BY DEF RenInit, Ks
<1>2. ren \in Engine /\ ren.k = k /\ ren.size = 0 /\ ren.ticks = 0
  BY <1>1, GeneratorType
<1>3. past \in Pasts /\ past.owed = 0 /\ past.fed = {}
  BY DEF RenInit, NewPast, Pasts
<1>4. bricks = <<>> /\ bricks \in Seq(Laid) /\ Len(bricks) = 0 /\ halfHour \in Nat
  BY DEF RenInit
<1>5. RenHeld
  BY <1>2, <1>3, <1>4, RenParams DEF RenHeld, Sized
<1>6. RenkoAccounts
  BY <1>2, <1>3, <1>4 DEF RenkoAccounts
<1>7. QED BY <1>5, <1>6 DEF RenInv

(* A step that lays no brick.                                              *)
LEMMA NoBrick ==
  ASSUME ren' \in Engine, Sized(ren'), ren'.k \in Ks, halfHour' \in Nat, past' \in Pasts,
         past'.owed = ren'.ticks, bricks' = <<>>,
         \A q \in past'.fed : ren'.wick # NoWindow /\ ren'.wick.low <= q /\ q <= ren'.wick.high
  PROVE  RenInv'
<1>1. bricks' \in Seq(Laid) /\ Len(bricks') = 0 /\ DOMAIN bricks' = {}
  OBVIOUS
<1>2. RenHeld'
  BY <1>1, RenParams DEF RenHeld
<1>3. RenkoAccounts'
  BY <1>1 DEF RenkoAccounts
<1>4. QED BY <1>2, <1>3 DEF RenInv

LEMMA PastType ==
  ASSUME NEW r \in Pasts, NEW owed \in Int, NEW fed \in SUBSET Nat, NEW p \in Nat
  PROVE  LET new == [owed |-> owed, fed |-> fed, covered |-> r.covered, price |-> p, disk |-> r.disk]
         IN  new \in Pasts /\ new.owed = owed /\ new.fed = fed
BY DEF Pasts

LEMMA FirstTickInv ==
  ASSUME RenInv, NEW p \in Prices, NEW t \in Nat, NEW sigma \in Sigmas,
         FirstTick(t, p, sigma), halfHour' = t
  PROVE  RenInv'
<1> DEFINE g == Resized(ren, p, t, sigma)
           w == Widened(NoWindow, p)
           at == SnapToGrid(p, g.step)
           r == [g EXCEPT !.last = at, !.wick = w, !.since = t, !.ticks = 1, !.init = TRUE]
<1>1. Refitted(ren, g) /\ ren.k \in Ks /\ p \in Nat
  BY ResizedFacts, RenParams DEF RenInv, RenHeld
<1>2. w \in Wicks /\ w # NoWindow /\ w.low = p /\ w.high = p
  <2>1. w = [high |-> p, low |-> p]
    BY DEF Widened
  <2>2. QED BY <1>1, <2>1 DEF Wicks, NoWindow
<1>3. ren' = r /\ bricks' = <<>> /\ past' = [past EXCEPT !.owed = 1, !.fed = {p}, !.price = p]
  BY DEF FirstTick
<1>4. g \in Engine /\ Sized(g) /\ g.k = ren.k
  BY <1>1 DEF Refitted
<1> HIDE DEF g, w
<1>5. at \in Nat
  BY <1>1, <1>4, SnapType DEF Engine
<1> HIDE DEF at
<1>6. r \in Engine
  BY <1>2, <1>4, <1>5 DEF Engine
<1>7. r.size = g.size /\ r.step = g.step /\ r.k = g.k /\ r.wick = w /\ r.ticks = 1
  BY <1>4 DEF Engine
<1> HIDE DEF r
<1>8. Sized(r)
  BY <1>4, <1>7 DEF Sized
<1>9. past' \in Pasts /\ past'.owed = 1 /\ past'.fed = {p}
  <2>1. past \in Pasts /\ {p} \in SUBSET Nat /\ 1 \in Int
    BY <1>1 DEF RenInv, RenHeld
  <2>2. past' = [owed |-> 1, fed |-> {p}, covered |-> past.covered, price |-> p, disk |-> past.disk]
    BY <1>3, <2>1 DEF Pasts
  <2>3. QED BY <1>1, <2>1, <2>2, PastType
<1>10. QED BY <1>1, <1>2, <1>3, <1>4, <1>6, <1>7, <1>8, <1>9, NoBrick

LEMMA SetMultiplierInv ==
  ASSUME RenInv, NEW k \in Multipliers, SetMultiplier(k)
  PROVE  RenInv'
<1> DEFINE r == [ren EXCEPT !.k = Clamped(k)]
<1>1. Clamped(k) \in Ks /\ Clamped(k) \in Nat
  BY RenParams DEF Clamped, Ks
<1>2. ren \in Engine /\ Sized(ren)
  BY DEF RenInv, RenHeld
<1>3. ren' = r /\ UNCHANGED <<halfHour, bricks, past>>
  BY DEF SetMultiplier
<1>4. r \in Engine
  BY <1>1, <1>2 DEF Engine
<1>5. /\ r.size = ren.size /\ r.step = ren.step /\ r.k = Clamped(k) /\ r.wick = ren.wick
      /\ r.ticks = ren.ticks /\ r.last = ren.last
  BY <1>2 DEF Engine
<1> HIDE DEF r
<1>6. Sized(r)
  BY <1>2, <1>5 DEF Sized
<1>7. RenHeld'
  BY <1>1, <1>3, <1>4, <1>5, <1>6 DEF RenInv, RenHeld
<1>8. RenkoAccounts'
  BY <1>3, <1>5 DEF RenInv, RenkoAccounts
<1>9. QED BY <1>7, <1>8 DEF RenInv

LEMMA WarmRestartInv ==
  ASSUME RenInv, NEW k \in Multipliers, WarmRestart(k)
  PROVE  RenInv'
<1> DEFINE e == Generator(k)
           r == SeedLastClose(e, past.disk)
<1>1. past \in Pasts /\ past.disk \in Nat /\ k \in Ks /\ halfHour \in Nat
  BY DEF RenInv, RenHeld, Pasts, Ks
<1>2. e \in Engine /\ e.k = k /\ e.size = 0 /\ e.ticks = 0 /\ e.wick = NoWindow
  BY <1>1, GeneratorType
<1>3. /\ ren' = r /\ past' = [NewPast EXCEPT !.disk = past.disk] /\ bricks' = <<>>
      /\ halfHour' = halfHour
  BY DEF WarmRestart
<1>4. r = [e EXCEPT !.last = past.disk, !.wick = NoWindow, !.init = past.disk > 0]
  BY DEF SeedLastClose
<1>5. NoWindow \in Wicks /\ (past.disk > 0) \in BOOLEAN
  BY DEF NoWindow, Wicks
<1> HIDE DEF e, r
<1>6. r \in Engine
  BY <1>1, <1>2, <1>4, <1>5 DEF Engine
<1>7. r.size = 0 /\ r.k = k /\ r.ticks = 0
  BY <1>2, <1>4 DEF Engine
<1>8. past' \in Pasts /\ past'.owed = 0 /\ past'.fed = {}
  BY <1>1, <1>3 DEF NewPast, Pasts
<1>9. Sized(r)
  BY <1>7 DEF Sized
<1>10. QED BY <1>1, <1>3, <1>6, <1>7, <1>8, <1>9, NoBrick

LEMMA NextTickInv ==
  ASSUME RenInv, NEW p \in Prices, NEW t \in Nat, NEW sigma \in Sigmas,
         NextTick(t, p, sigma), halfHour' = t
  PROVE  RenInv'
<1> DEFINE e == [ren EXCEPT !.ticks = @ + 1]
           g == Regridded(e, p, t, sigma)
           r == [g EXCEPT !.wick = Widened(@, p)]
           w == Walk(r, p, t)
<1>1. /\ ren \in Engine /\ Sized(ren) /\ ren.k \in Ks /\ past \in Pasts /\ p \in Nat
      /\ past.owed = ren.ticks
      /\ \A q \in past.fed : ren.wick # NoWindow /\ ren.wick.low <= q /\ q <= ren.wick.high
  BY RenParams DEF RenInv, RenHeld, RenkoAccounts
<1>2. /\ e \in Engine /\ e.ticks = ren.ticks + 1 /\ e.wick = ren.wick /\ e.k = ren.k /\ Sized(e)
  BY <1>1 DEF Engine, Sized
<1>3. IF g.size <= 0 \/ p <= 0
        THEN ren' = g /\ bricks' = <<>> /\ past' = [past EXCEPT !.owed = @ + 1, !.price = 0]
        ELSE ren' = w.g /\ bricks' = w.out /\ past' = Recorded(w.out, p)
  BY DEF NextTick
<1> HIDE DEF e
<1>4. Refitted(e, g)
  BY <1>1, <1>2, RegriddedFacts
<1>5. /\ g \in Engine /\ Sized(g) /\ g.k \in Ks /\ g.ticks = ren.ticks + 1 /\ g.wick = ren.wick
  BY <1>1, <1>2, <1>4 DEF Refitted
<1> HIDE DEF g
<1>6. CASE g.size <= 0 \/ p <= 0
  <2>1. past' = [past EXCEPT !.owed = @ + 1, !.price = 0] /\ ren' = g /\ bricks' = <<>>
    BY <1>3, <1>6
  <2>2. past' \in Pasts /\ past'.owed = past.owed + 1 /\ past'.fed = past.fed
    <3>1. past.owed + 1 \in Int /\ past.fed \in SUBSET Nat /\ 0 \in Nat
      BY <1>1 DEF Pasts
    <3>2. past' = [owed |-> past.owed + 1, fed |-> past.fed, covered |-> past.covered, price |-> 0,
                   disk |-> past.disk]
      BY <1>1, <2>1 DEF Pasts
    <3>3. QED BY <1>1, <3>1, <3>2, PastType
  <2>3. QED BY <1>1, <1>5, <2>1, <2>2, NoBrick
<1>7. CASE ~(g.size <= 0 \/ p <= 0)
  <2> DEFINE k == Widened(g.wick, p)
             fed == past.fed \cup {p}
  <2>1. ren' = w.g /\ bricks' = w.out /\ past' = Recorded(w.out, p)
    BY <1>3, <1>7
  <2>2. g.wick \in Wicks /\ p \in Int
    BY <1>1, <1>5 DEF Engine
  <2>3. /\ k \in Wicks /\ k.low <= p /\ p <= k.high
        /\ g.wick # NoWindow => k.low <= g.wick.low /\ g.wick.high <= k.high
    BY <2>2, WidenedType
  <2>4. k # NoWindow
    <3>1. NoWindow.high = -1
      BY DEF NoWindow
    <3>2. QED BY <2>3, <3>1, <1>1 DEF Wicks
  <2>5. \A q \in fed : q \in Nat /\ k.low <= q /\ q <= k.high
    <3>1. ASSUME NEW q \in past.fed PROVE q \in Nat /\ k.low <= q /\ q <= k.high
      <4>1. q \in Nat /\ g.wick # NoWindow /\ g.wick.low <= q /\ q <= g.wick.high
        BY <1>1, <1>5, <3>1 DEF Pasts
      <4>2. k.low <= g.wick.low /\ g.wick.high <= k.high
        BY <2>3, <4>1
      <4>3. k.low \in Int /\ k.high \in Int /\ g.wick.low \in Int /\ g.wick.high \in Int
        BY <2>2, <2>3 DEF Wicks
      <4> HIDE DEF k
      <4>4. QED BY <4>1, <4>2, <4>3
    <3>2. QED BY <3>1, <2>3, <1>1
  <2>6. r = [g EXCEPT !.wick = k]
    OBVIOUS
  <2> HIDE DEF k, r
  <2>7. r \in Engine /\ r.size = g.size /\ r.step = g.step /\ r.k = g.k /\ r.ticks = g.ticks /\ r.wick = k
    BY <1>5, <2>3, <2>6 DEF Engine
  <2>8. Sized(r) /\ r.size # 0 /\ r.size \in Nat
    BY <1>5, <1>7, <2>7 DEF Sized, Engine
  <2>9. Walked(r, p, w, MaxBricks)
    BY <2>7, <2>8, <1>1, WalkFacts
  <2> HIDE DEF w
  <2>10. /\ Along(r, p, w) /\ Len(w.out) <= MaxBricks
         /\ Len(w.out) = MaxBricks \/ Target(w.g, p) = w.g.last
    BY <2>9 DEF Walked
  <2>11. w.g \in Engine /\ w.out \in Seq(Laid)
    BY <2>10 DEF Along, Walks
  <2>12. Sized(w.g) /\ w.g.size # 0 /\ w.g.k \in Ks
    BY <2>7, <2>8, <2>10, <1>5 DEF Along, Sized
  <2>13. fed \in SUBSET Nat
    BY <2>5
  <2> HIDE DEF fed
  <2>14. CASE w.out = <<>>
    <3>1. w.g = r
      BY <2>10, <2>14 DEF Along
    <3>2. past' = [past EXCEPT !.owed = @ + 1, !.fed = fed, !.price = p]
      BY <2>1, <2>14 DEF Recorded, fed
    <3>3. past' \in Pasts /\ past'.owed = past.owed + 1 /\ past'.fed = fed
      <4>1. past.owed + 1 \in Int
        BY <1>1 DEF Pasts
      <4>2. past' = [owed |-> past.owed + 1, fed |-> fed, covered |-> past.covered, price |-> p,
                     disk |-> past.disk]
        BY <1>1, <3>2 DEF Pasts
      <4>3. QED BY <1>1, <2>13, <4>1, <4>2, PastType
    <3>4. QED BY <1>1, <1>5, <2>1, <2>4, <2>5, <2>7, <2>8, <2>14, <3>1, <3>3, NoBrick
  <2>15. CASE w.out # <<>>
    <3> DEFINE u == w.out
    <3>1. /\ Len(u) \in Nat \ {0} /\ DOMAIN u = 1 .. Len(u) /\ \A i \in 1 .. Len(u) : u[i] \in Laid
      BY <2>11, <2>15, ElementOfSeq, EmptySeq
    <3>2. /\ w.g.ticks = 0 /\ w.g.wick = NoWindow /\ u[1].ticks = r.ticks
          /\ u[1].hl = HighLow(r, r.last, u[1].close, TRUE)
      BY <2>10, <2>15 DEF Along
    <3>3. past' = [owed |-> past.owed + 1 - u[1].ticks, fed |-> {}, covered |-> fed, price |-> p,
                   disk |-> Last(u).close]
      BY <2>1, <2>15 DEF Recorded, fed
    <3>4. Last(u).close \in Nat
      <4>1. Last(u) = u[Len(u)]
        BY DEF Last
      <4>2. QED BY <3>1, <4>1 DEF Laid
    <3>5. past.owed + 1 - u[1].ticks = 0
      BY <1>1, <1>5, <2>7, <3>2 DEF Engine
    <3>6. /\ past' \in Pasts /\ past'.owed = 0 /\ past'.fed = {} /\ past'.covered = fed /\ past'.price = p
      BY <1>1, <2>13, <3>3, <3>4, <3>5 DEF Pasts
    <3>7. RenHeld'
      BY <1>1, <2>1, <2>10, <2>11, <2>12, <3>6 DEF RenHeld
    <3>8. \A q \in fed : u[1].hl.low <= q /\ q <= u[1].hl.high
      <4> DEFINE close == u[1].close
                 body == [high |-> IF r.last > close THEN r.last ELSE close,
                          low |-> IF r.last > close THEN close ELSE r.last]
                 one == Widened(body, k.high)
                 both == Widened(one, k.low)
      <4>1. close \in Nat /\ r.last \in Nat
        BY <3>1, <2>7 DEF Laid, Engine
      <4>2. body \in Wicks
        BY <4>1 DEF Wicks
      <4>3. u[1].hl = both
        BY <3>2, <2>4, <2>7 DEF HighLow
      <4>4. k.high \in Int /\ k.low \in Int
        BY <2>3 DEF Wicks
      <4> HIDE DEF body
      <4>5. one \in Wicks /\ k.high <= one.high
        BY <4>2, <4>4, WidenedType
      <4>6. one # NoWindow
        <5>1. NoWindow.high = -1 /\ k.high >= 0
          BY <2>3, <4>4, <1>1 DEF NoWindow
        <5>2. one.high \in Int
          BY <4>5 DEF Wicks
        <5> HIDE DEF one
        <5>3. QED BY <4>4, <4>5, <5>1, <5>2
      <4> HIDE DEF one
      <4>7. both \in Wicks /\ both.low <= k.low /\ one.high <= both.high
        BY <4>4, <4>5, <4>6, WidenedType
      <4>8. both.low \in Int /\ both.high \in Int /\ one.high \in Int
        BY <4>5, <4>7 DEF Wicks
      <4> HIDE DEF both
      <4>9. ASSUME NEW q \in fed PROVE both.low <= q /\ q <= both.high
        BY <2>5, <4>4, <4>5, <4>7, <4>8
      <4>10. QED BY <4>3, <4>9
    <3>9. \A i \in DOMAIN u : OneBrick(u, i)
      BY <2>10 DEF Along
    <3>10. \A i \in DOMAIN u : (u[i].open > u[i].close <=> u[1].open > u[1].close)
      <4>1. \A i \in 1 .. Len(u) : u[i].open \in Nat /\ u[i].close \in Nat
        BY <3>1 DEF Laid
      <4>2. 1 \in DOMAIN u
        BY <3>1
      <4>3. CASE \A i \in DOMAIN u : u[i].open < u[i].close
        BY <4>1, <4>2, <4>3, <3>1
      <4>4. CASE \A i \in DOMAIN u : u[i].open > u[i].close
        BY <4>2, <4>4
      <4>5. QED BY <2>10, <4>3, <4>4 DEF Along, Towards
    <3>11. Len(u) < MaxBricks => Away(p, w.g.last) < w.g.size
      <4> SUFFICES ASSUME Len(u) < MaxBricks PROVE Away(p, w.g.last) < w.g.size
        OBVIOUS
      <4>1. Target(w.g, p) = w.g.last
        BY <2>10, <3>1, RenParams
      <4>2. QED BY <4>1, <1>1, <2>11, <2>12, TargetFacts
    <3>12. bricks' = u /\ ren' = w.g
      BY <2>1
    <3> HIDE DEF u
    <3>13. RenkoAccounts'
      BY <3>2, <3>6, <3>8, <3>9, <3>10, <3>11, <3>12 DEF RenkoAccounts, OneBrick
    <3>14. QED BY <3>7, <3>13 DEF RenInv
  <2>16. QED BY <2>14, <2>15
<1>8. QED BY <1>6, <1>7

LEMMA RenNextInv == RenInv /\ [RenNext]_renVars => RenInv'
<1> SUFFICES ASSUME RenInv, [RenNext]_renVars
             PROVE  RenInv'
  OBVIOUS
<1>1. CASE UNCHANGED renVars
  BY <1>1 DEF renVars, RenInv, RenHeld, RenkoAccounts
<1>2. ASSUME NEW p \in Prices, NEW sigma \in Sigmas, NEW t \in {halfHour, halfHour + 1},
             FeedTick(t, p, sigma)
      PROVE  RenInv'
  <2>1. t \in Nat
    BY <1>2 DEF RenInv, RenHeld
  <2>2. QED BY <1>2, <2>1, FirstTickInv, NextTickInv DEF FeedTick
<1>3. QED BY <1>1, <1>2, SetMultiplierInv, WarmRestartInv DEF RenNext

LEMMA RenTyped == RenInv => RenTypeOK
BY DEF RenInv, RenHeld, Engine, RenTypeOK

-----------------------------------------------------------------------------
(* The bars of the ticks since the last flush.                             *)
(* The fields of the accumulator after one tick.                           *)
Fields == DOMAIN NoBar
Numbered(b) == DOMAIN b = Fields /\ \A f \in Fields : b[f] \in Int
BarTick == [t : Nat, bid : Nat, ask : Nat, v : Nat, ci : Nat, accepted : Nat, rejected : Nat]
Same(b, c, S) == DOMAIN c = Fields /\ \A f \in Fields \ S : c[f] = b[f]

LEMMA FieldNames ==
  Fields = {"n", "open", "high", "low", "close", "vol", "open_t", "close_t", "sx", "sy", "sxy",
            "sxx", "last_x", "prev",
            "rv", "prev_abs", "bipower", "max_abs", "ofi", "ofi_vol", "spread", "books", "ci", "accepted", "rejected"}
BY DEF Fields, NoBar

LEMMA NoBarNumbered == Numbered(NoBar)
<1>1. \A f \in Fields : NoBar[f] \in {-1, 0}
  BY FieldNames DEF NoBar
<1>2. \A f \in Fields : NoBar[f] \in Int
  BY <1>1
<1>3. QED BY <1>2 DEF Numbered, Fields

LEMMA TickFacts ==
  ASSUME NEW q \in BarTick
  PROVE  /\ q.t \in Int /\ q.v \in Nat /\ q.ci \in Int /\ q.accepted \in Int /\ q.rejected \in Int
         /\ q.bid \in Nat /\ q.ask \in Nat /\ Mid(q) \in Nat /\ q.t \in Nat
BY DEF BarTick, Mid

PricedIn == {"n", "close", "close_t", "vol", "open", "open_t", "high", "low"}
LEMMA PricedFields ==
  ASSUME NEW b, DOMAIN b = Fields, NEW q, NEW c, c = Priced1(b, q)
  PROVE  /\ Same(b, c, PricedIn)
         /\ c.n = b.n + 1 /\ c.close = Mid(q) /\ c.close_t = q.t /\ c.vol = b.vol + q.v
         /\ c.open = IF b.n = 0 THEN Mid(q) ELSE b.open
         /\ c.open_t = IF b.n = 0 THEN q.t ELSE b.open_t
         /\ c.high = IF b.n = 0 THEN Mid(q) ELSE Higher(b.high, Mid(q))
         /\ c.low = IF b.n = 0 THEN Mid(q) ELSE Lower(b.low, Mid(q))
<1>1. DOMAIN c = Fields
  BY DEF Priced1
<1>2. \A f \in Fields \ PricedIn : c[f] = b[f]
  BY DEF Priced1, PricedIn
<1>3. PricedIn \subseteq Fields
  BY FieldNames DEF PricedIn
<1>4. {"n", "close", "close_t", "vol", "open", "open_t", "high", "low"} \subseteq DOMAIN b
  BY <1>3 DEF PricedIn
<1>5. /\ c.n = b.n + 1 /\ c.close = Mid(q) /\ c.close_t = q.t /\ c.vol = b.vol + q.v
      /\ c.open = IF b.n = 0 THEN Mid(q) ELSE b.open
      /\ c.open_t = IF b.n = 0 THEN q.t ELSE b.open_t
  BY <1>4 DEF Priced1
<1>6. /\ c.high = IF b.n = 0 THEN Mid(q) ELSE Higher(b.high, Mid(q))
      /\ c.low = IF b.n = 0 THEN Mid(q) ELSE Lower(b.low, Mid(q))
  BY <1>4 DEF Priced1
<1>7. QED BY <1>1, <1>2, <1>5, <1>6 DEF Same

RegressedIn == {"sx", "sy", "sxy", "sxx", "last_x"}
RegressedTo(b, q, c, x) ==
  /\ Same(b, c, RegressedIn)
  /\ c.sx = b.sx + x /\ c.sy = b.sy + Mid(q) /\ c.sxy = b.sxy + x * Mid(q)
  /\ c.sxx = b.sxx + x * x /\ c.last_x = x
LEMMA RegressedFields ==
  ASSUME NEW b, DOMAIN b = Fields, NEW q
  PROVE  RegressedTo(b, q, Regressed(b, q), q.t - b.open_t)
<1> DEFINE c == Regressed(b, q)
           x == q.t - b.open_t
<1>0. c = [b EXCEPT !.sx = @ + x, !.sy = @ + Mid(q), !.sxy = @ + x * Mid(q),
                 !.sxx = @ + x * x, !.last_x = x]
  BY DEF Regressed
<1>1. DOMAIN c = Fields
  BY <1>0
<1>2. \A f \in Fields \ RegressedIn : c[f] = b[f]
  BY <1>0 DEF RegressedIn
<1>3. {"sx", "sy", "sxy", "sxx", "last_x"} \subseteq DOMAIN b
  BY FieldNames
<1>4. /\ c.sx = b.sx + x /\ c.sy = b.sy + Mid(q) /\ c.sxy = b.sxy + x * Mid(q)
      /\ c.sxx = b.sxx + x * x /\ c.last_x = x
  BY <1>0, <1>3
<1> HIDE DEF x, c
<1>6. RegressedTo(b, q, c, x)
  BY <1>1, <1>2, <1>4 DEF Same, RegressedTo
<1>5. QED BY <1>6 DEF c, x

SpreadIn == {"spread", "books"}
LEMMA SpreadFields ==
  ASSUME NEW b, DOMAIN b = Fields, NEW q, NEW c, c = Spread(b, q)
  PROVE  /\ Same(b, c, SpreadIn)
         /\ c.spread = IF HasBook(q) THEN b.spread + q.ask - q.bid ELSE b.spread
         /\ c.books = IF HasBook(q) THEN b.books + 1 ELSE b.books
<1>1. {"spread", "books"} \subseteq DOMAIN b
  BY FieldNames
<1>2. CASE HasBook(q)
  <2>1. c = [b EXCEPT !.spread = @ + q.ask - q.bid, !.books = @ + 1]
    BY <1>2 DEF Spread
  <2>2. QED BY <1>1, <1>2, <2>1 DEF Same, SpreadIn
<1>3. CASE ~HasBook(q)
  BY <1>3 DEF Spread, Same
<1>4. QED BY <1>2, <1>3

ReturnedIn == {"rv", "max_abs", "prev_abs", "bipower", "ofi", "ofi_vol"}
LEMMA ReturnedFields ==
  ASSUME NEW b, DOMAIN b = Fields, NEW q, NEW c, c = Returned(b, q), NEW r, r = Mid(q) - b.prev
  PROVE  /\ Same(b, c, ReturnedIn)
         /\ HasReturn(b, q) =>
              /\ c.rv = b.rv + r * r /\ c.max_abs = Higher(b.max_abs, Abs(r)) /\ c.prev_abs = Abs(r)
              /\ c.bipower = IF b.prev_abs >= 0 THEN b.bipower + Abs(r) * b.prev_abs ELSE b.bipower
              /\ c.ofi = b.ofi + Sign(r) * q.v /\ c.ofi_vol = b.ofi_vol + q.v
         /\ ~HasReturn(b, q) => c = b
<1>1. {"rv", "max_abs", "prev_abs", "bipower", "ofi", "ofi_vol"} \subseteq DOMAIN b
  BY FieldNames
<1>2. CASE HasReturn(b, q)
  <2>1. c = [b EXCEPT !.rv = @ + r * r, !.max_abs = Higher(@, Abs(r)), !.prev_abs = Abs(r),
              !.bipower = IF b.prev_abs >= 0 THEN @ + Abs(r) * b.prev_abs ELSE @,
              !.ofi = @ + Sign(r) * q.v, !.ofi_vol = @ + q.v]
    BY <1>2 DEF Returned
  <2>2. Same(b, c, ReturnedIn)
    BY <2>1 DEF Same, ReturnedIn
  <2>3. /\ c.rv = b.rv + r * r /\ c.max_abs = Higher(b.max_abs, Abs(r)) /\ c.prev_abs = Abs(r)
        /\ c.bipower = IF b.prev_abs >= 0 THEN b.bipower + Abs(r) * b.prev_abs ELSE b.bipower
    BY <1>1, <2>1
  <2>4. c.ofi = b.ofi + Sign(r) * q.v /\ c.ofi_vol = b.ofi_vol + q.v
    BY <1>1, <2>1
  <2>5. QED BY <1>2, <2>2, <2>3, <2>4
<1>3. CASE ~HasReturn(b, q)
  BY <1>3 DEF Returned, Same
<1>4. QED BY <1>2, <1>3

WeightedIn == {"prev", "ci", "accepted", "rejected"}
LEMMA WeightedFields ==
  ASSUME NEW b, DOMAIN b = Fields, NEW q, NEW c, c = Weighted(b, q)
  PROVE  /\ Same(b, c, WeightedIn) /\ c.prev = Mid(q) /\ c.ci = b.ci + q.ci * q.accepted
         /\ c.accepted = b.accepted + q.accepted /\ c.rejected = b.rejected + q.rejected
<1>1. {"prev", "ci", "accepted", "rejected"} \subseteq DOMAIN b
  BY FieldNames
<1>2. c = [b EXCEPT !.prev = Mid(q), !.ci = @ + q.ci * q.accepted,
            !.accepted = @ + q.accepted, !.rejected = @ + q.rejected]
  BY DEF Weighted
<1>3. QED BY <1>1, <1>2 DEF Same, WeightedIn

(* All of them after ingest.                                               *)
AfterTick(b, q, c) ==
  LET x == q.t - c.open_t
      r == Mid(q) - b.prev IN
  /\ DOMAIN c = Fields
  /\ c.n = b.n + 1 /\ c.close = Mid(q) /\ c.close_t = q.t /\ c.vol = b.vol + q.v
  /\ c.open = (IF b.n = 0 THEN Mid(q) ELSE b.open) /\ c.open_t = (IF b.n = 0 THEN q.t ELSE b.open_t)
  /\ c.high = (IF b.n = 0 THEN Mid(q) ELSE Higher(b.high, Mid(q)))
  /\ c.low = (IF b.n = 0 THEN Mid(q) ELSE Lower(b.low, Mid(q)))
  /\ c.sx = b.sx + x /\ c.sy = b.sy + Mid(q) /\ c.sxy = b.sxy + x * Mid(q)
  /\ c.sxx = b.sxx + x * x /\ c.last_x = x
  /\ c.spread = (IF HasBook(q) THEN b.spread + q.ask - q.bid ELSE b.spread)
  /\ c.books = (IF HasBook(q) THEN b.books + 1 ELSE b.books)
  /\ HasReturn(b, q) =>
       /\ c.rv = b.rv + r * r /\ c.max_abs = Higher(b.max_abs, Abs(r)) /\ c.prev_abs = Abs(r)
       /\ c.bipower = (IF b.prev_abs >= 0 THEN b.bipower + Abs(r) * b.prev_abs ELSE b.bipower)
       /\ c.ofi = b.ofi + Sign(r) * q.v /\ c.ofi_vol = b.ofi_vol + q.v
  /\ ~HasReturn(b, q) =>
       /\ c.rv = b.rv /\ c.max_abs = b.max_abs /\ c.prev_abs = b.prev_abs
       /\ c.bipower = b.bipower /\ c.ofi = b.ofi /\ c.ofi_vol = b.ofi_vol
  /\ c.prev = Mid(q) /\ c.ci = b.ci + q.ci * q.accepted
  /\ c.accepted = b.accepted + q.accepted /\ c.rejected = b.rejected + q.rejected

LEMMA SameField == ASSUME NEW b, NEW c, NEW S, Same(b, c, S), NEW f \in Fields \ S PROVE c[f] = b[f]
BY DEF Same

LEMMA AccumulateFields ==
  ASSUME NEW b, DOMAIN b = Fields, NEW q, NEW c, c = Accumulate(b, q)
  PROVE  AfterTick(b, q, c)
<1> DEFINE b1 == Priced1(b, q)
           b2 == Regressed(b1, q)
           b3 == Spread(b2, q)
           b4 == Returned(b3, q)
           b5 == Weighted(b4, q)
           x == q.t - b1.open_t
           r == Mid(q) - b3.prev
<1>0. c = b5
  BY DEF Accumulate
<1>1. /\ Same(b, b1, PricedIn)
      /\ b1.n = b.n + 1 /\ b1.close = Mid(q) /\ b1.close_t = q.t /\ b1.vol = b.vol + q.v
      /\ b1.open = (IF b.n = 0 THEN Mid(q) ELSE b.open)
      /\ b1.open_t = (IF b.n = 0 THEN q.t ELSE b.open_t)
      /\ b1.high = (IF b.n = 0 THEN Mid(q) ELSE Higher(b.high, Mid(q)))
      /\ b1.low = (IF b.n = 0 THEN Mid(q) ELSE Lower(b.low, Mid(q)))
  BY PricedFields
<1> HIDE DEF b1
<1>2. /\ Same(b1, b2, RegressedIn)
      /\ b2.sx = b1.sx + x /\ b2.sy = b1.sy + Mid(q) /\ b2.sxy = b1.sxy + x * Mid(q)
      /\ b2.sxx = b1.sxx + x * x /\ b2.last_x = x
  <2>1. DOMAIN b1 = Fields
    BY <1>1 DEF Same
  <2>2. RegressedTo(b1, q, b2, x)
    BY <2>1, RegressedFields
  <2> HIDE DEF b2, x
  <2>3. QED BY <2>2 DEF RegressedTo
<1> HIDE DEF b2
<1>3. /\ Same(b2, b3, SpreadIn)
      /\ b3.spread = (IF HasBook(q) THEN b2.spread + q.ask - q.bid ELSE b2.spread)
      /\ b3.books = (IF HasBook(q) THEN b2.books + 1 ELSE b2.books)
  BY <1>2, SpreadFields DEF Same
<1> HIDE DEF b3
<1>4. /\ Same(b3, b4, ReturnedIn)
      /\ HasReturn(b3, q) =>
           /\ b4.rv = b3.rv + r * r /\ b4.max_abs = Higher(b3.max_abs, Abs(r)) /\ b4.prev_abs = Abs(r)
           /\ b4.bipower = (IF b3.prev_abs >= 0 THEN b3.bipower + Abs(r) * b3.prev_abs ELSE b3.bipower)
           /\ b4.ofi = b3.ofi + Sign(r) * q.v /\ b4.ofi_vol = b3.ofi_vol + q.v
      /\ ~HasReturn(b3, q) => b4 = b3
  BY <1>3, ReturnedFields DEF Same
<1> HIDE DEF b4
<1>5. /\ Same(b4, b5, WeightedIn) /\ b5.prev = Mid(q) /\ b5.ci = b4.ci + q.ci * q.accepted
      /\ b5.accepted = b4.accepted + q.accepted /\ b5.rejected = b4.rejected + q.rejected
  BY <1>4, WeightedFields DEF Same
<1> HIDE DEF b5
<1>6. /\ \A f \in Fields \ PricedIn : b1[f] = b[f]
      /\ \A f \in Fields \ RegressedIn : b2[f] = b1[f]
      /\ \A f \in Fields \ SpreadIn : b3[f] = b2[f]
      /\ \A f \in Fields \ ReturnedIn : b4[f] = b3[f]
      /\ \A f \in Fields \ WeightedIn : b5[f] = b4[f]
      /\ DOMAIN b5 = Fields
  BY <1>1, <1>2, <1>3, <1>4, <1>5 DEF Same
<1>7. /\ \A f \in PricedIn : b5[f] = b1[f]
      /\ \A f \in RegressedIn : b5[f] = b2[f] /\ b1[f] = b[f]
      /\ \A f \in SpreadIn : b5[f] = b3[f] /\ b2[f] = b[f]
      /\ \A f \in ReturnedIn : b5[f] = b4[f] /\ b3[f] = b[f]
      /\ \A f \in WeightedIn : b4[f] = b[f]
      /\ b3["prev"] = b["prev"]
  <2>1. PricedIn \subseteq Fields \ (RegressedIn \cup SpreadIn \cup ReturnedIn \cup WeightedIn)
    BY FieldNames DEF PricedIn, RegressedIn, SpreadIn, ReturnedIn, WeightedIn
  <2>2. RegressedIn \subseteq Fields \ (PricedIn \cup SpreadIn \cup ReturnedIn \cup WeightedIn)
    BY FieldNames DEF PricedIn, RegressedIn, SpreadIn, ReturnedIn, WeightedIn
  <2>3. SpreadIn \subseteq Fields \ (PricedIn \cup RegressedIn \cup ReturnedIn \cup WeightedIn)
    BY FieldNames DEF PricedIn, RegressedIn, SpreadIn, ReturnedIn, WeightedIn
  <2>4. ReturnedIn \subseteq Fields \ (PricedIn \cup RegressedIn \cup SpreadIn \cup WeightedIn)
    BY FieldNames DEF PricedIn, RegressedIn, SpreadIn, ReturnedIn, WeightedIn
  <2>5. WeightedIn \subseteq Fields \ (PricedIn \cup RegressedIn \cup SpreadIn \cup ReturnedIn)
    BY FieldNames DEF PricedIn, RegressedIn, SpreadIn, ReturnedIn, WeightedIn
  <2>6. "prev" \in WeightedIn
    BY DEF WeightedIn
  <2>7. \A f \in WeightedIn : b3[f] = b[f] /\ b4[f] = b[f]
    BY <1>6, <2>5
  <2>8. QED BY <1>6, <2>1, <2>2, <2>3, <2>4, <2>6, <2>7
<1>8. /\ b5.n = b.n + 1 /\ b5.close = Mid(q) /\ b5.close_t = q.t /\ b5.vol = b.vol + q.v
      /\ b5.open = (IF b.n = 0 THEN Mid(q) ELSE b.open) /\ b5.open_t = (IF b.n = 0 THEN q.t ELSE b.open_t)
      /\ b5.high = (IF b.n = 0 THEN Mid(q) ELSE Higher(b.high, Mid(q)))
      /\ b5.low = (IF b.n = 0 THEN Mid(q) ELSE Lower(b.low, Mid(q)))
      /\ b5.open_t = b1.open_t
  BY <1>1, <1>7 DEF PricedIn
<1>9. /\ b5.sx = b.sx + x /\ b5.sy = b.sy + Mid(q) /\ b5.sxy = b.sxy + x * Mid(q)
      /\ b5.sxx = b.sxx + x * x /\ b5.last_x = x /\ x = q.t - b5.open_t
  BY <1>2, <1>7, <1>8 DEF RegressedIn
<1>10. /\ b5.spread = (IF HasBook(q) THEN b.spread + q.ask - q.bid ELSE b.spread)
       /\ b5.books = (IF HasBook(q) THEN b.books + 1 ELSE b.books)
  BY <1>3, <1>7 DEF SpreadIn
<1>11. r = Mid(q) - b.prev /\ (HasReturn(b3, q) <=> HasReturn(b, q))
  BY <1>7 DEF HasReturn
<1>12. /\ HasReturn(b, q) =>
            /\ b5.rv = b.rv + r * r /\ b5.max_abs = Higher(b.max_abs, Abs(r)) /\ b5.prev_abs = Abs(r)
            /\ b5.bipower = (IF b.prev_abs >= 0 THEN b.bipower + Abs(r) * b.prev_abs ELSE b.bipower)
            /\ b5.ofi = b.ofi + Sign(r) * q.v /\ b5.ofi_vol = b.ofi_vol + q.v
       /\ ~HasReturn(b, q) =>
            /\ b5.rv = b.rv /\ b5.max_abs = b.max_abs /\ b5.prev_abs = b.prev_abs
            /\ b5.bipower = b.bipower /\ b5.ofi = b.ofi /\ b5.ofi_vol = b.ofi_vol
  <2>0. {"rv", "max_abs", "prev_abs", "bipower", "ofi", "ofi_vol"} = ReturnedIn
    BY DEF ReturnedIn
  <2>1. /\ b5.rv = b4.rv /\ b5.max_abs = b4.max_abs /\ b5.prev_abs = b4.prev_abs
        /\ b5.bipower = b4.bipower /\ b5.ofi = b4.ofi /\ b5.ofi_vol = b4.ofi_vol
        /\ b3.rv = b.rv /\ b3.max_abs = b.max_abs /\ b3.prev_abs = b.prev_abs
        /\ b3.bipower = b.bipower /\ b3.ofi = b.ofi /\ b3.ofi_vol = b.ofi_vol
    BY <1>7, <2>0
  <2> HIDE DEF r
  <2>2. QED BY <1>4, <1>11, <2>1
<1>13. /\ b5.prev = Mid(q) /\ b5.ci = b.ci + q.ci * q.accepted
       /\ b5.accepted = b.accepted + q.accepted /\ b5.rejected = b.rejected + q.rejected
  BY <1>5, <1>7 DEF WeightedIn
<1> HIDE DEF x, r
<1>14. AfterTick(b, q, b5)
  BY <1>6, <1>8, <1>9, <1>10, <1>11, <1>12, <1>13 DEF AfterTick
<1>15. QED BY <1>0, <1>14

-----------------------------------------------------------------------------
(* The ticks so far, and what a bar must tell of them.                     *)
Ret(s, i)    == Mid(s[i]) - Mid(s[i - 1])
Moves(s)     == {i \in DOMAIN s \ {1} : Mid(s[i]) > 0 /\ Mid(s[i - 1]) > 0}
MovesBefore(s, i) == {j \in Moves(s) : j < i}
Paired(s)    == {i \in Moves(s) : MovesBefore(s, i) # {}}
Ups(s)       == {i \in Moves(s) : Ret(s, i) > 0}
Downs(s)     == {i \in Moves(s) : Ret(s, i) < 0}
Quotes(s)    == {i \in DOMAIN s : HasBook(s[i])}
Squares(s)   == [i \in Moves(s) |-> Ret(s, i) * Ret(s, i)]
Products(s)  == [i \in Paired(s) |-> Abs(Ret(s, i)) * Abs(Ret(s, Max(MovesBefore(s, i))))]
Widths(s)    == [i \in Quotes(s) |-> s[i].ask - s[i].bid]
Volumes(s, S) == [i \in S |-> s[i].v]

LEMMA TickMore ==
  ASSUME NEW s \in Seq(BarTick), NEW q \in BarTick, NEW k, k = Len(s) + 1, NEW s2, s2 = Append(s, q)
  PROVE  /\ s2 \in Seq(BarTick) /\ k \in Nat /\ k >= 1 /\ Len(s) \in Nat /\ Len(s2) = k /\ s2[k] = q
         /\ DOMAIN s = 1 .. Len(s) /\ DOMAIN s2 = 1 .. k /\ \A i \in 1 .. Len(s) : s2[i] = s[i]
         /\ \A i \in 1 .. Len(s) : i < k /\ i # k
<1>1. Len(s) \in Nat /\ DOMAIN s = 1 .. Len(s)
  BY LenProperties
<1>2. /\ s2 \in Seq(BarTick) /\ Len(s2) = Len(s) + 1 /\ s2[Len(s) + 1] = q
      /\ \A i \in 1 .. Len(s) : s2[i] = s[i]
  BY AppendProperties
<1>3. DOMAIN s2 = 1 .. Len(s2)
  BY <1>2, LenProperties
<1>4. QED BY <1>1, <1>2, <1>3

LEMMA TickAt ==
  ASSUME NEW s \in Seq(BarTick), NEW i \in 1 .. Len(s)
  PROVE  /\ s[i] \in BarTick /\ Mid(s[i]) \in Nat /\ s[i].v \in Nat /\ s[i].t \in Nat
         /\ s[i].ask \in Nat /\ s[i].bid \in Nat
<1>1. s[i] \in BarTick
  BY ElementOfSeq
<1>2. QED BY <1>1, TickFacts

(* A total to which one more value is added.                               *)
Grown(S, f, k, g) ==
  /\ IsFiniteSet(S) /\ DOMAIN f = S /\ \A i \in S : f[i] \in Nat
  /\ k \notin S /\ DOMAIN g = S \cup {k} /\ (\A i \in S : g[i] = f[i]) /\ g[k] \in Nat
LEMMA TotalGrows ==
  ASSUME NEW S, NEW f, NEW k, NEW g, Grown(S, f, k, g)
  PROVE  Total(g) = Total(f) + g[k] /\ Total(f) \in Nat /\ Total(g) \in Nat
<1>0. /\ IsFiniteSet(S) /\ DOMAIN f = S /\ \A i \in S : f[i] \in Nat
      /\ k \notin S /\ DOMAIN g = S \cup {k} /\ (\A i \in S : g[i] = f[i]) /\ g[k] \in Nat
  BY DEF Grown
<1>1. IsFiniteSet(S \cup {k})
  BY <1>0, Added
<1>2. Summable(f, S) /\ Summable(g, S \cup {k}) /\ Summable(g, S)
  BY <1>0, <1>1 DEF Summable
<1>3. k \in S \cup {k} /\ (S \cup {k}) \ {k} = S
  BY <1>0
<1>4. SumOf(g, S \cup {k}) = g[k] + SumOf(g, (S \cup {k}) \ {k})
  BY <1>2, <1>3, SumTaken
<1>5. SumOf(g, S) = SumOf(f, S) /\ SumOf(f, S) \in Nat
  BY <1>0, <1>2, SumSame, SumNat
<1>6. Total(g) = SumOf(g, S \cup {k}) /\ Total(f) = SumOf(f, S)
  BY <1>0 DEF Total, SumOf
<1>7. QED BY <1>0, <1>3, <1>4, <1>5, <1>6

LEMMA TotalNone == ASSUME NEW f, DOMAIN f = {} PROVE Total(f) = 0
<1>1. SumOf(f, {}) = 0
  BY SumNone
<1>2. QED BY <1>1 DEF Total, SumOf

(* Returns with one tick more.                                             *)
LEMMA MovesFacts ==
  ASSUME NEW s \in Seq(BarTick)
  PROVE  /\ IsFiniteSet(Moves(s)) /\ IsFiniteSet(Quotes(s)) /\ Moves(s) \subseteq 1 .. Len(s)
         /\ Quotes(s) \subseteq 1 .. Len(s)
         /\ \A i \in Moves(s) : i - 1 \in 1 .. Len(s) /\ Ret(s, i) \in Int /\ s[i].v \in Nat /\ i \in Nat
<1>1. Len(s) \in Nat /\ DOMAIN s = 1 .. Len(s)
  BY LenProperties
<1>2. Moves(s) \subseteq 1 .. Len(s) /\ Quotes(s) \subseteq 1 .. Len(s) /\ IsFiniteSet(1 .. Len(s))
  BY <1>1, FS_Interval DEF Moves, Quotes
<1>3. IsFiniteSet(Moves(s)) /\ IsFiniteSet(Quotes(s))
  BY <1>2, FS_Subset
<1>4. ASSUME NEW i \in Moves(s)
      PROVE  i - 1 \in 1 .. Len(s) /\ Ret(s, i) \in Int /\ s[i].v \in Nat /\ i \in Nat
  <2>1. i \in 1 .. Len(s) /\ i # 1
    BY <1>1, <1>4 DEF Moves
  <2>2. i - 1 \in 1 .. Len(s)
    BY <1>1, <2>1
  <2>3. Mid(s[i]) \in Nat /\ Mid(s[i - 1]) \in Nat /\ s[i].v \in Nat
    BY <2>1, <2>2, TickAt
  <2>4. QED BY <1>1, <2>1, <2>2, <2>3 DEF Ret
<1>5. QED BY <1>2, <1>3, <1>4

Moving(s, q) == Len(s) > 0 /\ Mid(q) > 0 /\ Mid(s[Len(s)]) > 0
MovesGrow(s, q, k, s2) ==
  /\ Moves(s2) = (IF Moving(s, q) THEN Moves(s) \cup {k} ELSE Moves(s))
  /\ k \notin Moves(s)
  /\ \A i \in Moves(s) : Ret(s2, i) = Ret(s, i) /\ s2[i].v = s[i].v
  /\ Moving(s, q) => Ret(s2, k) = Mid(q) - Mid(s[Len(s)]) /\ Ret(s2, k) \in Int /\ s2[k].v = q.v
LEMMA MovesMore ==
  ASSUME NEW s \in Seq(BarTick), NEW q \in BarTick, NEW k, k = Len(s) + 1, NEW s2, s2 = Append(s, q)
  PROVE  MovesGrow(s, q, k, s2)
<1>1. /\ s2 \in Seq(BarTick) /\ k \in Nat /\ k >= 1 /\ Len(s) \in Nat /\ Len(s2) = k /\ s2[k] = q
      /\ DOMAIN s = 1 .. Len(s) /\ DOMAIN s2 = 1 .. k
      /\ \A i \in 1 .. Len(s) : s2[i] = s[i] /\ i < k /\ i # k
  BY TickMore
<1>2. \A i \in 1 .. Len(s) : i # 1 => i - 1 \in 1 .. Len(s)
  BY <1>1
<1>3. ASSUME NEW i \in 1 .. Len(s), i # 1
      PROVE  (i \in Moves(s2) <=> i \in Moves(s)) /\ Ret(s2, i) = Ret(s, i)
  <2>1. s2[i] = s[i] /\ s2[i - 1] = s[i - 1] /\ i \in DOMAIN s2 /\ i \in DOMAIN s
    BY <1>1, <1>2, <1>3
  <2>2. QED BY <1>3, <2>1 DEF Moves, Ret
<1>4. Len(s) > 0 => k - 1 = Len(s) /\ s2[k - 1] = s[Len(s)] /\ k # 1
  <2> SUFFICES ASSUME Len(s) > 0 PROVE k - 1 = Len(s) /\ s2[k - 1] = s[Len(s)] /\ k # 1
    OBVIOUS
  <2>1. k - 1 = Len(s) /\ k # 1 /\ Len(s) \in 1 .. Len(s)
    BY <1>1
  <2>2. s2[Len(s)] = s[Len(s)]
    BY <1>1, <2>1
  <2>3. QED BY <2>1, <2>2
<1>5. k \in Moves(s2) <=> Moving(s, q)
  <2>0. k \in DOMAIN s2
    BY <1>1
  <2>1. CASE Len(s) > 0
    <3>1. k \in DOMAIN s2 \ {1} /\ Mid(s2[k]) = Mid(q) /\ Mid(s2[k - 1]) = Mid(s[Len(s)])
      BY <1>1, <1>4, <2>0, <2>1
    <3>2. QED BY <2>1, <3>1 DEF Moves, Moving
  <2>2. CASE ~(Len(s) > 0)
    <3>1. k = 1
      BY <1>1, <2>2
    <3>2. QED BY <2>2, <3>1 DEF Moves, Moving
  <2>3. QED BY <2>1, <2>2
<1>6. Moves(s) \subseteq (1 .. Len(s)) \ {1} /\ Moves(s2) \subseteq (1 .. k) \ {1}
  BY <1>1 DEF Moves
<1>7. k \notin Moves(s)
  BY <1>1, <1>6
<1>8. \A i \in 1 .. k : i = k \/ i \in 1 .. Len(s)
  BY <1>1
<1>9. Moves(s2) = (IF Moving(s, q) THEN Moves(s) \cup {k} ELSE Moves(s))
  <2>1. \A i : i \in Moves(s2) <=> (i \in Moves(s) \/ (i = k /\ Moving(s, q)))
    BY <1>3, <1>5, <1>6, <1>7, <1>8
  <2>2. QED BY <2>1
<1>10. \A i \in Moves(s) : Ret(s2, i) = Ret(s, i) /\ s2[i].v = s[i].v
  BY <1>1, <1>3, <1>6
<1>11. Moving(s, q) => Ret(s2, k) = Mid(q) - Mid(s[Len(s)]) /\ Ret(s2, k) \in Int /\ s2[k].v = q.v
  <2> SUFFICES ASSUME Moving(s, q)
               PROVE  Ret(s2, k) = Mid(q) - Mid(s[Len(s)]) /\ Ret(s2, k) \in Int /\ s2[k].v = q.v
    OBVIOUS
  <2>1. Ret(s2, k) = Mid(q) - Mid(s[Len(s)])
    BY <1>1, <1>4 DEF Ret, Moving
  <2>2. Mid(q) \in Nat /\ Mid(s[Len(s)]) \in Nat
    BY <1>1, TickFacts, TickAt DEF Moving
  <2>3. QED BY <1>1, <2>1, <2>2
<1>12. QED BY <1>7, <1>9, <1>10, <1>11 DEF MovesGrow

LEMMA Product ==
  \A x, y \in Int : x * x \in Nat /\ Abs(x) \in Nat /\ (x \in Nat /\ y \in Nat => x * y \in Nat)
BY DEF Abs

VolumeGrows(s, q, k, s2, S) ==
  /\ Total(Volumes(s2, S)) = Total(Volumes(s, S)) /\ Total(Volumes(s, S)) \in Nat
  /\ Total(Volumes(s2, S \cup {k})) = Total(Volumes(s, S)) + q.v
LEMMA VolumeMore ==
  ASSUME NEW s \in Seq(BarTick), NEW q \in BarTick, NEW k, k = Len(s) + 1, NEW s2, s2 = Append(s, q),
         NEW S \in SUBSET (1 .. Len(s))
  PROVE  VolumeGrows(s, q, k, s2, S)
<1>1. /\ s2[k] = q /\ \A i \in 1 .. Len(s) : s2[i] = s[i] /\ i # k
      /\ Len(s) \in Nat
  BY TickMore
<1>2. IsFiniteSet(S)
  <2>1. IsFiniteSet(1 .. Len(s))
    BY <1>1, FS_Interval
  <2>2. QED BY <2>1, FS_Subset
<1> DEFINE f == Volumes(s, S)
           g == Volumes(s2, S \cup {k})
<1>3. DOMAIN f = S /\ DOMAIN g = S \cup {k} /\ k \notin S
  BY <1>1 DEF Volumes
<1>4. (\A i \in S : f[i] \in Nat /\ g[i] = f[i]) /\ g[k] = q.v
  BY <1>1, TickAt DEF Volumes
<1>5. q.v \in Nat
  BY TickFacts
<1> HIDE DEF f, g
<1>6. Total(g) = Total(f) + g[k] /\ Total(f) \in Nat
  <2>1. Grown(S, f, k, g)
    BY <1>2, <1>3, <1>4, <1>5 DEF Grown
  <2>2. QED BY <2>1, TotalGrows
<1>7. Volumes(s2, S) = Volumes(s, S)
  BY <1>1 DEF Volumes
<1>8. QED BY <1>4, <1>6, <1>7 DEF f, g, VolumeGrows

LEMMA SquaresMore ==
  ASSUME NEW s \in Seq(BarTick), NEW q \in BarTick, NEW k, k = Len(s) + 1, NEW s2, s2 = Append(s, q)
  PROVE  /\ Moving(s, q) => Total(Squares(s2)) = Total(Squares(s)) + Ret(s2, k) * Ret(s2, k)
         /\ ~Moving(s, q) => Squares(s2) = Squares(s)
<1>1. /\ Moves(s2) = (IF Moving(s, q) THEN Moves(s) \cup {k} ELSE Moves(s))
      /\ k \notin Moves(s) /\ \A i \in Moves(s) : Ret(s2, i) = Ret(s, i)
      /\ Moving(s, q) => Ret(s2, k) \in Int
  <2>1. MovesGrow(s, q, k, s2)
    BY MovesMore
  <2>2. QED BY <2>1 DEF MovesGrow
<1>2. IsFiniteSet(Moves(s)) /\ \A i \in Moves(s) : Ret(s, i) \in Int
  BY MovesFacts
<1>3. ASSUME Moving(s, q) PROVE Total(Squares(s2)) = Total(Squares(s)) + Ret(s2, k) * Ret(s2, k)
  <2> DEFINE f == Squares(s)
             g == Squares(s2)
  <2>1. DOMAIN f = Moves(s) /\ DOMAIN g = Moves(s) \cup {k}
    BY <1>1, <1>3 DEF Squares
  <2>2. \A i \in Moves(s) : f[i] \in Nat
    <3> TAKE i \in Moves(s)
    <3>1. f[i] = Ret(s, i) * Ret(s, i)
      BY DEF Squares
    <3>2. QED BY <1>2, <3>1, Product
  <2>3. \A i \in Moves(s) : g[i] = f[i]
    BY <1>1, <1>3 DEF Squares
  <2>4. g[k] = Ret(s2, k) * Ret(s2, k) /\ g[k] \in Nat
    <3>1. g[k] = Ret(s2, k) * Ret(s2, k)
      BY <1>1, <1>3 DEF Squares
    <3>2. QED BY <1>1, <1>3, <3>1, Product
  <2> HIDE DEF f, g
  <2>5. Total(g) = Total(f) + g[k]
    <3>1. Grown(Moves(s), f, k, g)
      BY <1>1, <1>2, <2>1, <2>2, <2>3, <2>4 DEF Grown
    <3>2. QED BY <3>1, TotalGrows
  <2>6. QED BY <2>4, <2>5 DEF f, g
<1>4. ASSUME ~Moving(s, q) PROVE Squares(s2) = Squares(s)
  BY <1>1, <1>4 DEF Squares
<1>5. QED BY <1>3, <1>4

LEMMA QuotesMore ==
  ASSUME NEW s \in Seq(BarTick), NEW q \in BarTick, NEW k, k = Len(s) + 1, NEW s2, s2 = Append(s, q)
  PROVE  /\ HasBook(q) => /\ Quotes(s2) = Quotes(s) \cup {k}
                          /\ Cardinality(Quotes(s2)) = Cardinality(Quotes(s)) + 1
                          /\ Total(Widths(s2)) = Total(Widths(s)) + (q.ask - q.bid)
         /\ ~HasBook(q) => Quotes(s2) = Quotes(s) /\ Widths(s2) = Widths(s)
         /\ Total(Widths(s)) \in Nat
<1>1. /\ s2[k] = q /\ (\A i \in 1 .. Len(s) : s2[i] = s[i] /\ i # k)
      /\ Len(s) \in Nat /\ DOMAIN s = 1 .. Len(s) /\ DOMAIN s2 = 1 .. k /\ k \in Nat /\ k >= 1
  BY TickMore
<1>2. IsFiniteSet(Quotes(s)) /\ Quotes(s) \subseteq 1 .. Len(s)
  BY MovesFacts
<1>3. \A i : i \in 1 .. k <=> i \in 1 .. Len(s) \/ i = k
  BY <1>1
<1>4. Quotes(s2) = IF HasBook(q) THEN Quotes(s) \cup {k} ELSE Quotes(s)
  BY <1>1, <1>3 DEF Quotes
<1>5. k \notin Quotes(s)
  BY <1>1, <1>2
<1>6. \A i \in Quotes(s) : s[i].ask - s[i].bid \in Nat
  <2> TAKE i \in Quotes(s)
  <2>1. s[i].ask \in Nat /\ s[i].bid \in Nat /\ HasBook(s[i])
    BY <1>2, TickAt DEF Quotes
  <2>2. QED BY <2>1 DEF HasBook
<1> DEFINE f == Widths(s)
<1>7. DOMAIN f = Quotes(s) /\ \A i \in Quotes(s) : f[i] = s[i].ask - s[i].bid
  BY DEF Widths
<1>8. Total(f) \in Nat
  <2>1. Summable(f, Quotes(s))
    BY <1>2, <1>6, <1>7 DEF Summable
  <2>2. SumOf(f, Quotes(s)) \in Nat
    BY <2>1, SumNat
  <2>3. QED BY <1>7, <2>2 DEF Total, SumOf
<1>9. ASSUME HasBook(q)
      PROVE  /\ Cardinality(Quotes(s2)) = Cardinality(Quotes(s)) + 1
             /\ Total(Widths(s2)) = Total(Widths(s)) + (q.ask - q.bid)
  <2> DEFINE g == Widths(s2)
  <2>1. DOMAIN g = Quotes(s) \cup {k} /\ \A i \in Quotes(s) : g[i] = f[i]
    BY <1>1, <1>2, <1>4, <1>7, <1>9 DEF Widths
  <2>2. g[k] = q.ask - q.bid
    BY <1>1, <1>4, <1>9 DEF Widths
  <2>3. q.ask - q.bid \in Nat
    BY <1>9, TickFacts DEF HasBook
  <2> HIDE DEF f, g
  <2>4. Total(g) = Total(f) + g[k]
    <3>1. Grown(Quotes(s), f, k, g)
      BY <1>2, <1>5, <1>6, <1>7, <2>1, <2>2, <2>3 DEF Grown
    <3>2. QED BY <3>1, TotalGrows
  <2>5. Cardinality(Quotes(s2)) = Cardinality(Quotes(s)) + 1
    BY <1>2, <1>4, <1>5, <1>9, Added
  <2>6. QED BY <2>2, <2>4, <2>5 DEF f, g
<1>10. ASSUME ~HasBook(q) PROVE Quotes(s2) = Quotes(s) /\ Widths(s2) = Widths(s)
  BY <1>1, <1>2, <1>4, <1>10 DEF Widths
<1>11. QED BY <1>4, <1>8, <1>9, <1>10

(* The largest move, and the pairs of moves next to each other.            *)
LEMMA LastMove ==
  ASSUME NEW s \in Seq(BarTick), NEW S \in SUBSET Moves(s), S # {}
  PROVE  Max(S) \in Moves(s) /\ Max(S) \in S
<1>1. S \subseteq Nat /\ IsFiniteSet(S)
  BY MovesFacts, FS_Subset
<1>2. QED BY <1>1, MaxFinite

PairsGrow(s, q, k, s2) ==
  /\ Moving(s, q) /\ Moves(s) # {} =>
       Total(Products(s2)) = Total(Products(s)) + Abs(Ret(s2, k)) * Abs(Ret(s, Max(Moves(s))))
  /\ ~Moving(s, q) \/ Moves(s) = {} => Products(s2) = Products(s)
LEMMA PairsMore ==
  ASSUME NEW s \in Seq(BarTick), NEW q \in BarTick, NEW k, k = Len(s) + 1, NEW s2, s2 = Append(s, q)
  PROVE  PairsGrow(s, q, k, s2)
<1>1. /\ Moves(s2) = (IF Moving(s, q) THEN Moves(s) \cup {k} ELSE Moves(s))
      /\ k \notin Moves(s) /\ \A i \in Moves(s) : Ret(s2, i) = Ret(s, i)
      /\ Moving(s, q) => Ret(s2, k) \in Int
  <2>1. MovesGrow(s, q, k, s2)
    BY MovesMore
  <2>2. QED BY <2>1 DEF MovesGrow
<1>2. /\ Moves(s) \subseteq 1 .. Len(s) /\ IsFiniteSet(Moves(s)) /\ Len(s) \in Nat
      /\ \A i \in Moves(s) : Ret(s, i) \in Int
  BY MovesFacts, LenProperties
<1>3. \A i \in 1 .. Len(s) : i < k /\ ~(k < i)
  BY <1>2
<1>4. ASSUME NEW i \in Moves(s) PROVE MovesBefore(s2, i) = MovesBefore(s, i)
  <2>1. \A j \in Moves(s2) : j < i => j \in Moves(s)
    BY <1>1, <1>2, <1>3
  <2>2. Moves(s) \subseteq Moves(s2)
    BY <1>1
  <2>3. QED BY <2>1, <2>2 DEF MovesBefore
<1>5. Moving(s, q) => MovesBefore(s2, k) = Moves(s)
  <2> SUFFICES ASSUME Moving(s, q) PROVE MovesBefore(s2, k) = Moves(s)
    OBVIOUS
  <2>1. ~(k < k)
    BY <1>2
  <2>2. \A j : j \in Moves(s2) /\ j < k <=> j \in Moves(s)
    BY <1>1, <1>2, <1>3, <2>1
  <2>3. QED BY <2>2 DEF MovesBefore
<1>6. Paired(s2) = IF Moving(s, q) /\ Moves(s) # {} THEN Paired(s) \cup {k} ELSE Paired(s)
  BY <1>1, <1>4, <1>5 DEF Paired
<1>7. Paired(s) \subseteq Moves(s) /\ IsFiniteSet(Paired(s)) /\ k \notin Paired(s)
  BY <1>1, <1>2, FS_Subset DEF Paired
<1>8. ASSUME NEW i \in Paired(s) PROVE Products(s2)[i] = Products(s)[i] /\ Products(s)[i] \in Nat
  <2>1. /\ MovesBefore(s, i) # {} /\ MovesBefore(s, i) \in SUBSET Moves(s) /\ i \in Moves(s)
        /\ i \in Paired(s2)
    BY <1>6, <1>8 DEF Paired, MovesBefore
  <2> DEFINE j == Max(MovesBefore(s, i))
  <2>2. j \in Moves(s)
    BY <2>1, LastMove
  <2>3. /\ Products(s)[i] = Abs(Ret(s, i)) * Abs(Ret(s, j))
        /\ Products(s2)[i] = Abs(Ret(s2, i)) * Abs(Ret(s2, j))
    BY <1>4, <2>1 DEF Products
  <2> HIDE DEF j
  <2>4. Ret(s2, i) = Ret(s, i) /\ Ret(s2, j) = Ret(s, j) /\ Ret(s, i) \in Int /\ Ret(s, j) \in Int
    BY <1>1, <1>2, <2>1, <2>2
  <2>5. Abs(Ret(s, i)) \in Nat /\ Abs(Ret(s, j)) \in Nat
    BY <2>4, Product
  <2>6. Abs(Ret(s, i)) * Abs(Ret(s, j)) \in Nat
    BY <2>5, Product
  <2>7. QED BY <2>3, <2>4, <2>6
<1>9. ASSUME Moving(s, q), Moves(s) # {}
      PROVE  Total(Products(s2)) = Total(Products(s)) + Abs(Ret(s2, k)) * Abs(Ret(s, Max(Moves(s))))
  <2> DEFINE f == Products(s)
             g == Products(s2)
             S == Paired(s)
             last == Max(Moves(s))
  <2>1. DOMAIN f = S /\ DOMAIN g = S \cup {k}
    BY <1>6, <1>9 DEF Products
  <2>2. last \in Moves(s)
    BY <1>9, LastMove
  <2>3. g[k] = Abs(Ret(s2, k)) * Abs(Ret(s2, last))
    BY <1>5, <1>6, <1>9 DEF Products
  <2>4. Ret(s2, last) = Ret(s, last) /\ Ret(s, last) \in Int /\ Ret(s2, k) \in Int
    BY <1>1, <1>2, <1>9, <2>2
  <2>5. g[k] \in Nat
    <3>1. Abs(Ret(s2, k)) \in Nat /\ Abs(Ret(s, last)) \in Nat
      BY <2>4, Product
    <3>2. Abs(Ret(s2, k)) * Abs(Ret(s, last)) \in Nat
      BY <3>1, Product
    <3>3. QED BY <2>3, <2>4, <3>2
  <2>6. \A i \in S : f[i] \in Nat /\ g[i] = f[i]
    BY <1>8
  <2>7. IsFiniteSet(S) /\ k \notin S
    BY <1>7
  <2> HIDE DEF f, g, S, last
  <2>8. Grown(S, f, k, g)
    BY <2>1, <2>5, <2>6, <2>7 DEF Grown
  <2>9. Total(g) = Total(f) + g[k]
    BY <2>8, TotalGrows
  <2>10. QED BY <2>3, <2>4, <2>9 DEF f, g, last
<1>10. ASSUME ~Moving(s, q) \/ Moves(s) = {} PROVE Products(s2) = Products(s)
  <2>1. Paired(s2) = Paired(s)
    BY <1>6, <1>10
  <2>2. /\ Products(s2) = [i \in Paired(s) |-> Products(s2)[i]]
        /\ Products(s) = [i \in Paired(s) |-> Products(s)[i]]
    BY <2>1 DEF Products
  <2>3. QED BY <1>8, <2>2
<1>11. QED BY <1>9, <1>10 DEF PairsGrow

(* The moves up and the moves down.                                        *)
SidesGrow(s, q, k, s2, r) ==
  /\ Ups(s2) = (IF Moving(s, q) /\ r > 0 THEN Ups(s) \cup {k} ELSE Ups(s))
  /\ Downs(s2) = (IF Moving(s, q) /\ r < 0 THEN Downs(s) \cup {k} ELSE Downs(s))
  /\ Ups(s) \in SUBSET (1 .. Len(s)) /\ Downs(s) \in SUBSET (1 .. Len(s))
  /\ Moves(s) \in SUBSET (1 .. Len(s))
LEMMA SidesMore ==
  ASSUME NEW s \in Seq(BarTick), NEW q \in BarTick, NEW k, k = Len(s) + 1, NEW s2, s2 = Append(s, q)
  PROVE  SidesGrow(s, q, k, s2, Ret(s2, k))
<1>1. /\ Moves(s2) = (IF Moving(s, q) THEN Moves(s) \cup {k} ELSE Moves(s))
      /\ k \notin Moves(s) /\ \A i \in Moves(s) : Ret(s2, i) = Ret(s, i)
  <2>1. MovesGrow(s, q, k, s2)
    BY MovesMore
  <2>2. QED BY <2>1 DEF MovesGrow
<1>2. Moves(s) \subseteq 1 .. Len(s)
  BY MovesFacts
<1> DEFINE r == Ret(s2, k)
<1>3. Ups(s2) = (IF Moving(s, q) /\ r > 0 THEN Ups(s) \cup {k} ELSE Ups(s))
  BY <1>1 DEF Ups
<1>4. Downs(s2) = (IF Moving(s, q) /\ r < 0 THEN Downs(s) \cup {k} ELSE Downs(s))
  BY <1>1 DEF Downs
<1>5. QED BY <1>2, <1>3, <1>4 DEF SidesGrow, Ups, Downs

-----------------------------------------------------------------------------
(* The inductive invariant: what the accumulator tells of the ticks so far. *)
PricesTold(b, s) ==
  /\ b.n = Len(s) /\ b.low \in Int /\ b.high \in Int /\ b.low <= b.high
  /\ s = <<>> => b.prev = 0
  /\ s # <<>> =>
       /\ b.open = Mid(s[1]) /\ b.open_t = s[1].t /\ b.close = Mid(s[Len(s)])
       /\ b.prev = Mid(s[Len(s)]) /\ b.last_x = s[Len(s)].t - s[1].t
       /\ \E i, j \in DOMAIN s : b.low = Mid(s[i]) /\ b.high = Mid(s[j])
  /\ \A i \in DOMAIN s : b.low <= Mid(s[i]) /\ Mid(s[i]) <= b.high
MovesTold(b, s) ==
  /\ b.rv = Total(Squares(s)) /\ b.max_abs \in Int
  /\ \A i \in Moves(s) : Abs(Ret(s, i)) <= b.max_abs
  /\ b.prev_abs = (IF Moves(s) = {} THEN -1 ELSE Abs(Ret(s, Max(Moves(s)))))
  /\ b.bipower = Total(Products(s))
VolumesTold(b, s) ==
  /\ b.ofi = Total(Volumes(s, Ups(s))) - Total(Volumes(s, Downs(s)))
  /\ b.ofi_vol = Total(Volumes(s, Moves(s)))
SpreadsTold(b, s) == b.spread = Total(Widths(s)) /\ b.books = Cardinality(Quotes(s))

LEMMA PricesStep ==
  ASSUME NEW s \in Seq(BarTick), NEW b, DOMAIN b = Fields, PricesTold(b, s),
         NEW q \in BarTick, NEW c, AfterTick(b, q, c)
  PROVE  PricesTold(c, Append(s, q))
<1> DEFINE k == Len(s) + 1
           s2 == Append(s, q)
<1>1. /\ k \in Nat /\ k >= 1 /\ Len(s) \in Nat /\ Len(s2) = k /\ s2[k] = q
      /\ DOMAIN s = 1 .. Len(s) /\ DOMAIN s2 = 1 .. k /\ \A i \in 1 .. Len(s) : s2[i] = s[i]
  BY TickMore
<1>2. Len(s) = 0 <=> s = <<>>
  BY EmptySeq
<1>3. Mid(q) \in Nat /\ \A i \in 1 .. Len(s) : Mid(s[i]) \in Nat
  BY TickFacts, TickAt
<1>4. /\ c.n = b.n + 1 /\ c.close = Mid(q) /\ c.prev = Mid(q) /\ c.last_x = q.t - c.open_t
      /\ c.open = (IF b.n = 0 THEN Mid(q) ELSE b.open) /\ c.open_t = (IF b.n = 0 THEN q.t ELSE b.open_t)
      /\ c.high = (IF b.n = 0 THEN Mid(q) ELSE Higher(b.high, Mid(q)))
      /\ c.low = (IF b.n = 0 THEN Mid(q) ELSE Lower(b.low, Mid(q)))
  BY DEF AfterTick
<1>5. b.n = Len(s) /\ b.low \in Int /\ b.high \in Int /\ b.low <= b.high
  BY DEF PricesTold
<1> HIDE DEF k, s2
<1>6. s2 # <<>> /\ k \in DOMAIN s2
  BY <1>1
<1>7. ASSUME Len(s) = 0 PROVE PricesTold(c, s2)
  <2>1. k = 1
    BY <1>7 DEF k
  <2>2. c.low = Mid(q) /\ c.high = Mid(q) /\ c.open = Mid(q) /\ c.open_t = q.t /\ c.n = 1
    BY <1>4, <1>5, <1>7
  <2>3. \A i \in DOMAIN s2 : i = 1
    BY <1>1, <2>1
  <2>4. QED BY <1>1, <1>3, <1>4, <1>6, <2>1, <2>2, <2>3 DEF PricesTold
<1>8. ASSUME Len(s) # 0 PROVE PricesTold(c, s2)
  <2>1. /\ b.open = Mid(s[1]) /\ b.open_t = s[1].t
        /\ \A i \in DOMAIN s : b.low <= Mid(s[i]) /\ Mid(s[i]) <= b.high
    BY <1>2, <1>8 DEF PricesTold
  <2>2. PICK i1, j1 \in DOMAIN s : b.low = Mid(s[i1]) /\ b.high = Mid(s[j1])
    BY <1>2, <1>8 DEF PricesTold
  <2>3. 1 \in 1 .. Len(s) /\ s2[1] = s[1]
    BY <1>1, <1>8
  <2>4. /\ c.low = Lower(b.low, Mid(q)) /\ c.high = Higher(b.high, Mid(q)) /\ c.open = b.open
        /\ c.open_t = b.open_t
    BY <1>4, <1>5, <1>8
  <2>5. /\ c.low \in Int /\ c.high \in Int /\ c.low <= b.low /\ c.low <= Mid(q) /\ b.high <= c.high
        /\ Mid(q) <= c.high
    BY <1>3, <1>5, <2>4 DEF Lower, Higher
  <2>6. c.low <= c.high
    BY <1>5, <2>5
  <2>7. ASSUME NEW i \in DOMAIN s2 PROVE c.low <= Mid(s2[i]) /\ Mid(s2[i]) <= c.high
    <3>1. CASE i = k
      BY <1>1, <2>5, <3>1
    <3>2. CASE i # k
      <4>1. i \in 1 .. Len(s) /\ s2[i] = s[i]
        BY <1>1, <3>2, <2>7 DEF k
      <4>2. b.low <= Mid(s[i]) /\ Mid(s[i]) <= b.high /\ Mid(s[i]) \in Nat
        BY <1>1, <1>3, <2>1, <4>1
      <4>3. QED BY <1>5, <2>5, <4>1, <4>2
    <3>3. QED BY <3>1, <3>2
  <2>8. \E i \in DOMAIN s2 : c.low = Mid(s2[i])
    <3>1. CASE c.low = Mid(q)
      BY <1>1, <1>6, <3>1
    <3>2. CASE c.low = b.low
      <4>1. i1 \in DOMAIN s2 /\ s2[i1] = s[i1]
        BY <1>1 DEF k
      <4>2. QED BY <2>2, <3>2, <4>1
    <3>3. QED BY <2>4, <3>1, <3>2 DEF Lower
  <2>9. \E j \in DOMAIN s2 : c.high = Mid(s2[j])
    <3>1. CASE c.high = Mid(q)
      BY <1>1, <1>6, <3>1
    <3>2. CASE c.high = b.high
      <4>1. j1 \in DOMAIN s2 /\ s2[j1] = s[j1]
        BY <1>1 DEF k
      <4>2. QED BY <2>2, <3>2, <4>1
    <3>3. QED BY <2>4, <3>1, <3>2 DEF Higher
  <2>10. c.n = k
    BY <1>4, <1>5 DEF k
  <2>11. QED BY <1>1, <1>4, <1>6, <2>1, <2>3, <2>4, <2>5, <2>6, <2>7, <2>8, <2>9, <2>10 DEF PricesTold
<1>9. QED BY <1>7, <1>8 DEF s2

LEMMA HasReturnMoving ==
  ASSUME NEW s \in Seq(BarTick), NEW b, PricesTold(b, s), NEW q \in BarTick
  PROVE  HasReturn(b, q) <=> Moving(s, q)
<1>1. Len(s) \in Nat /\ (Len(s) = 0 <=> s = <<>>)
  BY EmptySeq, LenProperties
<1>2. CASE s = <<>>
  BY <1>1, <1>2 DEF PricesTold, HasReturn, Moving
<1>3. CASE s # <<>>
  BY <1>1, <1>3 DEF PricesTold, HasReturn, Moving
<1>4. QED BY <1>2, <1>3

LEMMA MovesStep ==
  ASSUME NEW s \in Seq(BarTick), NEW b, PricesTold(b, s), MovesTold(b, s),
         NEW q \in BarTick, NEW c, AfterTick(b, q, c)
  PROVE  MovesTold(c, Append(s, q))
<1> DEFINE k == Len(s) + 1
           s2 == Append(s, q)
           r == Mid(q) - b.prev
           mv == Ret(s2, k)
<1>1. MovesGrow(s, q, k, s2) /\ PairsGrow(s, q, k, s2)
  BY MovesMore, PairsMore
<1>2. /\ Moving(s, q) => Total(Squares(s2)) = Total(Squares(s)) + mv * mv
      /\ ~Moving(s, q) => Squares(s2) = Squares(s)
  BY SquaresMore
<1>3. HasReturn(b, q) <=> Moving(s, q)
  BY HasReturnMoving
<1>4. Moves(s) \subseteq 1 .. Len(s) /\ Len(s) \in Nat /\ \A i \in Moves(s) : Ret(s, i) \in Int
  BY MovesFacts, LenProperties
<1>5. /\ b.rv = Total(Squares(s)) /\ b.max_abs \in Int
      /\ (\A i \in Moves(s) : Abs(Ret(s, i)) <= b.max_abs)
      /\ b.prev_abs = (IF Moves(s) = {} THEN -1 ELSE Abs(Ret(s, Max(Moves(s)))))
      /\ b.bipower = Total(Products(s))
  BY DEF MovesTold
<1> HIDE DEF k, s2, mv
<1>6. CASE ~Moving(s, q)
  <2>1. Moves(s2) = Moves(s) /\ \A i \in Moves(s) : Ret(s2, i) = Ret(s, i)
    BY <1>1, <1>6 DEF MovesGrow
  <2>2. Products(s2) = Products(s) /\ Squares(s2) = Squares(s)
    BY <1>1, <1>2, <1>6 DEF PairsGrow
  <2>3. Moves(s) # {} => Ret(s2, Max(Moves(s))) = Ret(s, Max(Moves(s)))
    <3>1. Moves(s) # {} => Max(Moves(s)) \in Moves(s)
      BY LastMove
    <3>2. QED BY <2>1, <3>1
  <2>4. c.rv = b.rv /\ c.max_abs = b.max_abs /\ c.prev_abs = b.prev_abs /\ c.bipower = b.bipower
    BY <1>3, <1>6 DEF AfterTick
  <2>5. MovesTold(c, s2)
    BY <1>5, <2>1, <2>2, <2>3, <2>4 DEF MovesTold
  <2>6. QED BY <2>5 DEF s2
<1>7. CASE Moving(s, q)
  <2>1. /\ Moves(s2) = Moves(s) \cup {k} /\ (\A i \in Moves(s) : Ret(s2, i) = Ret(s, i))
        /\ mv = Mid(q) - Mid(s[Len(s)]) /\ mv \in Int
    BY <1>1, <1>7 DEF MovesGrow, mv
  <2>2. r = mv
    <3>1. s # <<>>
      BY <1>7, EmptySeq DEF Moving
    <3>2. QED BY <2>1, <3>1 DEF PricesTold
  <2> HIDE DEF r
  <2>3. /\ c.rv = b.rv + mv * mv /\ c.max_abs = Higher(b.max_abs, Abs(mv)) /\ c.prev_abs = Abs(mv)
        /\ c.bipower = (IF b.prev_abs >= 0 THEN b.bipower + Abs(mv) * b.prev_abs ELSE b.bipower)
    <3>1. /\ c.rv = b.rv + r * r /\ c.max_abs = Higher(b.max_abs, Abs(r)) /\ c.prev_abs = Abs(r)
          /\ c.bipower = (IF b.prev_abs >= 0 THEN b.bipower + Abs(r) * b.prev_abs ELSE b.bipower)
      BY <1>3, <1>7 DEF AfterTick, r
    <3>2. QED BY <2>2, <3>1
  <2>4. c.rv = Total(Squares(s2))
    BY <1>2, <1>5, <1>7, <2>3
  <2>5. Abs(mv) \in Nat
    BY <2>1, Product
  <2>6. c.max_abs \in Int /\ b.max_abs <= c.max_abs /\ Abs(mv) <= c.max_abs
    BY <1>5, <2>3, <2>5 DEF Higher
  <2>7. ASSUME NEW i \in Moves(s2) PROVE Abs(Ret(s2, i)) <= c.max_abs
    <3>1. CASE i = k
      BY <2>6, <3>1 DEF mv
    <3>2. CASE i # k
      <4>1. i \in Moves(s) /\ Ret(s2, i) = Ret(s, i)
        BY <2>1, <2>7, <3>2
      <4>2. Abs(Ret(s, i)) \in Nat /\ Abs(Ret(s, i)) <= b.max_abs
        BY <1>4, <1>5, <4>1, Product
      <4>3. QED BY <1>5, <2>6, <4>1, <4>2
    <3>3. QED BY <3>1, <3>2
  <2>8. Max(Moves(s2)) = k
    <3>1. Max(Moves(s2)) \in Moves(s2) /\ \A y \in Moves(s2) : y <= Max(Moves(s2))
      <4>1. Moves(s2) \in SUBSET (1 .. Len(s) + 1) /\ Moves(s2) # {} /\ Len(s) + 1 \in Nat
        BY <1>4, <2>1 DEF k
      <4>2. QED BY <4>1, HasMax
    <3>2. \A i \in Moves(s) : i < k /\ i \in Nat
      BY <1>4 DEF k
    <3>3. k \in Nat /\ k \in Moves(s2)
      BY <1>4, <2>1 DEF k
    <3>4. k >= k /\ \A i \in Moves(s) : i < k /\ ~(k < i) /\ i # k
      BY <3>2, <3>3
    <3> DEFINE top == Max(Moves(s2))
    <3> HIDE DEF top
    <3>5. top \in Moves(s2) /\ k <= top
      BY <3>1, <3>3 DEF top
    <3>6. top \notin Moves(s)
      BY <3>2, <3>3, <3>5
    <3>7. top = k
      BY <2>1, <3>5, <3>6
    <3>8. QED BY <3>7 DEF top
  <2>9. c.prev_abs = (IF Moves(s2) = {} THEN -1 ELSE Abs(Ret(s2, Max(Moves(s2)))))
    BY <2>1, <2>3, <2>8 DEF mv
  <2>10. c.bipower = Total(Products(s2))
    <3>1. CASE Moves(s) = {}
      <4>1. Products(s2) = Products(s)
        BY <1>1, <3>1 DEF PairsGrow
      <4>2. b.prev_abs = -1
        BY <1>5, <3>1
      <4>3. ~(b.prev_abs >= 0)
        BY <4>2
      <4>4. QED BY <1>5, <2>3, <4>1, <4>3
    <3>2. CASE Moves(s) # {}
      <4>1. Total(Products(s2)) = Total(Products(s)) + Abs(mv) * Abs(Ret(s, Max(Moves(s))))
        BY <1>1, <1>7, <3>2 DEF PairsGrow, mv
      <4>2. Max(Moves(s)) \in Moves(s)
        BY <3>2, LastMove
      <4>3. b.prev_abs = Abs(Ret(s, Max(Moves(s)))) /\ b.prev_abs \in Nat
        BY <1>4, <1>5, <3>2, <4>2, Product
      <4>4. b.prev_abs >= 0
        BY <4>3
      <4>5. QED BY <1>5, <2>3, <4>1, <4>3, <4>4
    <3>3. QED BY <3>1, <3>2
  <2>11. MovesTold(c, s2)
    BY <2>4, <2>6, <2>7, <2>9, <2>10 DEF MovesTold
  <2>12. QED BY <2>11 DEF s2
<1>8. QED BY <1>6, <1>7

LEMMA VolumesStep ==
  ASSUME NEW s \in Seq(BarTick), NEW b, PricesTold(b, s), VolumesTold(b, s),
         NEW q \in BarTick, NEW c, AfterTick(b, q, c)
  PROVE  VolumesTold(c, Append(s, q))
<1> DEFINE k == Len(s) + 1
           s2 == Append(s, q)
           r == Mid(q) - b.prev
           mv == Ret(s2, k)
           V(S) == Total(Volumes(s, S))
           W(S) == Total(Volumes(s2, S))
<1>1. MovesGrow(s, q, k, s2) /\ SidesGrow(s, q, k, s2, mv)
  BY MovesMore, SidesMore
<1>2. \A S \in SUBSET (1 .. Len(s)) : W(S) = V(S) /\ V(S) \in Nat /\ W(S \cup {k}) = V(S) + q.v
  <2> SUFFICES ASSUME NEW S \in SUBSET (1 .. Len(s))
               PROVE  W(S) = V(S) /\ V(S) \in Nat /\ W(S \cup {k}) = V(S) + q.v
    OBVIOUS
  <2>1. VolumeGrows(s, q, k, s2, S)
    BY VolumeMore
  <2>2. QED BY <2>1 DEF VolumeGrows
<1>3. HasReturn(b, q) <=> Moving(s, q)
  BY HasReturnMoving
<1>4. b.ofi = V(Ups(s)) - V(Downs(s)) /\ b.ofi_vol = V(Moves(s))
  BY DEF VolumesTold
<1>5. q.v \in Nat
  BY TickFacts
<1> HIDE DEF k, s2, mv, V, W
<1>6. /\ Ups(s) \in SUBSET (1 .. Len(s)) /\ Downs(s) \in SUBSET (1 .. Len(s))
      /\ Moves(s) \in SUBSET (1 .. Len(s))
  BY <1>1 DEF SidesGrow
<1>7. /\ V(Ups(s)) \in Nat /\ V(Downs(s)) \in Nat /\ V(Moves(s)) \in Nat
      /\ W(Ups(s)) = V(Ups(s)) /\ W(Downs(s)) = V(Downs(s)) /\ W(Moves(s)) = V(Moves(s))
      /\ W(Ups(s) \cup {k}) = V(Ups(s)) + q.v /\ W(Downs(s) \cup {k}) = V(Downs(s)) + q.v
      /\ W(Moves(s) \cup {k}) = V(Moves(s)) + q.v
  BY <1>2, <1>6
<1>8. CASE ~Moving(s, q)
  <2>1. Ups(s2) = Ups(s) /\ Downs(s2) = Downs(s) /\ Moves(s2) = Moves(s)
    BY <1>1, <1>8 DEF SidesGrow, MovesGrow
  <2>2. c.ofi = b.ofi /\ c.ofi_vol = b.ofi_vol
    BY <1>3, <1>8 DEF AfterTick
  <2>3. c.ofi = W(Ups(s2)) - W(Downs(s2)) /\ c.ofi_vol = W(Moves(s2))
    BY <1>4, <1>7, <2>1, <2>2
  <2>4. QED BY <2>3 DEF VolumesTold, W, s2
<1>9. CASE Moving(s, q)
  <2>1. /\ Ups(s2) = (IF mv > 0 THEN Ups(s) \cup {k} ELSE Ups(s))
        /\ Downs(s2) = (IF mv < 0 THEN Downs(s) \cup {k} ELSE Downs(s)) /\ Moves(s2) = Moves(s) \cup {k}
        /\ mv = Mid(q) - Mid(s[Len(s)]) /\ mv \in Int
    BY <1>1, <1>9 DEF SidesGrow, MovesGrow, mv
  <2>2. r = mv
    <3>1. s # <<>>
      BY <1>9, EmptySeq DEF Moving
    <3>2. QED BY <2>1, <3>1 DEF PricesTold
  <2>3. c.ofi = b.ofi + Sign(r) * q.v /\ c.ofi_vol = b.ofi_vol + q.v
    BY <1>3, <1>9 DEF AfterTick
  <2> HIDE DEF r
  <2>4. c.ofi = b.ofi + Sign(mv) * q.v
    BY <2>2, <2>3
  <2>5. c.ofi = W(Ups(s2)) - W(Downs(s2))
    <3>1. CASE mv > 0
      <4>1. Sign(mv) * q.v = q.v /\ ~(mv < 0)
        BY <1>5, <2>1, <3>1 DEF Sign
      <4>2. QED BY <1>4, <1>5, <1>7, <2>1, <2>4, <3>1, <4>1
    <3>2. CASE mv < 0
      <4>1. Sign(mv) * q.v = -q.v /\ ~(mv > 0)
        BY <1>5, <2>1, <3>2 DEF Sign
      <4>2. QED BY <1>4, <1>5, <1>7, <2>1, <2>4, <3>2, <4>1
    <3>3. CASE mv = 0
      <4>1. Sign(mv) * q.v = 0 /\ ~(mv > 0) /\ ~(mv < 0)
        BY <1>5, <3>3 DEF Sign
      <4>2. QED BY <1>4, <1>7, <2>1, <2>4, <4>1
    <3>4. QED BY <2>1, <3>1, <3>2, <3>3
  <2>6. c.ofi_vol = W(Moves(s2))
    BY <1>4, <1>7, <2>1, <2>3
  <2>7. QED BY <2>5, <2>6 DEF VolumesTold, W, s2
<1>10. QED BY <1>8, <1>9

LEMMA SpreadsStep ==
  ASSUME NEW s \in Seq(BarTick), NEW b, SpreadsTold(b, s), NEW q \in BarTick, NEW c, AfterTick(b, q, c)
  PROVE  SpreadsTold(c, Append(s, q))
<1> DEFINE k == Len(s) + 1
           s2 == Append(s, q)
<1>1. /\ HasBook(q) => /\ Cardinality(Quotes(s2)) = Cardinality(Quotes(s)) + 1
                       /\ Total(Widths(s2)) = Total(Widths(s)) + (q.ask - q.bid)
      /\ ~HasBook(q) => Quotes(s2) = Quotes(s) /\ Widths(s2) = Widths(s)
      /\ Total(Widths(s)) \in Nat
  BY QuotesMore
<1>2. /\ c.spread = (IF HasBook(q) THEN b.spread + q.ask - q.bid ELSE b.spread)
      /\ c.books = (IF HasBook(q) THEN b.books + 1 ELSE b.books)
  BY DEF AfterTick
<1>3. q.ask \in Nat /\ q.bid \in Nat /\ b.spread = Total(Widths(s)) /\ b.books = Cardinality(Quotes(s))
  BY TickFacts DEF SpreadsTold
<1> HIDE DEF s2
<1>4. SpreadsTold(c, s2)
  <2>1. CASE HasBook(q)
    BY <1>1, <1>2, <1>3, <2>1 DEF SpreadsTold
  <2>2. CASE ~HasBook(q)
    BY <1>1, <1>2, <1>3, <2>2 DEF SpreadsTold
  <2>3. QED BY <2>1, <2>2
<1>5. QED BY <1>4 DEF s2

(* The regression: n times the sum of squares is above the square of the   *)
(* sum, and a line's sums are those of its slope.                          *)
Departs(n, sx, sxx, u, w) == n * (u * u) - 2 * (sx * (u * w)) + sxx * (w * w)
Apart(n, sx, sxx, x, u, w) ==
  /\ n >= 1 => Departs(n, sx, sxx, u, w) >= u * u
  /\ n >= 2 => Departs(n, sx, sxx, u, w) >= u * u + (u - x * w) * (u - x * w)
OnLine(s, a) == \A i \in DOMAIN s : Mid(s[i]) = Mid(s[1]) + a * (s[i].t - s[1].t)
LineTold(b, s) ==
  /\ b.sx \in Int /\ b.sxx \in Int /\ b.sy \in Int /\ b.sxy \in Int
  /\ s = <<>> => b.sx = 0 /\ b.sxx = 0 /\ b.sy = 0 /\ b.sxy = 0
  /\ \A u, w \in Int : Apart(b.n, b.sx, b.sxx, b.last_x, u, w)
  /\ \A a \in {0, 1} : s # <<>> /\ OnLine(s, a) =>
       b.sy = b.n * Mid(s[1]) + a * b.sx /\ b.sxy = Mid(s[1]) * b.sx + a * b.sxx

LEMMA AwayMore ==
  ASSUME NEW n \in Int, NEW sx \in Int, NEW sxx \in Int, NEW x \in Int, NEW u \in Int, NEW w \in Int
  PROVE  Departs(n + 1, sx + x, sxx + x * x, u, w) = Departs(n, sx, sxx, u, w) + (u - x * w) * (u - x * w)
<1>1. (n + 1) * (u * u) = n * (u * u) + u * u
  OBVIOUS
<1>2. (sx + x) * (u * w) = sx * (u * w) + x * (u * w)
  OBVIOUS
<1>3. (sxx + x * x) * (w * w) = sxx * (w * w) + (x * x) * (w * w)
  OBVIOUS
<1>4. (u - x * w) * (u - x * w) = u * u - 2 * (x * (u * w)) + (x * x) * (w * w)
  OBVIOUS
<1> DEFINE a == n * (u * u)
           b == sx * (u * w)
           c == sxx * (w * w)
           d == u * u
           e == x * (u * w)
           f == (x * x) * (w * w)
<1>5. a \in Int /\ b \in Int /\ c \in Int /\ d \in Int /\ e \in Int /\ f \in Int
  OBVIOUS
<1>6. /\ Departs(n + 1, sx + x, sxx + x * x, u, w) = (a + d) - 2 * (b + e) + (c + f)
      /\ Departs(n, sx, sxx, u, w) = a - 2 * b + c /\ (u - x * w) * (u - x * w) = d - 2 * e + f
  BY <1>1, <1>2, <1>3, <1>4 DEF Departs
<1> HIDE DEF a, b, c, d, e, f
<1>7. QED BY <1>5, <1>6

LEMMA ApartMore ==
  ASSUME NEW n \in Nat, NEW sx \in Int, NEW sxx \in Int, NEW x0, NEW x \in Int, NEW u \in Int,
         NEW w \in Int,
         Apart(n, sx, sxx, x0, u, w), n = 0 => x = 0 /\ sx = 0 /\ sxx = 0
  PROVE  Apart(n + 1, sx + x, sxx + x * x, x, u, w)
<1> DEFINE old == Departs(n, sx, sxx, u, w)
           new == Departs(n + 1, sx + x, sxx + x * x, u, w)
           sq == (u - x * w) * (u - x * w)
           uu == u * u
<1>1. new = old + sq
  BY AwayMore
<1>2. sq \in Nat /\ uu \in Nat
  <2>1. u - x * w \in Int
    OBVIOUS
  <2>2. QED BY <2>1, Product
<1>3. old \in Int
  BY DEF Departs
<1>4. CASE n = 0
  <2>1. old = 0
    BY <1>4 DEF Departs
  <2>2. u - x * w = u
    BY <1>4
  <2>3. sq = uu
    BY <2>2
  <2> HIDE DEF old, new, sq, uu
  <2>4. new >= uu /\ ~(n + 1 >= 2)
    BY <1>1, <1>2, <1>4, <2>1, <2>3
  <2>5. QED BY <2>4 DEF Apart, new, uu
<1>5. CASE n >= 1
  <2>1. old >= uu
    BY <1>5 DEF Apart
  <2> HIDE DEF old, new, sq, uu
  <2>2. new >= uu /\ new >= uu + sq
    BY <1>1, <1>2, <1>3, <2>1
  <2>3. QED BY <2>2 DEF Apart, new, uu, sq
<1>6. QED BY <1>4, <1>5

Straight(n, sx, sxx, x, m, a) ==
  /\ (n * m + a * sx) + (m + a * x) = (n + 1) * m + a * (sx + x)
  /\ (m * sx + a * sxx) + x * (m + a * x) = m * (sx + x) + a * (sxx + x * x)
LEMMA LineMore ==
  ASSUME NEW n \in Nat, NEW sx \in Int, NEW sxx \in Int, NEW x \in Int, NEW m \in Int, NEW a \in {0, 1}
  PROVE  Straight(n, sx, sxx, x, m, a)
<1>1. CASE a = 0
  BY <1>1 DEF Straight
<1>2. CASE a = 1
  <2>1. m + a * x = m + x /\ x * (m + x) = x * m + x * x /\ m * (sx + x) = m * sx + x * m
    BY <1>2
  <2>2. QED BY <1>2, <2>1 DEF Straight
<1>3. QED BY <1>1, <1>2

LEMMA LineStep ==
  ASSUME NEW s \in Seq(BarTick), NEW b, PricesTold(b, s), LineTold(b, s), NEW q \in BarTick, NEW c,
         AfterTick(b, q, c)
  PROVE  LineTold(c, Append(s, q))
<1> DEFINE k == Len(s) + 1
           s2 == Append(s, q)
           x == q.t - c.open_t
           m == Mid(q)
<1>1. /\ k \in Nat /\ k >= 1 /\ Len(s) \in Nat /\ Len(s2) = k /\ s2[k] = q
      /\ DOMAIN s = 1 .. Len(s) /\ DOMAIN s2 = 1 .. k /\ \A i \in 1 .. Len(s) : s2[i] = s[i]
  BY TickMore
<1>2. /\ c.sx = b.sx + x /\ c.sy = b.sy + m /\ c.sxy = b.sxy + x * m
      /\ c.sxx = b.sxx + x * x /\ c.last_x = x /\ c.n = b.n + 1
      /\ c.open_t = (IF b.n = 0 THEN q.t ELSE b.open_t)
  BY DEF AfterTick
<1>3. b.n = Len(s) /\ (Len(s) = 0 <=> s = <<>>) /\ (s # <<>> => b.open_t = s[1].t)
  BY EmptySeq DEF PricesTold
<1>4. m \in Int /\ q.t \in Int /\ \A i \in 1 .. Len(s) : Mid(s[i]) \in Int /\ s[i].t \in Int
  BY TickFacts, TickAt
<1>5. s # <<>> => 1 \in 1 .. Len(s)
  BY <1>1, <1>3
<1>6. c.open_t = s2[1].t /\ c.open_t \in Int
  <2>1. CASE s = <<>>
    BY <1>1, <1>2, <1>3, <1>4, <2>1
  <2>2. CASE s # <<>>
    BY <1>1, <1>2, <1>3, <1>4, <1>5, <2>2
  <2>3. QED BY <2>1, <2>2
<1>7. x \in Int /\ (b.n = 0 => x = 0)
  BY <1>2, <1>4, <1>6
<1>8. /\ b.sx \in Int /\ b.sxx \in Int /\ b.sy \in Int /\ b.sxy \in Int
      /\ (s = <<>> => b.sx = 0 /\ b.sxx = 0 /\ b.sy = 0 /\ b.sxy = 0)
      /\ \A u, w \in Int : Apart(b.n, b.sx, b.sxx, b.last_x, u, w)
  BY DEF LineTold
<1> HIDE DEF x, m, k, s2
<1>9. c.sx \in Int /\ c.sxx \in Int /\ c.sy \in Int /\ c.sxy \in Int
  <2> DEFINE xm == x * m
             xx == x * x
  <2>1. xm \in Int /\ xx \in Int
    BY <1>4, <1>7
  <2>2. c.sxy = b.sxy + xm /\ c.sxx = b.sxx + xx
    BY <1>2
  <2> HIDE DEF xm, xx
  <2>3. c.sxy \in Int /\ c.sxx \in Int
    BY <1>8, <2>1, <2>2
  <2>4. c.sx \in Int /\ c.sy \in Int
    BY <1>2, <1>4, <1>7, <1>8
  <2>5. QED BY <2>3, <2>4
<1>10. ASSUME NEW u \in Int, NEW w \in Int PROVE Apart(c.n, c.sx, c.sxx, c.last_x, u, w)
  <2>1. Apart(b.n + 1, b.sx + x, b.sxx + x * x, x, u, w)
    <3>1. b.n \in Nat /\ Apart(b.n, b.sx, b.sxx, b.last_x, u, w)
      BY <1>1, <1>3, <1>8
    <3>2. b.n = 0 => x = 0 /\ b.sx = 0 /\ b.sxx = 0
      BY <1>3, <1>7, <1>8
    <3>3. QED BY <1>7, <1>8, <3>1, <3>2, ApartMore
  <2>2. QED BY <1>2, <2>1
<1>11. ASSUME NEW a \in {0, 1}, OnLine(s2, a)
       PROVE  c.sy = c.n * Mid(s2[1]) + a * c.sx /\ c.sxy = Mid(s2[1]) * c.sx + a * c.sxx
  <2> DEFINE m1 == Mid(s2[1])
  <2>1. m = m1 + a * x /\ m1 \in Int
    <3>1. k \in DOMAIN s2 /\ Mid(s2[k]) = m
      BY <1>1 DEF m
    <3>2. m = m1 + a * (s2[k].t - s2[1].t)
      BY <1>11, <3>1 DEF OnLine
    <3>3. s2[k].t - s2[1].t = x
      BY <1>1, <1>6 DEF x
    <3>4. m1 \in Int
      <4>1. CASE s = <<>>
        <5>1. k = 1
          BY <1>3, <4>1 DEF k
        <5>2. s2[1] = q
          BY <1>1, <5>1
        <5>3. QED BY <1>4, <5>2 DEF m
      <4>2. CASE s # <<>>
        BY <1>1, <1>4, <1>5, <4>2
      <4>3. QED BY <4>1, <4>2
    <3>5. QED BY <3>2, <3>3, <3>4
  <2>2. b.sy = b.n * m1 + a * b.sx /\ b.sxy = m1 * b.sx + a * b.sxx
    <3>1. CASE s = <<>>
      BY <1>3, <1>8, <2>1, <3>1
    <3>2. CASE s # <<>>
      <4>1. s2[1] = s[1]
        BY <1>1, <1>5, <3>2
      <4>2. OnLine(s, a)
        <5>1. ASSUME NEW i \in DOMAIN s PROVE Mid(s[i]) = Mid(s[1]) + a * (s[i].t - s[1].t)
          <6>1. i \in DOMAIN s2 /\ s2[i] = s[i]
            BY <1>1, <5>1 DEF k
          <6>2. QED BY <1>11, <4>1, <6>1 DEF OnLine
        <5>2. QED BY <5>1 DEF OnLine
      <4>3. QED BY <3>2, <4>1, <4>2 DEF LineTold
    <3>3. QED BY <3>1, <3>2
  <2> HIDE DEF m1
  <2>3. /\ (b.n * m1 + a * b.sx) + (m1 + a * x) = (b.n + 1) * m1 + a * (b.sx + x)
        /\ (m1 * b.sx + a * b.sxx) + x * (m1 + a * x) = m1 * (b.sx + x) + a * (b.sxx + x * x)
    <3>1. b.n \in Nat /\ b.sx \in Int /\ b.sxx \in Int /\ x \in Int /\ m1 \in Int
      BY <1>1, <1>3, <1>7, <1>8, <2>1
    <3>2. Straight(b.n, b.sx, b.sxx, x, m1, a)
      BY <3>1, LineMore
    <3>3. QED BY <3>2 DEF Straight
  <2>4. /\ c.sy = (b.n * m1 + a * b.sx) + (m1 + a * x)
        /\ c.sxy = (m1 * b.sx + a * b.sxx) + x * (m1 + a * x)
    BY <1>2, <2>1, <2>2
  <2>5. c.sy = c.n * m1 + a * c.sx /\ c.sxy = m1 * c.sx + a * c.sxx
    BY <1>2, <2>3, <2>4
  <2>6. QED BY <2>5 DEF m1
<1>12. s2 # <<>>
  BY <1>1
<1>13. LineTold(c, s2)
  BY <1>9, <1>10, <1>11, <1>12 DEF LineTold
<1>14. QED BY <1>13 DEF s2

LEMMA Signs ==
  ASSUME NEW n \in Nat, n >= 1, NEW d \in Int
  PROVE  (n * d >= 0 => d >= 0) /\ (n * d > 0 => d > 0)
<1>1. d < 0 => n * d < 0
  BY SMT
<1>2. d = 0 => n * d = 0
  OBVIOUS
<1>3. n * d \in Int
  OBVIOUS
<1>4. QED BY <1>1, <1>2, <1>3

LEMMA Spreading ==
  ASSUME NEW n \in Nat, n >= 1, NEW sx \in Int, NEW sxx \in Int, NEW x \in Int,
         Apart(n, sx, sxx, x, sx, n)
  PROVE  /\ n * sxx - sx * sx \in Int /\ n * sxx - sx * sx >= 0
         /\ n >= 2 /\ x # 0 => n * sxx - sx * sx > 0
<1> DEFINE d == n * sxx - sx * sx
           away == Departs(n, sx, sxx, sx, n)
           p == sx * sx
           r == (sx - x * n) * (sx - x * n)
<1>1. away = n * d
  <2>1. n * (sx * sx) = sx * (sx * n) /\ sxx * (n * n) = n * (n * sxx)
    OBVIOUS
  <2>2. n * d = n * (n * sxx) - n * (sx * sx)
    OBVIOUS
  <2> DEFINE e == n * (sx * sx)
             f == n * (n * sxx)
  <2>3. away = e - 2 * e + f /\ n * d = f - e /\ e \in Int /\ f \in Int
    BY <2>1, <2>2 DEF Departs
  <2> HIDE DEF e, f, away, d
  <2>4. QED BY <2>3
<1>2. d \in Int /\ p \in Nat /\ r \in Nat /\ away \in Int
  <2>1. sx - x * n \in Int
    OBVIOUS
  <2>2. QED BY <1>1, <2>1, Product
<1>3. away >= p /\ (n >= 2 => away >= p + r)
  BY DEF Apart
<1>4. n >= 2 /\ x # 0 => p + r > 0
  <2> SUFFICES ASSUME n >= 2, x # 0 PROVE p + r > 0
    OBVIOUS
  <2>1. CASE sx = 0
    <3>1. x * n # 0 /\ x * n \in Int
      BY <1>2
    <3>2. sx - x * n # 0 /\ sx - x * n \in Int
      BY <2>1, <3>1
    <3>3. \A y \in Int : y # 0 => y * y > 0
      OBVIOUS
    <3>4. r > 0
      BY <3>2, <3>3
    <3> HIDE DEF p, r
    <3>5. QED BY <1>2, <3>4
  <2>2. CASE sx # 0
    <3>1. p > 0
      BY <2>2
    <3> HIDE DEF p, r
    <3>2. QED BY <1>2, <3>1
  <2>3. QED BY <2>1, <2>2
<1> HIDE DEF d, away, p, r
<1>5. n * d >= 0 /\ (n >= 2 /\ x # 0 => n * d > 0)
  BY <1>1, <1>2, <1>3, <1>4
<1>6. d >= 0 /\ (n >= 2 /\ x # 0 => d > 0)
  BY <1>2, <1>5, Signs
<1>7. QED BY <1>2, <1>6 DEF d

SlopeTold(b, s, a) ==
  OnLine(s, a) /\ s[Len(s)].t - s[1].t > 0 =>
    Drift(b)[1] * b.close = a * (s[Len(s)].t - s[1].t) * Drift(b)[2]
LEMMA DriftTold ==
  ASSUME NEW s \in Seq(BarTick), s # <<>>, NEW b, PricesTold(b, s), LineTold(b, s)
  PROVE  Drift(b)[2] > 0 /\ \A a \in {0, 1} : SlopeTold(b, s, a)
<1> DEFINE n == b.n
           sx == b.sx
           sxx == b.sxx
           sy == b.sy
           sxy == b.sxy
           x == b.last_x
           m == b.close
           m1 == Mid(s[1])
           d == n * sxx - sx * sx
           e == n * sxy - sx * sy
           k == Len(s)
<1>0. k \in Nat /\ k >= 1 /\ 1 \in 1 .. k /\ k \in 1 .. k /\ DOMAIN s = 1 .. k
  <2>1. k \in Nat /\ k # 0 /\ DOMAIN s = 1 .. k
    BY EmptySeq, LenProperties
  <2>2. QED BY <2>1
<1>1. /\ n = k /\ m = Mid(s[k]) /\ x = s[k].t - s[1].t
  BY DEF PricesTold
<1>2. m \in Nat /\ m1 \in Nat /\ x \in Int /\ n \in Nat /\ n >= 1 /\ (k = 1 => x = 0)
  <2>1. Mid(s[k]) \in Nat /\ m1 \in Nat /\ s[k].t \in Nat /\ s[1].t \in Nat
    BY <1>0, TickAt
  <2>2. QED BY <1>0, <1>1, <2>1
<1>3. /\ sx \in Int /\ sxx \in Int /\ sy \in Int /\ sxy \in Int
      /\ \A u, w \in Int : Apart(n, sx, sxx, x, u, w)
  BY DEF LineTold
<1>4. d \in Int /\ d >= 0 /\ (n >= 2 /\ x # 0 => d > 0)
  <2>1. Apart(n, sx, sxx, x, sx, n)
    BY <1>2, <1>3
  <2> HIDE DEF n, sx, sxx, x
  <2>2. QED BY <1>2, <1>3, <2>1, Spreading
<1>5. e \in Int
  BY <1>2, <1>3
<1>6. Drift(b) = IF n >= 2 /\ x > 0 /\ m # 0 /\ d # 0 THEN <<e * x, d * m>> ELSE <<0, 1>>
  BY DEF Drift
<1>7. \A a \in {0, 1} : OnLine(s, a) => sy = n * m1 + a * sx /\ sxy = m1 * sx + a * sxx /\ m = m1 + a * x
  <2> SUFFICES ASSUME NEW a \in {0, 1}, OnLine(s, a)
               PROVE  sy = n * m1 + a * sx /\ sxy = m1 * sx + a * sxx /\ m = m1 + a * x
    OBVIOUS
  <2>1. sy = n * m1 + a * sx /\ sxy = m1 * sx + a * sxx
    BY DEF LineTold
  <2>2. m = m1 + a * x
    BY <1>0, <1>1 DEF OnLine
  <2>3. QED BY <2>1, <2>2
<1> DEFINE dr == Drift(b)
<1> HIDE DEF n, sx, sxx, sy, sxy, x, m, m1, k
<1>8. dr[2] > 0
  <2>1. CASE n >= 2 /\ x > 0 /\ m # 0 /\ d # 0
    <3>1. dr[2] = d * m
      BY <1>6, <2>1
    <3>2. d >= 1 /\ m >= 1
      BY <1>2, <1>4, <2>1
    <3> HIDE DEF d
    <3>3. d * m > 0
      BY <1>2, <1>4, <3>2
    <3>4. QED BY <3>1, <3>3
  <2>2. CASE ~(n >= 2 /\ x > 0 /\ m # 0 /\ d # 0)
    BY <1>6, <2>2
  <2>3. QED BY <2>1, <2>2
<1>9. ASSUME NEW a \in {0, 1}, OnLine(s, a), x > 0
      PROVE  dr[1] * m = a * x * dr[2]
  <2>1. sy = n * m1 + a * sx /\ sxy = m1 * sx + a * sxx /\ m = m1 + a * x
    BY <1>7, <1>9
  <2>2. e = a * d
    <3>1. CASE a = 0
      <4>1. sy = n * m1 /\ sxy = m1 * sx
        BY <1>2, <1>3, <2>1, <3>1
      <4>2. n * (m1 * sx) = sx * (n * m1)
        BY <1>2, <1>3
      <4>3. e = 0
        BY <1>2, <1>3, <4>1, <4>2
      <4>4. QED BY <1>4, <3>1, <4>3
    <3>2. CASE a = 1
      <4>1. sy = n * m1 + sx /\ sxy = m1 * sx + sxx
        BY <1>2, <1>3, <2>1, <3>2
      <4>2. /\ n * (m1 * sx + sxx) = n * (m1 * sx) + n * sxx
            /\ sx * (n * m1 + sx) = sx * (n * m1) + sx * sx
            /\ n * (m1 * sx) = sx * (n * m1)
        BY <1>2, <1>3
      <4>3. e = (n * (m1 * sx) + n * sxx) - (n * (m1 * sx) + sx * sx)
        BY <4>1, <4>2
      <4>4. e = d
        <5> DEFINE f == n * (m1 * sx)
                   g == n * sxx
                   h == sx * sx
        <5>1. f \in Int /\ g \in Int /\ h \in Int /\ e = (f + g) - (f + h) /\ d = g - h
          BY <1>2, <1>3, <4>3
        <5> HIDE DEF f, g, h, e, d
        <5>2. QED BY <5>1
      <4>5. QED BY <1>4, <3>2, <4>4
    <3>3. QED BY <3>1, <3>2
  <2> HIDE DEF e, d
  <2>3. CASE a = 0
    <3>1. e = 0
      BY <1>4, <2>2, <2>3
    <3>2. dr[1] = 0
      BY <1>2, <1>6, <3>1
    <3>3. dr[2] \in Int
      BY <1>2, <1>4, <1>6
    <3>4. QED BY <1>2, <2>3, <3>2, <3>3
  <2>4. CASE a = 1
    <3>1. m = m1 + x /\ e = d
      BY <1>2, <1>4, <2>1, <2>2, <2>4
    <3>2. m > 0 /\ n >= 2 /\ d > 0
      BY <1>0, <1>1, <1>2, <1>4, <1>9, <3>1
    <3>3. dr[1] = d * x /\ dr[2] = d * m
      BY <1>6, <1>9, <3>1, <3>2
    <3>4. (d * x) * m = x * (d * m)
      BY <1>2, <1>4
    <3>5. QED BY <1>2, <2>4, <3>3, <3>4
  <2>5. QED BY <2>3, <2>4
<1>10. \A a \in {0, 1} : SlopeTold(b, s, a)
  BY <1>1, <1>9 DEF SlopeTold, m, k
<1>11. QED BY <1>8, <1>10

Tells(b, s) ==
  /\ DOMAIN b = Fields /\ PricesTold(b, s) /\ MovesTold(b, s)
  /\ VolumesTold(b, s) /\ SpreadsTold(b, s) /\ LineTold(b, s)
BarInv ==
  /\ ticks \in Seq(BarTick) /\ bar.close_t \in Nat /\ Tells(bar, ticks) /\ BarTellsTicks

LEMMA TellsNothing == Tells(NoBar, <<>>) /\ NoBar.close_t = 0
<1> DEFINE b == NoBar
           s == <<>>
<1>1. /\ b.n = 0 /\ b.low = 0 /\ b.high = 0 /\ b.prev = 0 /\ b.rv = 0 /\ b.max_abs = 0 /\ b.prev_abs = -1
      /\ b.bipower = 0 /\ b.ofi = 0 /\ b.ofi_vol = 0 /\ b.spread = 0 /\ b.books = 0 /\ b.last_x = 0
      /\ b.sx = 0 /\ b.sy = 0 /\ b.sxx = 0 /\ b.sxy = 0 /\ b.close_t = 0 /\ DOMAIN b = Fields
  BY DEF NoBar, Fields
<1>2. DOMAIN s = {} /\ Len(s) = 0
  OBVIOUS
<1> HIDE DEF b, s
<1>3. Moves(s) = {} /\ Quotes(s) = {} /\ Paired(s) = {} /\ Ups(s) = {} /\ Downs(s) = {}
  BY <1>2 DEF Moves, Quotes, Paired, Ups, Downs
<1>4. /\ DOMAIN Squares(s) = {} /\ DOMAIN Products(s) = {} /\ DOMAIN Widths(s) = {}
      /\ DOMAIN Volumes(s, {}) = {}
  BY <1>3 DEF Squares, Products, Widths, Volumes
<1>5. /\ Total(Squares(s)) = 0 /\ Total(Products(s)) = 0 /\ Total(Widths(s)) = 0
      /\ Total(Volumes(s, {})) = 0
  BY <1>4, TotalNone
<1>6. Cardinality({}) = 0
  BY FS_EmptySet
<1>7. PricesTold(b, s)
  BY <1>1, <1>2 DEF PricesTold, s
<1>8. MovesTold(b, s) /\ VolumesTold(b, s) /\ SpreadsTold(b, s)
  BY <1>1, <1>3, <1>5, <1>6 DEF MovesTold, VolumesTold, SpreadsTold
<1>9. LineTold(b, s)
  <2>1. \A u, w \in Int : Apart(0, 0, 0, 0, u, w)
    BY DEF Apart
  <2>2. s = <<>>
    BY DEF s
  <2>3. QED BY <1>1, <2>1, <2>2 DEF LineTold
<1>10. QED BY <1>1, <1>7, <1>8, <1>9 DEF Tells, b, s

LEMMA TellsMore ==
  ASSUME NEW s \in Seq(BarTick), NEW b, Tells(b, s), NEW q \in BarTick
  PROVE  Tells(Accumulate(b, q), Append(s, q)) /\ Accumulate(b, q).close_t = q.t
<1> DEFINE c == Accumulate(b, q)
<1>1. /\ DOMAIN b = Fields /\ PricesTold(b, s) /\ MovesTold(b, s) /\ VolumesTold(b, s)
      /\ SpreadsTold(b, s) /\ LineTold(b, s)
  BY DEF Tells
<1>2. AfterTick(b, q, c)
  BY <1>1, AccumulateFields
<1> HIDE DEF c
<1>3. DOMAIN c = Fields /\ c.close_t = q.t
  BY <1>2 DEF AfterTick
<1>4. PricesTold(c, Append(s, q))
  BY <1>1, <1>2, PricesStep
<1>5. MovesTold(c, Append(s, q))
  BY <1>1, <1>2, MovesStep
<1>6. VolumesTold(c, Append(s, q)) /\ SpreadsTold(c, Append(s, q)) /\ LineTold(c, Append(s, q))
  BY <1>1, <1>2, VolumesStep, SpreadsStep, LineStep
<1>7. QED BY <1>3, <1>4, <1>5, <1>6 DEF Tells, c

(* What a flush hands out.                                                 *)
LEMMA TellsAtFlush ==
  ASSUME NEW s \in Seq(BarTick), s # <<>>, NEW b, Tells(b, s), emitted' = [bar |-> BarOf(b), of |-> s]
  PROVE  BarTellsTicks'
<1> DEFINE o == BarOf(b)
<1>1. /\ o.open = b.open /\ o.high = b.high /\ o.low = b.low /\ o.close = b.close /\ o.n = b.n
      /\ o.rv = b.rv /\ o.bipower = b.bipower /\ o.max_abs = b.max_abs /\ o.drift = Drift(b)
      /\ o.spread = Ratio(b.spread, b.books, Nan) /\ o.imbalance = Ratio(b.ofi, b.ofi_vol, <<0, 1>>)
  BY DEF BarOf
<1> HIDE DEF o
<1>2. /\ PricesTold(b, s) /\ MovesTold(b, s) /\ VolumesTold(b, s) /\ SpreadsTold(b, s) /\ LineTold(b, s)
  BY DEF Tells
<1>3. /\ o.n = Len(s) /\ o.open = Mid(s[1]) /\ o.close = Mid(s[Len(s)])
      /\ \A i \in DOMAIN s : o.low <= Mid(s[i]) /\ Mid(s[i]) <= o.high
      /\ \E i, j \in DOMAIN s : o.low = Mid(s[i]) /\ o.high = Mid(s[j])
  BY <1>1, <1>2 DEF PricesTold
<1>4. /\ o.rv = Total(Squares(s)) /\ o.bipower = Total(Products(s))
      /\ \A i \in Moves(s) : Abs(Ret(s, i)) <= o.max_abs
  BY <1>1, <1>2 DEF MovesTold
<1>5. o.spread = IF Quotes(s) = {} THEN Nan ELSE <<Total(Widths(s)), Cardinality(Quotes(s))>>
  <2>1. IsFiniteSet(Quotes(s))
    BY MovesFacts
  <2>2. Cardinality(Quotes(s)) \in Nat /\ (Cardinality(Quotes(s)) = 0 <=> Quotes(s) = {})
    BY <2>1, FS_CardinalityType, FS_EmptySet
  <2>3. Cardinality(Quotes(s)) > 0 <=> Quotes(s) # {}
    BY <2>2
  <2>4. QED BY <1>1, <1>2, <2>3 DEF SpreadsTold, Ratio
<1>6. o.imbalance = Ratio(Total(Volumes(s, Ups(s))) - Total(Volumes(s, Downs(s))),
                          Total(Volumes(s, Moves(s))), <<0, 1>>)
  BY <1>1, <1>2 DEF VolumesTold
<1>7. o.drift[2] > 0 /\ \A a \in {0, 1} : SlopeTold(b, s, a)
  BY <1>1, <1>2, DriftTold
<1>8. \A a \in {0, 1} :
        (\A i \in DOMAIN s : Mid(s[i]) = Mid(s[1]) + a * (s[i].t - s[1].t)) /\ s[Len(s)].t - s[1].t > 0 =>
           o.drift[1] * o.close = a * (s[Len(s)].t - s[1].t) * o.drift[2]
  BY <1>1, <1>7 DEF SlopeTold, OnLine
<1>9. emitted'.bar = o /\ emitted'.of = s
  BY DEF o
<1>10. /\ Moves(s) = {i \in DOMAIN s \ {1} : Mid(s[i]) > 0 /\ Mid(s[i - 1]) > 0}
       /\ Quotes(s) = {i \in DOMAIN s : HasBook(s[i])}
  BY DEF Moves, Quotes
<1>11. QED BY <1>3, <1>4, <1>5, <1>6, <1>7, <1>8, <1>9 DEF BarTellsTicks, Moves, Quotes, Ups,
              Downs, Squares,
            Products, Widths, Volumes, Ret, Paired, MovesBefore

LEMMA BarInitInv == BarInit => BarInv
<1>1. <<>> \in Seq(BarTick)
  OBVIOUS
<1>2. QED BY <1>1, TellsNothing DEF BarInit, BarInv, BarTellsTicks

LEMMA BarNextInv == BarInv /\ [BarNext]_barVars => BarInv'
<1> SUFFICES ASSUME BarInv, [BarNext]_barVars PROVE BarInv'
  OBVIOUS
<1>1. ASSUME NEW bk \in Books, NEW dt \in {0, 1}, NEW v \in {1, 2}, NEW rej \in {0, 1},
             Ingest([t |-> bar.close_t + dt, bid |-> bk[1], ask |-> bk[2], v |-> v,
                     ci |-> v, accepted |-> v, rejected |-> rej])
      PROVE  BarInv'
  <2> DEFINE q == [t |-> bar.close_t + dt, bid |-> bk[1], ask |-> bk[2], v |-> v,
                   ci |-> v, accepted |-> v, rejected |-> rej]
  <2>1. bk[1] \in Nat /\ bk[2] \in Nat /\ bar.close_t + dt \in Nat /\ v \in Nat /\ rej \in Nat
    BY BarAssumption DEF BarInv
  <2>2. q \in BarTick /\ q.t \in Nat
    BY <2>1 DEF BarTick
  <2>3. bar' = Accumulate(bar, q) /\ ticks' = Append(ticks, q) /\ emitted' = <<>>
    BY <1>1 DEF Ingest
  <2> HIDE DEF q
  <2>4. ticks \in Seq(BarTick) /\ Tells(bar, ticks)
    BY DEF BarInv
  <2>5. Tells(bar', ticks') /\ bar'.close_t = q.t
    BY <2>2, <2>3, <2>4, TellsMore
  <2>6. ticks' \in Seq(BarTick)
    BY <2>2, <2>3, <2>4
  <2>7. BarTellsTicks'
    BY <2>3 DEF BarTellsTicks
  <2>8. QED BY <2>2, <2>5, <2>6, <2>7 DEF BarInv
<1>2. CASE FlushBar
  <2>1. /\ bar.n > 0 /\ emitted' = [bar |-> BarOf(bar), of |-> ticks] /\ bar' = NoBar /\ ticks' = <<>>
    BY <1>2 DEF FlushBar, Reset
  <2>2. ticks \in Seq(BarTick) /\ Tells(bar, ticks)
    BY DEF BarInv
  <2>3. ticks # <<>>
    <3>1. bar.n = Len(ticks)
      BY <2>2 DEF Tells, PricesTold
    <3>2. QED BY <2>1, <3>1
  <2>4. BarTellsTicks'
    BY <2>1, <2>2, <2>3, TellsAtFlush
  <2>5. Tells(bar', ticks') /\ bar'.close_t = 0 /\ ticks' \in Seq(BarTick)
    BY <2>1, TellsNothing
  <2>6. QED BY <2>4, <2>5 DEF BarInv
<1>3. CASE UNCHANGED barVars
  BY <1>3 DEF barVars, BarInv, BarTellsTicks
<1>4. QED BY <1>1, <1>2, <1>3 DEF BarNext

LEMMA BarTyped == BarInv => BarTypeOK
BY DEF BarInv, Tells, PricesTold, BarTypeOK

-----------------------------------------------------------------------------
(* A stream beside the writer of its shard.                                *)

(* Multiples of the stride.                                                *)
LEMMA Multiples ==
  ASSUME NEW a \in Nat
  PROVE  a * Stride \in Nat /\ (a + 1) * Stride = a * Stride + Stride /\ a <= a * Stride
<1>1. Stride \in Nat \ {0}
  BY StreamAssumption
<1>2. a * (Stride - 1) >= 0
  BY <1>1
<1>3. QED BY <1>1, <1>2

LEMMA MultiplesOrder ==
  ASSUME NEW a \in Nat, NEW c \in Nat
  PROVE  /\ a <= c <=> a * Stride <= c * Stride
         /\ a < c <=> a * Stride < c * Stride
         /\ (a + c) * Stride = a * Stride + c * Stride
         /\ a <= c => (c - a) * Stride = c * Stride - a * Stride
<1>1. Stride \in Nat \ {0}
  BY StreamAssumption
<1>2. (a + c) * Stride = a * Stride + c * Stride /\ (a <= c => (c - a) * Stride = c * Stride - a * Stride)
  BY <1>1
<1>3. ASSUME NEW d \in Int, d >= 1 PROVE d * Stride >= Stride
  BY <1>1, <1>3
<1>4. a <= c => a * Stride <= c * Stride
  <2> SUFFICES ASSUME a <= c PROVE a * Stride <= c * Stride
    OBVIOUS
  <2>1. (c - a) * Stride >= 0
    BY <1>1
  <2>2. QED BY <1>1, <1>2, <2>1
<1>5. a < c => a * Stride + Stride <= c * Stride
  BY <1>1, <1>2, <1>3
<1>6. c < a => c * Stride + Stride <= a * Stride
  <2>1. c < a => (a - c) * Stride = a * Stride - c * Stride
    BY <1>1
  <2>2. QED BY <1>1, <2>1, <1>3
<1>7. a * Stride \in Nat /\ c * Stride \in Nat
  BY <1>1
<1>8. QED BY <1>1, <1>2, <1>4, <1>5, <1>6, <1>7

(* The records that fit into n bytes.                                      *)
LEMMA WholeFacts ==
  ASSUME NEW n \in Nat
  PROVE  /\ Records(n) \in Nat /\ Whole(n) = Records(n) * Stride /\ Whole(n) \in Nat
         /\ Whole(n) <= n /\ n < Whole(n) + Stride
<1>1. Stride \in Nat \ {0}
  BY StreamAssumption
<1>2. /\ n \div Stride \in Int /\ n % Stride \in 0 .. Stride - 1
      /\ n = Stride * (n \div Stride) + (n % Stride)
  BY <1>1, DivSplit
<1>3. n \div Stride >= 0
  BY <1>1
<1>4. Stride * (n \div Stride) = (n \div Stride) * Stride
  BY <1>1, <1>2
<1>5. QED BY <1>1, <1>2, <1>3, <1>4 DEF Records, Whole

(* What fits behind a multiple of the stride fits behind none.             *)
LEMMA RecordsAfter ==
  ASSUME NEW a \in Nat, NEW n \in Nat
  PROVE  Records(a * Stride + n) = a + Records(n) /\ Whole(a * Stride + n) = a * Stride + Whole(n)
<1>1. Stride \in Nat \ {0} /\ a * Stride \in Nat
  BY StreamAssumption, Multiples
<1> DEFINE m == a * Stride + n
           q == Records(m)
           r == Records(n)
<1>2. m \in Nat
  BY <1>1
<1>3. q \in Nat /\ q * Stride <= m /\ m < q * Stride + Stride
  <2> HIDE DEF m
  <2>1. QED BY <1>2, WholeFacts
<1>4. r \in Nat /\ r * Stride <= n /\ n < r * Stride + Stride
  BY WholeFacts
<1>5. (a + r) * Stride = a * Stride + r * Stride /\ r * Stride \in Nat /\ q * Stride \in Nat
  BY <1>3, <1>4, MultiplesOrder, Multiples
<1>6. (a + r + 1) * Stride = (a + r) * Stride + Stride /\ (q + 1) * Stride = q * Stride + Stride
  BY <1>3, <1>4, Multiples
<1> HIDE DEF q, r
<1>7. q * Stride < (a + r + 1) * Stride /\ (a + r) * Stride < (q + 1) * Stride
  BY <1>1, <1>3, <1>4, <1>5, <1>6 DEF m
<1>8. q < a + r + 1 /\ a + r < q + 1
  <2>1. a + r + 1 \in Nat /\ a + r \in Nat /\ q + 1 \in Nat
    BY <1>3, <1>4
  <2>2. QED BY <1>3, <2>1, <1>7, MultiplesOrder
<1>9. q = a + r
  BY <1>3, <1>4, <1>8
<1>10. QED BY <1>5, <1>9 DEF q, r, m, Whole

-----------------------------------------------------------------------------
(* The inductive invariant.  Done bytes are handed out.  Until the stream  *)
(* has seen the end it has read the file up to offset, and its buffer is   *)
(* what it read last; from then on its buffer holds whole records.         *)
Byte == [rec : Nat, at : Nat]
Done == Len(out) * Stride
BufferAt == Done - pos
StreamTyped ==
  /\ bytes \in Seq(Byte) /\ begun \in Nat
  /\ buf \in Seq(Byte) /\ offset \in Nat /\ pos \in Nat /\ at_eof \in Nat
  /\ eof \in BOOLEAN /\ overtaken \in BOOLEAN /\ mode \in {"idle", "fill", "failed"}
  /\ out \in Seq([1 .. Stride -> Byte])
Buffered ==
  /\ \E k \in Nat : pos = k * Stride /\ k <= Len(out)
  /\ pos <= Len(buf)
  /\ mode # "idle" => pos = 0 /\ ~eof
  /\ mode = "idle" => \E k \in Nat : Len(buf) = k * Stride
InStep ==
  /\ ~eof => offset <= Len(bytes) /\ offset = BufferAt + Len(buf)
  /\ eof => BufferAt + Len(buf) = at_eof * Stride /\ at_eof * Stride <= Len(bytes)
  /\ \A j \in 1 .. Len(buf) : buf[j] = bytes[BufferAt + j]
  /\ \A i \in DOMAIN out : out[i] = SubSeq(bytes, (i - 1) * Stride + 1, i * Stride)
ReaderInv == StreamTyped /\ Buffered /\ (~overtaken => InStep)

LEMMA ReaderTells == ReaderInv => StreamTells
<1> SUFFICES ASSUME ReaderInv, ~overtaken, eof, pos = Len(buf) PROVE Len(out) = at_eof
  BY DEF ReaderInv, InStep, StreamTells
<1>1. Len(out) \in Nat /\ at_eof \in Nat
  BY DEF ReaderInv, StreamTyped
<1>2. Len(out) * Stride \in Nat /\ pos \in Nat
  BY <1>1, Multiples DEF ReaderInv, StreamTyped
<1>3. Len(out) * Stride = at_eof * Stride
  BY <1>1, <1>2 DEF ReaderInv, InStep, BufferAt, Done
<1>4. QED BY <1>1, <1>2, <1>3, MultiplesOrder

LEMMA ReaderFacts ==
  ASSUME ReaderInv
  PROVE  /\ Stride \in Nat \ {0} /\ Done \in Nat /\ pos <= Done /\ BufferAt \in Nat /\ Len(buf) \in Nat
         /\ Len(bytes) \in Nat /\ Len(out) \in Nat /\ DOMAIN out = 1 .. Len(out)
         /\ \E k \in Nat : BufferAt = k * Stride
         /\ ~overtaken => BufferAt + Len(buf) <= Len(bytes)
<1>1. /\ Stride \in Nat \ {0} /\ Len(out) \in Nat /\ Len(buf) \in Nat /\ Len(bytes) \in Nat
      /\ pos \in Nat /\ at_eof \in Nat /\ offset \in Nat /\ DOMAIN out = 1 .. Len(out)
  BY StreamAssumption DEF ReaderInv, StreamTyped
<1>2. PICK k \in Nat : pos = k * Stride /\ k <= Len(out)
  BY DEF ReaderInv, Buffered
<1>3. k * Stride <= Len(out) * Stride /\ (Len(out) - k) * Stride = Len(out) * Stride - k * Stride
  BY <1>1, <1>2, MultiplesOrder
<1>4. Done \in Nat /\ pos <= Done /\ BufferAt = (Len(out) - k) * Stride /\ Len(out) - k \in Nat
  BY <1>1, <1>2, <1>3, Multiples DEF Done, BufferAt
<1>5. BufferAt \in Nat
  BY <1>4, Multiples
<1>6. ~overtaken => BufferAt + Len(buf) <= Len(bytes)
  BY <1>1, <1>5 DEF ReaderInv, InStep, StreamTyped
<1>7. QED BY <1>1, <1>4, <1>5, <1>6

LEMMA PartOf ==
  ASSUME NEW X, NEW s \in Seq(X), NEW a \in Nat, NEW c \in Nat, a <= c, c <= Len(s)
  PROVE  /\ SubSeq(s, a + 1, c) \in Seq(X) /\ Len(SubSeq(s, a + 1, c)) = c - a
         /\ SubSeq(s, a + 1, c) = [j \in 1 .. c - a |-> s[a + j]]
<1>1. \A j \in a + 1 .. c : s[j] \in X
  BY ElementOfSeq
<1> DEFINE t == SubSeq(s, a + 1, c)
<1>2. /\ t \in Seq(X) /\ Len(t) = IF a + 1 <= c THEN c - (a + 1) + 1 ELSE 0
      /\ \A j \in 1 .. c - (a + 1) + 1 : t[j] = s[(a + 1) + j - 1]
  <2>1. a + 1 \in Int /\ c \in Int
    OBVIOUS
  <2>2. QED BY <1>1, <2>1, SubSeqProperties
<1> HIDE DEF t
<1>3. Len(t) = c - a /\ c - a \in Nat
  BY <1>2
<1>4. \A j \in 1 .. c - a : t[j] = s[a + j]
  <2> TAKE j \in 1 .. c - a
  <2>1. j \in 1 .. c - (a + 1) + 1 /\ (a + 1) + j - 1 = a + j
    OBVIOUS
  <2>2. t[j] = s[(a + 1) + j - 1]
    BY <1>2, <2>1
  <2>3. QED BY <2>1, <2>2
<1>5. t = [j \in 1 .. c - a |-> t[j]]
  BY <1>2, <1>3, LenProperties
<1>6. t = [j \in 1 .. c - a |-> s[a + j]]
  BY <1>4, <1>5
<1>7. QED BY <1>2, <1>3, <1>6 DEF t

LEMMA Joined ==
  ASSUME NEW X, NEW s \in Seq(X), NEW t \in Seq(X)
  PROVE  /\ s \o t \in Seq(X) /\ Len(s \o t) = Len(s) + Len(t)
         /\ \A j \in 1 .. Len(s) : (s \o t)[j] = s[j]
         /\ \A j \in Len(s) + 1 .. Len(s) + Len(t) : (s \o t)[j] = t[j - Len(s)]
<1>1. Len(s) \in Nat /\ Len(t) \in Nat
  BY LenProperties
<1>2. /\ s \o t \in Seq(X) /\ Len(s \o t) = Len(s) + Len(t)
      /\ \A i \in 1 .. Len(s) + Len(t) : (s \o t)[i] = IF i <= Len(s) THEN s[i] ELSE t[i - Len(s)]
  BY ConcatProperties
<1> DEFINE both == s \o t
<1> HIDE DEF both
<1>3. QED BY <1>1, <1>2 DEF both

(* A record that is handed out lies before what is handed out next.        *)
LEMMA HandedOut ==
  ASSUME NEW n \in Nat, NEW i \in 1 .. n
  PROVE  /\ (i - 1) * Stride \in Nat /\ i * Stride = (i - 1) * Stride + Stride /\ i * Stride <= n * Stride
         /\ i * Stride \in Nat
<1>1. i - 1 \in Nat /\ i \in Nat /\ (i - 1) + 1 = i
  OBVIOUS
<1>2. ((i - 1) + 1) * Stride = (i - 1) * Stride + Stride /\ (i - 1) * Stride \in Nat
  BY <1>1, Multiples
<1>3. i * Stride <= n * Stride
  BY <1>1, MultiplesOrder
<1>4. QED BY <1>1, <1>2, <1>3, Multiples

(* A file that changes only behind what the stream has taken.              *)
LEMMA Unmoved ==
  ASSUME ReaderInv, ~overtaken, bytes' \in Seq(Byte), UNCHANGED <<buf, pos, out>>,
         NEW m \in Nat, BufferAt + Len(buf) <= m, m <= Len(bytes), m <= Len(bytes'),
         \A i \in 1 .. m : bytes'[i] = bytes[i]
  PROVE  /\ \A j \in 1 .. Len(buf') : buf'[j] = bytes'[BufferAt' + j]
         /\ \A i \in DOMAIN out' : out'[i] = SubSeq(bytes', (i - 1) * Stride + 1, i * Stride)
<1>1. BufferAt' = BufferAt /\ Done' = Done
  BY DEF BufferAt, Done
<1>2. ASSUME NEW j \in 1 .. Len(buf) PROVE buf[j] = bytes'[BufferAt + j]
  <2>1. BufferAt + j \in 1 .. m
    BY ReaderFacts
  <2>2. QED BY <2>1 DEF ReaderInv, InStep
<1>3. ASSUME NEW i \in 1 .. Len(out)
      PROVE  out[i] = SubSeq(bytes', (i - 1) * Stride + 1, i * Stride)
  <2> DEFINE a == (i - 1) * Stride
             c == i * Stride
  <2>1. a \in Nat /\ c = a + Stride /\ c <= Done /\ c \in Nat
    BY ReaderFacts, HandedOut DEF Done
  <2>2. a <= c /\ c <= m
    <3>1. /\ Stride \in Nat /\ Done \in Nat /\ BufferAt \in Nat /\ Len(buf) \in Nat /\ pos <= Len(buf)
          /\ pos \in Nat
      BY ReaderFacts DEF ReaderInv, Buffered, StreamTyped
    <3>2. BufferAt = Done - pos
      BY DEF BufferAt
    <3>3. Done <= m
      BY <3>1, <3>2
    <3> HIDE DEF a, c
    <3>4. QED BY <2>1, <3>1, <3>3
  <2>3. bytes \in Seq(Byte) /\ out[i] = SubSeq(bytes, a + 1, c)
    BY ReaderFacts DEF ReaderInv, StreamTyped, InStep
  <2> HIDE DEF a, c
  <2>4. c <= Len(bytes) /\ c <= Len(bytes')
    BY <2>1, <2>2, ReaderFacts, LenProperties
  <2>5. /\ SubSeq(bytes, a + 1, c) = [j \in 1 .. c - a |-> bytes[a + j]]
        /\ SubSeq(bytes', a + 1, c) = [j \in 1 .. c - a |-> bytes'[a + j]]
    BY <2>1, <2>2, <2>3, <2>4, PartOf
  <2>6. \A j \in 1 .. c - a : bytes'[a + j] = bytes[a + j]
    BY <2>1, <2>2
  <2>7. QED BY <2>3, <2>5, <2>6 DEF a, c
<1>4. QED BY <1>1, <1>2, <1>3, ReaderFacts

LEMMA WriteByteInv == ASSUME ReaderInv, WriteByte PROVE ReaderInv'
<1> DEFINE rec == IF Len(bytes) % Stride = 0 THEN begun + 1 ELSE begun
           new == [rec |-> rec, at |-> Len(bytes) % Stride]
<1>1. bytes' = Append(bytes, new) /\ begun' = rec /\ UNCHANGED <<heals, overtaken, reader>>
  BY DEF WriteByte
<1>2. new \in Byte /\ rec \in Nat
  <2>1. Len(bytes) % Stride \in Nat
    <3>1. Len(bytes) \in Int /\ Stride \in Nat \ {0}
      BY ReaderFacts
    <3>2. Len(bytes) % Stride \in 0 .. Stride - 1
      BY <3>1, DivSplit
    <3>3. QED BY <3>1, <3>2
  <2>2. QED BY <2>1 DEF Byte, ReaderInv, StreamTyped
<1> HIDE DEF new, rec
<1>3. /\ bytes' \in Seq(Byte) /\ Len(bytes') = Len(bytes) + 1
      /\ \A i \in 1 .. Len(bytes) : bytes'[i] = bytes[i]
  BY <1>1, <1>2, AppendProperties DEF ReaderInv, StreamTyped
<1>4. StreamTyped' /\ Buffered'
  BY <1>1, <1>2, <1>3 DEF ReaderInv, StreamTyped, Buffered, reader
<1>5. ASSUME ~overtaken' PROVE InStep'
  <2>1. ~overtaken /\ UNCHANGED <<buf, pos, out, eof, offset, at_eof>>
    BY <1>1, <1>5 DEF reader
  <2>2. /\ \A j \in 1 .. Len(buf') : buf'[j] = bytes'[BufferAt' + j]
        /\ \A i \in DOMAIN out' : out'[i] = SubSeq(bytes', (i - 1) * Stride + 1, i * Stride)
    <3>1. Len(bytes) \in Nat /\ BufferAt + Len(buf) <= Len(bytes) /\ Len(bytes) <= Len(bytes')
      BY <1>3, <2>1, ReaderFacts
    <3>2. QED BY <1>3, <2>1, <3>1, Unmoved
  <2>3. BufferAt' = BufferAt
    BY <2>1 DEF BufferAt, Done
  <2>4. /\ ~eof => offset <= Len(bytes') /\ offset = BufferAt + Len(buf)
        /\ eof => BufferAt + Len(buf) = at_eof * Stride /\ at_eof * Stride <= Len(bytes')
    <3>1. at_eof * Stride \in Nat /\ offset \in Nat
      BY Multiples DEF ReaderInv, StreamTyped
    <3>2. QED BY <1>3, <2>1, <3>1, ReaderFacts DEF ReaderInv, InStep
  <2>5. QED BY <2>1, <2>2, <2>3, <2>4 DEF InStep
<1>6. QED BY <1>4, <1>5 DEF ReaderInv

LEMMA HealInv == ASSUME ReaderInv, Heal PROVE ReaderInv'
<1> DEFINE n == Len(bytes)
           m == Whole(n)
<1>1. /\ bytes' = SubSeq(bytes, 1, m) /\ overtaken' = (overtaken \/ (~eof /\ offset > m))
      /\ UNCHANGED <<begun, reader>>
  BY DEF Heal
<1>2. n \in Nat /\ bytes \in Seq(Byte) /\ m \in Nat /\ m <= n
  BY ReaderFacts, WholeFacts DEF ReaderInv, StreamTyped
<1> HIDE DEF m
<1>3. bytes' \in Seq(Byte) /\ Len(bytes') = m /\ \A i \in 1 .. m : bytes'[i] = bytes[i]
  <2>1. /\ SubSeq(bytes, 0 + 1, m) \in Seq(Byte) /\ Len(SubSeq(bytes, 0 + 1, m)) = m - 0
        /\ SubSeq(bytes, 0 + 1, m) = [j \in 1 .. m - 0 |-> bytes[0 + j]]
    BY <1>2, PartOf
  <2>2. QED BY <1>1, <1>2, <2>1
<1>4. StreamTyped' /\ Buffered'
  <2>1. overtaken' \in BOOLEAN
    BY <1>1
  <2>2. QED BY <1>1, <1>3, <2>1 DEF ReaderInv, StreamTyped, Buffered, reader
<1>5. ASSUME ~overtaken' PROVE InStep'
  <2>1. ~overtaken /\ UNCHANGED <<buf, pos, out, eof, offset, at_eof>> /\ (~eof => ~(offset > m))
    BY <1>1, <1>5 DEF reader
  <2>2. at_eof * Stride \in Nat /\ offset \in Nat /\ at_eof \in Nat
    BY Multiples DEF ReaderInv, StreamTyped
  <2>3. eof => at_eof * Stride <= m
    <3> SUFFICES ASSUME eof PROVE at_eof * Stride <= m
      OBVIOUS
    <3>1. at_eof * Stride <= n /\ n < m + Stride /\ m = Records(n) * Stride /\ Records(n) \in Nat
      BY <1>2, <2>1, WholeFacts DEF ReaderInv, InStep, m
    <3>2. (Records(n) + 1) * Stride = Records(n) * Stride + Stride
      BY <3>1, Multiples
    <3>3. at_eof * Stride < (Records(n) + 1) * Stride
      BY <1>2, <2>2, <3>1, <3>2, ReaderFacts
    <3>4. Records(n) + 1 \in Nat
      BY <3>1
    <3>5. at_eof < Records(n) + 1
      BY <2>2, <3>3, <3>4, MultiplesOrder
    <3>6. at_eof <= Records(n)
      BY <2>2, <3>1, <3>5
    <3>7. QED BY <2>2, <3>1, <3>6, MultiplesOrder
  <2>4. BufferAt + Len(buf) <= m
    BY <1>2, <2>1, <2>2, <2>3, ReaderFacts DEF ReaderInv, InStep, StreamTyped
  <2>5. /\ \A j \in 1 .. Len(buf') : buf'[j] = bytes'[BufferAt' + j]
        /\ \A i \in DOMAIN out' : out'[i] = SubSeq(bytes', (i - 1) * Stride + 1, i * Stride)
    BY <1>2, <1>3, <2>1, <2>4, Unmoved
  <2>6. BufferAt' = BufferAt
    BY <2>1 DEF BufferAt, Done
  <2>7. /\ ~eof => offset <= m /\ offset = BufferAt + Len(buf)
        /\ eof => BufferAt + Len(buf) = at_eof * Stride /\ at_eof * Stride <= m
    BY <1>2, <2>1, <2>2, <2>3 DEF ReaderInv, InStep
  <2>8. QED BY <1>3, <2>1, <2>5, <2>6, <2>7 DEF InStep
<1>6. QED BY <1>4, <1>5 DEF ReaderInv

LEMMA RefillInv == ASSUME ReaderInv, Refill PROVE ReaderInv'
<1>1. /\ mode = "idle" /\ pos >= Len(buf) /\ ~eof /\ mode' = "fill" /\ buf' = <<>> /\ pos' = 0
      /\ UNCHANGED <<bytes, begun, offset, eof, out, at_eof, overtaken>>
  BY DEF Refill
<1>2. Len(buf') = 0 /\ buf' \in Seq(Byte)
  BY <1>1
<1>3. Len(out) \in Nat /\ Stride \in Nat /\ 0 * Stride = 0
  BY ReaderFacts
<1>4. StreamTyped'
  BY <1>1, <1>2 DEF ReaderInv, StreamTyped
<1>5. Buffered'
  BY <1>1, <1>2, <1>3 DEF Buffered
<1>6. ASSUME ~overtaken' PROVE InStep'
  <2>1. BufferAt' = Done /\ BufferAt = Done - pos
    BY <1>1, ReaderFacts DEF BufferAt, Done
  <2>2. pos = Len(buf) /\ pos \in Nat /\ Done \in Nat
    BY <1>1, ReaderFacts DEF ReaderInv, Buffered, StreamTyped
  <2>3. offset <= Len(bytes) /\ offset = BufferAt + Len(buf)
    BY <1>1, <1>6 DEF ReaderInv, InStep
  <2>4. offset' <= Len(bytes') /\ offset' = BufferAt' + Len(buf')
    BY <1>1, <1>2, <2>1, <2>2, <2>3
  <2>5. \A i \in DOMAIN out' : out'[i] = SubSeq(bytes', (i - 1) * Stride + 1, i * Stride)
    BY <1>1, <1>6 DEF ReaderInv, InStep
  <2>6. QED BY <1>1, <1>2, <2>4, <2>5 DEF InStep
<1>7. QED BY <1>4, <1>5, <1>6 DEF ReaderInv

LEMMA BytesReadInv == ASSUME ReaderInv, NEW n \in Nat, n > 0, Read(n) PROVE ReaderInv'
<1> DEFINE got == SubSeq(bytes, offset + 1, offset + n)
<1>1. /\ mode = "fill" /\ n <= Unread /\ buf' = buf \o got /\ offset' = offset + n
      /\ mode' = (IF Len(buf') = Chunk * Stride THEN "idle" ELSE "fill")
      /\ UNCHANGED <<bytes, begun, pos, eof, out, at_eof, overtaken>>
  BY DEF Read
<1>2. offset \in Nat /\ Len(bytes) \in Nat /\ Len(buf) \in Nat /\ bytes \in Seq(Byte) /\ buf \in Seq(Byte)
  BY ReaderFacts DEF ReaderInv, StreamTyped
<1>3. offset + n <= Len(bytes) /\ offset + n \in Nat
  BY <1>1, <1>2 DEF Unread
<1>4. got \in Seq(Byte) /\ Len(got) = n /\ \A j \in 1 .. n : got[j] = bytes[offset + j]
  <2>1. /\ got \in Seq(Byte) /\ Len(got) = (offset + n) - offset
        /\ got = [j \in 1 .. (offset + n) - offset |-> bytes[offset + j]]
    <3>1. offset <= offset + n
      BY <1>2
    <3>2. QED BY <1>2, <1>3, <3>1, PartOf
  <2>2. (offset + n) - offset = n
    BY <1>2
  <2> HIDE DEF got
  <2>3. QED BY <2>1, <2>2
<1> HIDE DEF got
<1>5. /\ buf' \in Seq(Byte) /\ Len(buf') = Len(buf) + n
      /\ \A j \in 1 .. Len(buf) : buf'[j] = buf[j]
      /\ \A j \in Len(buf) + 1 .. Len(buf) + n : buf'[j] = got[j - Len(buf)]
  BY <1>1, <1>2, <1>4, Joined
<1>6. StreamTyped'
  BY <1>1, <1>2, <1>3, <1>5 DEF ReaderInv, StreamTyped
<1>7. Buffered'
  <2>1. pos = 0 /\ ~eof /\ (\E k \in Nat : pos = k * Stride /\ k <= Len(out))
    BY <1>1 DEF ReaderInv, Buffered
  <2>2. mode' = "idle" => \E k \in Nat : Len(buf') = k * Stride
    BY <1>1, StreamAssumption
  <2>3. pos' <= Len(buf')
    BY <1>1, <1>2, <1>5, <2>1
  <2>4. QED BY <1>1, <2>1, <2>2, <2>3 DEF Buffered
<1>8. ASSUME ~overtaken' PROVE InStep'
  <2>1. ~eof /\ BufferAt' = BufferAt /\ BufferAt \in Nat
    BY <1>1, ReaderFacts DEF ReaderInv, Buffered, BufferAt, Done
  <2>2. /\ offset = BufferAt + Len(buf) /\ \A j \in 1 .. Len(buf) : buf[j] = bytes[BufferAt + j]
        /\ \A i \in DOMAIN out : out[i] = SubSeq(bytes, (i - 1) * Stride + 1, i * Stride)
    BY <1>1, <1>8, <2>1 DEF ReaderInv, InStep
  <2>3. ASSUME NEW j \in 1 .. Len(buf') PROVE buf'[j] = bytes[BufferAt + j]
    <3>1. CASE j <= Len(buf)
      BY <1>2, <1>5, <2>2, <2>3, <3>1
    <3>2. CASE j > Len(buf)
      <4>1. j \in Len(buf) + 1 .. Len(buf) + n /\ j - Len(buf) \in 1 .. n
        BY <1>2, <1>5, <2>3, <3>2
      <4>2. buf'[j] = bytes[offset + (j - Len(buf))]
        BY <1>4, <1>5, <4>1
      <4>3. offset + (j - Len(buf)) = BufferAt + j
        BY <1>2, <2>1, <2>2, <4>1
      <4>4. QED BY <4>2, <4>3
    <3>3. QED BY <1>2, <1>5, <3>1, <3>2
  <2>4. offset' <= Len(bytes') /\ offset' = BufferAt' + Len(buf')
    BY <1>1, <1>2, <1>3, <1>5, <2>1, <2>2
  <2>5. QED BY <1>1, <2>1, <2>2, <2>3, <2>4 DEF InStep
<1>9. QED BY <1>6, <1>7, <1>8 DEF ReaderInv

LEMMA ReadEndInv == ASSUME ReaderInv, ReadEnd PROVE ReaderInv'
<1> DEFINE n == Len(buf)
           w == Whole(n)
<1>1. /\ mode = "fill" /\ Unread = 0 /\ eof' = TRUE /\ at_eof' = Records(Len(bytes))
      /\ buf' = SubSeq(buf, 0 + 1, w) /\ mode' = "idle"
      /\ UNCHANGED <<bytes, begun, offset, pos, out, overtaken>>
  BY DEF ReadEnd, WholeOnly
<1>2. /\ n \in Nat /\ buf \in Seq(Byte) /\ w = Records(n) * Stride /\ Records(n) \in Nat
      /\ w \in Nat /\ w <= n
      /\ Len(bytes) \in Nat /\ Records(Len(bytes)) \in Nat /\ offset \in Nat
  BY ReaderFacts, WholeFacts DEF ReaderInv, StreamTyped
<1> HIDE DEF w
<1>3. buf' \in Seq(Byte) /\ Len(buf') = w /\ \A j \in 1 .. w : buf'[j] = buf[j]
  <2>1. /\ buf' \in Seq(Byte) /\ Len(buf') = w - 0 /\ buf' = [j \in 1 .. w - 0 |-> buf[0 + j]]
    BY <1>1, <1>2, PartOf
  <2>2. w - 0 = w /\ \A j \in 1 .. w : 0 + j = j
    BY <1>2
  <2>3. QED BY <2>1, <2>2
<1>4. pos = 0 /\ ~eof /\ \E k \in Nat : pos = k * Stride /\ k <= Len(out)
  BY <1>1 DEF ReaderInv, Buffered
<1>5. StreamTyped'
  BY <1>1, <1>2, <1>3 DEF ReaderInv, StreamTyped
<1>6. Buffered'
  BY <1>1, <1>2, <1>3, <1>4 DEF Buffered
<1>7. ASSUME ~overtaken' PROVE InStep'
  <2>1. /\ ~overtaken /\ offset = BufferAt + n /\ offset <= Len(bytes)
        /\ \A j \in 1 .. n : buf[j] = bytes[BufferAt + j]
        /\ \A i \in DOMAIN out : out[i] = SubSeq(bytes, (i - 1) * Stride + 1, i * Stride)
    BY <1>1, <1>4, <1>7 DEF ReaderInv, InStep
  <2>2. offset = Len(bytes)
    BY <1>1, <1>2, <2>1 DEF Unread
  <2>3. /\ BufferAt = Done /\ BufferAt' = BufferAt /\ Done = Len(out) * Stride /\ Done \in Nat
        /\ Len(out) \in Nat
    BY <1>1, <1>4, ReaderFacts DEF BufferAt, Done
  <2>4. Records(Len(bytes)) = Len(out) + Records(n)
    <3>1. Records(Len(out) * Stride + n) = Len(out) + Records(n)
      BY <1>2, <2>3, RecordsAfter
    <3>2. Len(bytes) = Len(out) * Stride + n
      BY <2>1, <2>2, <2>3
    <3>3. QED BY <3>1, <3>2
  <2>5. BufferAt + w = Records(Len(bytes)) * Stride
    <3>1. (Len(out) + Records(n)) * Stride = Len(out) * Stride + Records(n) * Stride
      BY <1>2, <2>3, MultiplesOrder
    <3>2. QED BY <1>2, <2>3, <2>4, <3>1
  <2>6. Records(Len(bytes)) * Stride <= Len(bytes)
    BY <1>2, WholeFacts
  <2>7. \A j \in 1 .. w : buf'[j] = bytes[BufferAt + j]
    BY <1>2, <1>3, <2>1
  <2>8. QED BY <1>1, <1>3, <2>1, <2>3, <2>5, <2>6, <2>7 DEF InStep
<1>8. QED BY <1>5, <1>6, <1>7 DEF ReaderInv

LEMMA ReadFailsInv == ASSUME ReaderInv, ReadFails PROVE ReaderInv'
<1>1. /\ mode = "fill" /\ mode' = "failed"
      /\ UNCHANGED <<bytes, begun, offset, buf, pos, eof, out, at_eof, overtaken>>
  BY DEF ReadFails
<1>2. BufferAt' = BufferAt
  BY <1>1 DEF BufferAt, Done
<1>3. StreamTyped' /\ Buffered'
  BY <1>1 DEF ReaderInv, StreamTyped, Buffered
<1>4. InStep => InStep'
  BY <1>1, <1>2 DEF InStep
<1>5. QED BY <1>1, <1>3, <1>4 DEF ReaderInv


(* What one or all of the buffer's records hand out.                       *)
LEMMA HandOutInv ==
  ASSUME ReaderInv, NEW n \in Nat, n * Stride <= Len(buf) - pos, HandOut(n)
  PROVE  ReaderInv'
<1> DEFINE Rec(i) == [j \in 1 .. Stride |-> ByteAt(pos + (i - 1) * Stride + j)]
           more == [i \in 1 .. n |-> Rec(i)]
           size == Len(out)
<1>1. /\ mode = "idle" /\ out' = out \o more /\ pos' = pos + n * Stride
      /\ UNCHANGED <<bytes, begun, offset, buf, eof, mode, at_eof, overtaken>>
  BY DEF HandOut
<1>2. /\ Stride \in Nat \ {0} /\ size \in Nat /\ Len(buf) \in Nat /\ pos \in Nat /\ Done \in Nat
      /\ BufferAt \in Nat
      /\ Done = size * Stride /\ BufferAt = Done - pos /\ Len(bytes) \in Nat /\ pos <= Len(buf)
      /\ n * Stride \in Nat
      /\ bytes \in Seq(Byte) /\ buf \in Seq(Byte)
  BY ReaderFacts, Multiples DEF ReaderInv, Buffered, StreamTyped, BufferAt, Done
<1>3. ASSUME NEW i \in 1 .. n
      PROVE  /\ (i - 1) * Stride \in Nat /\ i * Stride = (i - 1) * Stride + Stride
             /\ i * Stride <= n * Stride
             /\ \A j \in 1 .. Stride : /\ pos + (i - 1) * Stride + j \in 1 .. Len(buf)
                                       /\ Rec(i)[j] = buf[pos + (i - 1) * Stride + j]
  <2>1. (i - 1) * Stride \in Nat /\ i * Stride = (i - 1) * Stride + Stride /\ i * Stride <= n * Stride
    BY HandedOut
  <2> DEFINE a == (i - 1) * Stride
  <2>2. ASSUME NEW j \in 1 .. Stride
        PROVE  pos + a + j \in 1 .. Len(buf) /\ Rec(i)[j] = buf[pos + a + j]
    <3>1. pos + a + j \in 1 .. Len(buf)
      <4> DEFINE b == i * Stride
                 c == n * Stride
      <4>1. a \in Nat /\ b = a + Stride /\ b <= c /\ c <= Len(buf) - pos /\ c \in Nat
        BY <1>2, <2>1
      <4> HIDE DEF a, b, c
      <4>2. QED BY <1>2, <4>1
    <3>2. Rec(i)[j] = ByteAt(pos + a + j)
      OBVIOUS
    <3>3. QED BY <3>1, <3>2 DEF ByteAt
  <2>3. QED BY <2>1, <2>2
<1>4. \A i \in 1 .. n : Rec(i) \in [1 .. Stride -> Byte]
  <2> SUFFICES ASSUME NEW i \in 1 .. n PROVE Rec(i) \in [1 .. Stride -> Byte]
    OBVIOUS
  <2>1. \A j \in 1 .. Stride : ByteAt(pos + (i - 1) * Stride + j) \in Byte
    <3> TAKE j \in 1 .. Stride
    <3>1. Rec(i)[j] \in Byte
      BY <1>2, <1>3, ElementOfSeq
    <3>2. QED BY <3>1
  <2>2. QED BY <2>1
<1> HIDE DEF Rec
<1>5. more \in Seq([1 .. Stride -> Byte]) /\ Len(more) = n /\ \A i \in 1 .. n : more[i] = Rec(i)
  BY <1>4
<1> HIDE DEF more
<1>6. out \in Seq([1 .. Stride -> Byte])
  BY DEF ReaderInv, StreamTyped
<1>7. /\ out' \in Seq([1 .. Stride -> Byte]) /\ Len(out') = size + n
      /\ \A i \in 1 .. size : out'[i] = out[i]
      /\ \A i \in size + 1 .. size + n : out'[i] = more[i - size]
  BY <1>1, <1>5, <1>6, Joined
<1>8. (size + n) * Stride = size * Stride + n * Stride
  BY <1>2, MultiplesOrder
<1>9. StreamTyped'
  <2>1. pos + n * Stride \in Nat
    <3> DEFINE c == n * Stride
    <3> HIDE DEF c
    <3>1. c \in Nat
      BY <1>2 DEF c
    <3>2. QED BY <1>2, <3>1 DEF c
  <2>2. pos' \in Nat
    BY <1>1, <2>1
  <2>3. out' \in Seq([1 .. Stride -> Byte])
    BY <1>7
  <2>4. QED BY <1>1, <2>2, <2>3 DEF ReaderInv, StreamTyped
<1>10. Buffered'
  <2>1. PICK k \in Nat : pos = k * Stride /\ k <= size
    BY DEF ReaderInv, Buffered
  <2>2. (k + n) * Stride = k * Stride + n * Stride
    BY MultiplesOrder
  <2>3. k + n \in Nat /\ pos' = (k + n) * Stride /\ k + n <= Len(out')
    BY <1>1, <1>2, <1>7, <2>1, <2>2
  <2>4. pos' <= Len(buf')
    BY <1>1, <1>2
  <2>5. QED BY <1>1, <2>3, <2>4 DEF ReaderInv, Buffered
<1>11. ASSUME ~overtaken' PROVE InStep'
  <2>1. BufferAt' = BufferAt
    <3>1. BufferAt' = Len(out') * Stride - pos'
      BY DEF BufferAt, Done
    <3>2. QED BY <1>1, <1>2, <1>7, <1>8, <3>1
  <2>2. /\ ~overtaken /\ InStep
    BY <1>1, <1>11 DEF ReaderInv
  <2>3. ASSUME NEW i \in 1 .. size + n
        PROVE  out'[i] = SubSeq(bytes, (i - 1) * Stride + 1, i * Stride)
    <3>1. CASE i <= size
      <4>1. i \in 1 .. size /\ i \in DOMAIN out
        BY <1>2, <2>3, <3>1, ReaderFacts
      <4>2. QED BY <1>7, <2>2, <4>1 DEF InStep
    <3>2. CASE i > size
      <4> DEFINE m == i - size
                 a == (i - 1) * Stride
                 c == i * Stride
                 r == (m - 1) * Stride
      <4>1. m \in 1 .. n /\ i \in size + 1 .. size + n
        BY <1>2, <2>3, <3>2
      <4>2. out'[i] = Rec(m)
        BY <1>5, <1>7, <4>1
      <4>3. /\ r \in Nat /\ m * Stride = r + Stride /\ m * Stride <= n * Stride
            /\ \A j \in 1 .. Stride : pos + r + j \in 1 .. Len(buf) /\ Rec(m)[j] = buf[pos + r + j]
        BY <1>3, <4>1
      <4>4. a = Done + r /\ c = a + Stride /\ a \in Nat /\ c \in Nat
        <5>1. m - 1 \in Nat /\ size + (m - 1) = i - 1
          BY <1>2, <4>1
        <5>2. (size + (m - 1)) * Stride = size * Stride + (m - 1) * Stride
          BY <1>2, <5>1, MultiplesOrder
        <5>3. i \in 1 .. size + n /\ size + n \in Nat
          BY <1>2, <2>3
        <5>4. a \in Nat /\ c = a + Stride /\ c \in Nat
          BY <5>3, HandedOut
        <5>5. QED BY <1>2, <5>1, <5>2, <5>4
      <4> HIDE DEF m, a, c, r
      <4>5. c <= Len(bytes) /\ a <= c /\ c - a = Stride
        <5> DEFINE b == n * Stride
                   d == m * Stride
        <5>1. d = r + Stride /\ d <= b /\ b <= Len(buf) - pos /\ b \in Nat
          BY <1>2, <4>3
        <5>2. BufferAt + Len(buf) <= Len(bytes)
          BY <2>2, ReaderFacts
        <5> HIDE DEF b, d
        <5>3. c <= Len(bytes)
          <6>1. /\ BufferAt \in Int /\ Done \in Int /\ pos \in Int /\ r \in Int /\ Stride \in Int
                /\ Len(buf) \in Int /\ Len(bytes) \in Int /\ a \in Int /\ c \in Int /\ d \in Int
                /\ b \in Int
            BY <1>2, <4>3, <4>4, <5>1
          <6>2. /\ BufferAt = Done - pos /\ a = Done + r /\ c = a + Stride /\ d = r + Stride
                /\ d <= b /\ b <= Len(buf) - pos /\ BufferAt + Len(buf) <= Len(bytes)
            BY <1>2, <4>4, <5>1, <5>2
          <6>3. QED BY ONLY <6>1, <6>2
        <5>4. QED BY <1>2, <4>4, <5>3
      <4>6. SubSeq(bytes, a + 1, c) = [j \in 1 .. Stride |-> bytes[a + j]]
        <5>1. SubSeq(bytes, a + 1, c) = [j \in 1 .. c - a |-> bytes[a + j]]
          <6>1. bytes \in Seq(Byte) /\ a \in Nat /\ c \in Nat /\ a <= c /\ c <= Len(bytes)
            BY <1>2, <4>4, <4>5
          <6>2. QED BY <6>1, PartOf
        <5>2. QED BY <4>5, <5>1
      <4>7. ASSUME NEW j \in 1 .. Stride PROVE Rec(m)[j] = bytes[a + j]
        <5>1. pos + r + j \in 1 .. Len(buf) /\ Rec(m)[j] = buf[pos + r + j]
          BY <4>3
        <5>2. BufferAt + (pos + r + j) = a + j
          BY <1>2, <4>3, <4>4
        <5>3. buf[pos + r + j] = bytes[BufferAt + (pos + r + j)]
          BY <2>2, <5>1 DEF InStep
        <5>4. QED BY <5>1, <5>2, <5>3
      <4>8. Rec(m) = [j \in 1 .. Stride |-> Rec(m)[j]]
        BY DEF Rec
      <4>9. Rec(m) = [j \in 1 .. Stride |-> bytes[a + j]]
        BY <4>7, <4>8
      <4>10. QED BY <4>2, <4>6, <4>9 DEF a, c
    <3>3. QED BY <1>2, <2>3, <3>1, <3>2
  <2>4. DOMAIN out' = 1 .. size + n
    BY <1>7, LenProperties
  <2>5. QED BY <1>1, <2>1, <2>2, <2>3, <2>4 DEF InStep
<1>12. QED BY <1>9, <1>10, <1>11 DEF ReaderInv

LEMMA ReaderInit == StreamInit => ReaderInv
<1> SUFFICES ASSUME StreamInit PROVE ReaderInv
  OBVIOUS
<1>1. Stride \in Nat /\ 0 * Stride = 0 /\ Len(<<>>) = 0
  BY StreamAssumption
<1>2. Len(out) = 0 /\ Len(buf) = 0 /\ Len(bytes) = 0 /\ pos = 0 /\ DOMAIN out = {}
  BY DEF StreamInit
<1>3. StreamTyped
  <2>1. <<>> \in Seq(Byte) /\ <<>> \in Seq([1 .. Stride -> Byte])
    OBVIOUS
  <2>2. QED BY <2>1 DEF StreamInit, StreamTyped
<1>4. Buffered
  BY <1>1, <1>2 DEF StreamInit, Buffered
<1>5. InStep
  BY <1>1, <1>2 DEF StreamInit, InStep, BufferAt, Done
<1>6. QED BY <1>3, <1>4, <1>5 DEF ReaderInv

LEMMA ReaderNext == ReaderInv /\ [StreamNext]_streamVars => ReaderInv'
<1> SUFFICES ASSUME ReaderInv, [StreamNext]_streamVars PROVE ReaderInv'
  OBVIOUS
<1>1. CASE NextRecord \/ NextChunk
  <2> DEFINE left == Len(buf) - pos
  <2>1. mode = "idle" /\ pos < Len(buf) /\ pos \in Nat /\ Len(buf) \in Nat /\ Stride \in Nat \ {0}
    BY <1>1, ReaderFacts DEF NextRecord, NextChunk, HandOut, ReaderInv, StreamTyped
  <2>2. left \in Nat /\ left > 0
    BY <2>1
  <2>3. PICK k \in Nat : pos = k * Stride
    BY DEF ReaderInv, Buffered
  <2>4. PICK l \in Nat : Len(buf) = l * Stride
    BY <2>1 DEF ReaderInv, Buffered
  <2>5. k < l
    BY <2>1, <2>3, <2>4, MultiplesOrder
  <2>6. left = (l - k) * Stride /\ l - k \in Nat /\ l - k >= 1
    BY <2>3, <2>4, <2>5, MultiplesOrder
  <2>7. 1 * Stride <= left
    <3>1. 1 * Stride <= (l - k) * Stride
      BY <2>6, MultiplesOrder
    <3>2. QED BY <2>6, <3>1
  <2>8. Records(left) \in Nat /\ Records(left) * Stride <= left
    BY <2>2, WholeFacts
  <2>9. CASE NextRecord
    BY <2>7, <2>9, HandOutInv DEF NextRecord
  <2>10. CASE NextChunk
    BY <2>8, <2>10, HandOutInv DEF NextChunk
  <2>11. QED BY <1>1, <2>9, <2>10
<1>2. ASSUME NEW n \in 1 .. Chunk * Stride, Read(n) PROVE ReaderInv'
  <2>1. n \in Nat /\ n > 0
    OBVIOUS
  <2>2. QED BY <1>2, <2>1, BytesReadInv
<1>3. CASE UNCHANGED streamVars
  BY <1>3 DEF streamVars, ReaderInv, StreamTyped, Buffered, InStep, BufferAt, Done
<1>4. QED BY <1>1, <1>2, <1>3, WriteByteInv, HealInv, RefillInv, ReadEndInv, ReadFailsInv DEF StreamNext

-----------------------------------------------------------------------------
(* Entries by date.                                                        *)
Datable(S) == \A e \in S : e.date \in Nat
Dated(S) == {s \in Seq(S) : \A i, j \in DOMAIN s : s[i].date = s[j].date => i = j}

LEMMA UptoSize ==
  ASSUME NEW n \in Nat
  PROVE  IsFiniteSet(1 .. n) /\ Cardinality(1 .. n) = n
  BY FS_Interval

(* A sequence of n entries of n dates.                                     *)
Counted(s, S) ==
  /\ Len(s) \in Nat /\ DOMAIN s = 1 .. Len(s) /\ Range(s) \in SUBSET S
  /\ \A i \in 1 .. Len(s) : s[i] \in Range(s)
  /\ \A e \in Range(s) : \E i \in 1 .. Len(s) : e = s[i]
  /\ IsFiniteSet(Range(s)) /\ Cardinality(Range(s)) = Len(s)
  /\ \A e, f \in Range(s) : e.date = f.date => e = f

LEMMA DatedCounts ==
  ASSUME NEW S, NEW s \in Dated(S)
  PROVE  Counted(s, S)
<1>1. /\ s \in Seq(S) /\ Len(s) \in Nat /\ DOMAIN s = 1 .. Len(s)
      /\ \A i, j \in 1 .. Len(s) : s[i].date = s[j].date => i = j
      /\ \A i \in 1 .. Len(s) : s[i] \in S
  <2>1. s \in Seq(S) /\ \A i, j \in DOMAIN s : s[i].date = s[j].date => i = j
    BY DEF Dated
  <2>2. QED BY <2>1
<1>2. /\ \A i \in 1 .. Len(s) : s[i] \in Range(s)
      /\ \A e \in Range(s) : \E i \in 1 .. Len(s) : e = s[i]
  BY <1>1 DEF Range
<1>3. s \in Bijection(1 .. Len(s), Range(s))
  <2>1. s = [i \in 1 .. Len(s) |-> s[i]]
    BY <1>1
  <2>2. s \in [1 .. Len(s) -> Range(s)]
    BY <1>2, <2>1
  <2>3. \A i, j \in 1 .. Len(s) : s[i] = s[j] => i = j
    BY <1>1
  <2>4. QED BY <1>2, <2>2, <2>3 DEF Bijection, Injection, Surjection, IsInjective
<1>4. IsFiniteSet(1 .. Len(s)) /\ Cardinality(1 .. Len(s)) = Len(s)
  BY <1>1, UptoSize
<1>5. IsFiniteSet(Range(s)) /\ Cardinality(Range(s)) = Len(s)
  BY <1>3, <1>4, FS_Bijection DEF ExistsBijection
<1>6. \A e, f \in Range(s) : e.date = f.date => e = f
  BY <1>1, <1>2
<1>7. Range(s) \in SUBSET S
  BY <1>1, <1>2
<1>8. QED BY <1>1, <1>2, <1>5, <1>6, <1>7 DEF Counted

(* The earlier ones of an entry.                                           *)
Rank(s, e) == Cardinality(Earlier(s, e))
Ranked(s) ==
  /\ \A e \in Range(s) : Rank(s, e) \in 0 .. Len(s) - 1
  /\ \A e, f \in Range(s) : e.date < f.date => Rank(s, e) < Rank(s, f)
  /\ \A e, f \in Range(s) : Rank(s, e) = Rank(s, f) => e = f

LEMMA DatedRanks ==
  ASSUME NEW S, Datable(S), NEW s \in Dated(S)
  PROVE  Ranked(s)
<1>1. Counted(s, S)
  BY DatedCounts
<1>2. \A e \in Range(s) : /\ IsFiniteSet(Earlier(s, e)) /\ Rank(s, e) \in Nat
                          /\ e \notin Earlier(s, e) /\ Earlier(s, e) \in SUBSET Range(s)
                          /\ e.date \in Nat
  <2>1. TAKE e \in Range(s)
  <2>2. e.date \in Nat
    BY <1>1 DEF Counted, Datable
  <2>3. Earlier(s, e) \in SUBSET Range(s) /\ e \notin Earlier(s, e)
    BY <2>2 DEF Earlier
  <2>4. IsFiniteSet(Earlier(s, e))
    BY <1>1, <2>3, FS_Subset DEF Counted
  <2>5. Rank(s, e) \in Nat
    BY <2>4, FS_CardinalityType DEF Rank
  <2>6. QED BY <2>2, <2>3, <2>4, <2>5
<1>3. ASSUME NEW e \in Range(s)
      PROVE  Rank(s, e) \in 0 .. Len(s) - 1
  <2>1. /\ Cardinality(Range(s) \ {e}) = Cardinality(Range(s)) - 1
        /\ IsFiniteSet(Range(s) \ {e}) /\ Cardinality(Range(s) \ {e}) \in Nat
    BY <1>1, Removed DEF Counted
  <2>2. Earlier(s, e) \in SUBSET (Range(s) \ {e})
    BY <1>2
  <2>3. Rank(s, e) <= Cardinality(Range(s) \ {e})
    BY <2>1, <2>2, FS_Subset DEF Rank
  <2>4. QED BY <1>1, <1>2, <2>1, <2>3 DEF Counted
<1>4. ASSUME NEW e \in Range(s), NEW f \in Range(s), e.date < f.date
      PROVE  Rank(s, e) < Rank(s, f)
  <2>1. e \in Earlier(s, f)
    BY <1>4 DEF Earlier
  <2>2. Earlier(s, e) \in SUBSET (Earlier(s, f) \ {e})
    <3>1. \A g \in Range(s) : g.date \in Nat
      BY <1>2
    <3>2. \A g \in Range(s) : g.date < e.date => g.date < f.date
      BY <1>4, <3>1
    <3>3. \A g \in Range(s) : g.date < e.date => g # e
      BY <3>1
    <3>4. QED BY <3>2, <3>3 DEF Earlier
  <2>3. /\ Cardinality(Earlier(s, f) \ {e}) = Cardinality(Earlier(s, f)) - 1
        /\ IsFiniteSet(Earlier(s, f) \ {e}) /\ Cardinality(Earlier(s, f) \ {e}) \in Nat
    BY <1>2, <2>1, Removed
  <2>4. Rank(s, e) <= Cardinality(Earlier(s, f) \ {e})
    BY <2>2, <2>3, FS_Subset DEF Rank
  <2>5. QED BY <1>2, <2>3, <2>4 DEF Rank
<1>5. ASSUME NEW e \in Range(s), NEW f \in Range(s), Rank(s, e) = Rank(s, f)
      PROVE  e = f
  <2>1. e.date \in Nat /\ f.date \in Nat /\ Rank(s, e) \in Nat
    BY <1>2
  <2>2. ~(e.date < f.date) /\ ~(f.date < e.date)
    BY <1>4, <1>5, <2>1
  <2>3. e.date = f.date
    BY <2>1, <2>2
  <2>4. QED BY <1>1, <2>3 DEF Counted
<1>6. QED BY <1>3, <1>4, <1>5 DEF Ranked

(* The sort: the same entries, in order.                                   *)
InOrder(s) == \A i, j \in DOMAIN s : i < j => s[i].date < s[j].date
Sorted(b, s, S) == b \in Dated(S) /\ Len(b) = Len(s) /\ Range(b) = Range(s) /\ InOrder(b)

LEMMA Sorts ==
  ASSUME NEW S, Datable(S), NEW s \in Dated(S)
  PROVE  Sorted(ByDate(s), s, S)
<1> DEFINE n == Len(s)
           R == Range(s)
           rank == [e \in R |-> Rank(s, e) + 1]
           b == ByDate(s)
<1>1. Counted(s, S) /\ Ranked(s)
  BY DatedCounts, DatedRanks
<1>2. n \in Nat /\ DOMAIN s = 1 .. n /\ IsFiniteSet(R) /\ Cardinality(R) = n /\ R \in SUBSET S
  BY <1>1 DEF Counted
<1>3. \A e \in R : Rank(s, e) \in 0 .. n - 1
  BY <1>1 DEF Ranked
<1>4. \A k \in 1 .. n : \E e \in R : Rank(s, e) = k - 1
  <2>1. rank \in [R -> 1 .. n]
    BY <1>2, <1>3
  <2>2. \A e, f \in R : rank[e] = rank[f] => e = f
    <3>1. \A e, f \in R : Rank(s, e) + 1 = Rank(s, f) + 1 => Rank(s, e) = Rank(s, f)
      BY <1>2, <1>3
    <3>2. QED BY <1>1, <3>1 DEF Ranked
  <2> HIDE DEF rank
  <2>3. rank \in Injection(R, 1 .. n)
    BY <2>1, <2>2 DEF Injection, IsInjective
  <2>4. IsFiniteSet(1 .. n) /\ Cardinality(1 .. n) = n
    BY <1>2, UptoSize
  <2>5. rank \in Surjection(R, 1 .. n)
    BY <1>2, <2>3, <2>4, FS_Injection
  <2>6. \A k \in 1 .. n : \E e \in R : rank[e] = k
    BY <2>5 DEF Surjection
  <2>7. QED BY <1>2, <1>3, <2>6 DEF rank
<1> HIDE DEF rank
<1>5. \A k \in 1 .. n : b[k] \in R /\ Rank(s, b[k]) = k - 1
  <2>1. TAKE k \in 1 .. n
  <2>2. b[k] = CHOOSE e \in R : Cardinality(Earlier(s, e)) = k - 1
    BY <1>2 DEF ByDate
  <2>3. \E e \in R : Cardinality(Earlier(s, e)) = k - 1
    BY <1>4 DEF Rank
  <2> HIDE DEF R, b
  <2>4. b[k] \in R /\ Cardinality(Earlier(s, b[k])) = k - 1
    BY <2>2, <2>3
  <2>5. QED BY <2>4 DEF Rank
<1>6. b = [k \in 1 .. n |-> b[k]]
  BY <1>2 DEF ByDate
<1> HIDE DEF b
<1>7. b \in Seq(S) /\ Len(b) = n /\ DOMAIN b = 1 .. n
  <2>1. b \in [1 .. n -> S]
    BY <1>2, <1>5, <1>6
  <2>2. QED BY <1>2, <2>1
<1>8. Range(b) = R
  <2>1. \A e \in R : \E k \in 1 .. n : b[k] = e
    <3>1. TAKE e \in R
    <3>2. Rank(s, e) + 1 \in 1 .. n /\ (Rank(s, e) + 1) - 1 = Rank(s, e)
      BY <1>2, <1>3
    <3>3. b[Rank(s, e) + 1] \in R /\ Rank(s, b[Rank(s, e) + 1]) = Rank(s, e)
      BY <1>5, <3>2
    <3>4. b[Rank(s, e) + 1] = e
      BY <1>1, <3>3 DEF Ranked
    <3>5. QED BY <3>2, <3>4
  <2>2. Range(b) = {b[k] : k \in 1 .. n}
    BY <1>7 DEF Range
  <2>3. QED BY <1>5, <2>1, <2>2
<1>9. InOrder(b)
  <2> SUFFICES ASSUME NEW i \in 1 .. n, NEW j \in 1 .. n, i < j
               PROVE  b[i].date < b[j].date
    BY <1>7 DEF InOrder
  <2>1. /\ b[i] \in R /\ b[j] \in R /\ Rank(s, b[i]) = i - 1 /\ Rank(s, b[j]) = j - 1
    BY <1>5
  <2>2. b[i].date \in Nat /\ b[j].date \in Nat
    BY <1>2, <2>1 DEF Datable
  <2>3. ~(b[j].date < b[i].date)
    <3>1. ~(j - 1 < i - 1)
      OBVIOUS
    <3>2. QED BY <1>1, <2>1, <3>1 DEF Ranked
  <2>4. b[i].date # b[j].date
    <3>1. i - 1 # j - 1
      OBVIOUS
    <3>2. b[i] # b[j]
      BY <2>1, <3>1
    <3>3. QED BY <1>1, <2>1, <3>2 DEF Counted
  <2>5. QED BY <2>2, <2>3, <2>4
<1>10. b \in Dated(S)
  <2> SUFFICES ASSUME NEW i \in 1 .. n, NEW j \in 1 .. n, b[i].date = b[j].date
               PROVE  i = j
    BY <1>7 DEF Dated
  <2>1. b[i] \in S /\ b[j] \in S
    BY <1>2, <1>5
  <2>2. b[i].date \in Nat /\ b[j].date \in Nat
    BY <2>1 DEF Datable
  <2>3. ~(i < j) /\ ~(j < i)
    BY <1>7, <1>9, <2>2 DEF InOrder
  <2>4. QED BY <1>2, <2>3
<1>11. QED BY <1>7, <1>8, <1>9, <1>10 DEF b, Sorted

(* It depends on the entries only.                                         *)
LEMMA SortsAlike ==
  ASSUME NEW S, NEW s \in Dated(S), NEW t \in Dated(S), Range(s) = Range(t)
  PROVE  ByDate(s) = ByDate(t)
<1>1. Counted(s, S) /\ Counted(t, S)
  BY DatedCounts
<1>2. DOMAIN s = DOMAIN t
  BY <1>1 DEF Counted
<1>3. \A e : Earlier(s, e) = Earlier(t, e)
  BY DEF Earlier
<1>4. QED BY <1>2, <1>3 DEF ByDate

-----------------------------------------------------------------------------
(* One entry put in its place.                                             *)
Put(R, e) == {f \in R : f.date # e.date} \cup {e}
Placed(t, s, e, S) == t \in Dated(S) /\ t # <<>> /\ Range(t) = Put(Range(s), e)

LEMMA Places ==
  ASSUME NEW S, NEW s \in Dated(S), NEW e \in S
  PROVE  Placed(Place(s, e), s, e, S)
<1> DEFINE n == Len(s)
           t == Place(s, e)
<1>1. /\ s \in Seq(S) /\ n \in Nat /\ DOMAIN s = 1 .. n
      /\ \A i, j \in 1 .. n : s[i].date = s[j].date => i = j
      /\ \A i \in 1 .. n : s[i] \in S
  <2>1. s \in Seq(S) /\ \A i, j \in DOMAIN s : s[i].date = s[j].date => i = j
    BY DEF Dated
  <2>2. QED BY <2>1
<1>2. Range(s) = {s[i] : i \in 1 .. n}
  BY <1>1 DEF Range
<1>3. ASSUME NEW k \in 1 .. n, s[k].date = e.date
      PROVE  Placed(t, s, e, S)
  <2>1. t = [i \in 1 .. n |-> IF s[i].date = e.date THEN e ELSE s[i]]
    BY <1>1, <1>3 DEF Place
  <2> HIDE DEF t
  <2>2. t \in Seq(S) /\ Len(t) = n /\ DOMAIN t = 1 .. n
    BY <1>1, <2>1
  <2>3. \A i \in 1 .. n : t[i] = IF s[i].date = e.date THEN e ELSE s[i]
    BY <2>1
  <2>4. \A i \in 1 .. n : t[i].date = s[i].date
    BY <2>3
  <2>5. t \in Dated(S)
    BY <1>1, <2>2, <2>4 DEF Dated
  <2>6. Range(t) = {t[i] : i \in 1 .. n}
    BY <2>2 DEF Range
  <2>7. \A f \in Range(t) : f \in Put(Range(s), e)
    BY <1>2, <2>3, <2>6 DEF Put
  <2>8. \A f \in Put(Range(s), e) : f \in Range(t)
    <3>1. e \in Range(t)
      BY <1>3, <2>3, <2>6
    <3>2. \A f \in Range(s) : f.date # e.date => f \in Range(t)
      BY <1>2, <2>3, <2>6
    <3>3. QED BY <3>1, <3>2 DEF Put
  <2>9. t # <<>>
    BY <2>2
  <2>10. QED BY <2>5, <2>7, <2>8, <2>9 DEF Placed
<1>4. ASSUME \A i \in 1 .. n : s[i].date # e.date
      PROVE  Placed(t, s, e, S)
  <2>1. t = Append(s, e)
    BY <1>1, <1>4 DEF Place
  <2> HIDE DEF t
  <2>2. /\ t \in Seq(S) /\ Len(t) = n + 1 /\ DOMAIN t = 1 .. n + 1 /\ t[n + 1] = e
        /\ \A i \in 1 .. n : t[i] = s[i]
    BY <1>1, <2>1
  <2>3. \A i \in 1 .. n + 1 : i \in 1 .. n \/ i = n + 1
    BY <1>1
  <2>4. \A i, j \in 1 .. n + 1 : t[i].date = t[j].date => i = j
    BY <1>1, <1>4, <2>2, <2>3
  <2>5. t \in Dated(S)
    BY <2>2, <2>4 DEF Dated
  <2>6. Range(t) = {t[i] : i \in 1 .. n + 1}
    BY <2>2 DEF Range
  <2>7. Range(t) = Range(s) \cup {e}
    <3>1. n + 1 \in 1 .. n + 1 /\ \A i \in 1 .. n : i \in 1 .. n + 1
      BY <1>1
    <3>2. QED BY <1>2, <2>2, <2>3, <2>6, <3>1
  <2>8. Put(Range(s), e) = Range(s) \cup {e}
    BY <1>2, <1>4 DEF Put
  <2>9. t # <<>>
    BY <1>1, <2>2
  <2>10. QED BY <2>5, <2>7, <2>8, <2>9 DEF Placed
<1>5. QED BY <1>3, <1>4

(* Along a sequence of entries, by Place and by UpsertShard.               *)
PlacesAlong(p, es, c, V) ==
  /\ p \in [0 .. Len(es) -> V] /\ p[0] = c
  /\ \A k \in 1 .. Len(es) : p[k] = Place(p[k - 1], es[k])

UpsertsAlong(p, es, c, V) ==
  /\ p \in [0 .. Len(es) -> V] /\ p[0] = c
  /\ \A k \in 1 .. Len(es) : p[k] = UpsertShard(p[k - 1], es[k])

LEMMA FoldPlaces ==
  ASSUME NEW S, NEW es \in Seq(S), NEW V, NEW c \in V, \A v \in V, e \in S : Place(v, e) \in V
  PROVE  \E p : PlacesAlong(p, es, c, V) /\ FoldLeft(Place, c, es) = p[Len(es)]
<1> DEFINE D == 1 .. Len(es)
           Fold(g) == [t \in SUBSET D |-> IF t = {} THEN c ELSE Place(g[t \ {Max(t)}], es[Max(t)])]
           iter == CHOOSE g : g = Fold(g)
<1>1. Len(es) \in Nat /\ DOMAIN es = D /\ IsFiniteSet(D) /\ \A i \in D : es[i] \in S
  BY FS_Interval
<1>2. FoldLeft(Place, c, es) = iter[D]
  BY <1>1 DEF FoldLeft, MapThenFoldSet
<1>3. PICK g \in [SUBSET D -> V] :
        /\ g[{}] = c
        /\ \A t \in SUBSET D : t # {} => g[t] = Place(g[t \ {Max(t)}], es[Max(t)])
  <2> DEFINE step == [i \in D |-> [v \in V |-> Place(v, es[i])]]
  <2>1. step \in Steps(D, V)
    BY <1>1 DEF Steps
  <2> HIDE DEF step
  <2>2. PICK g : FoldOf(g, D, V, c, MaxOf(D), step)
    BY <1>1, <2>1, MaxIterates
  <2>3. /\ g \in [SUBSET D -> V] /\ g[{}] = c
        /\ \A t \in SUBSET D : t # {} => g[t] = step[Max(t)][g[t \ {Max(t)}]]
    BY <2>2 DEF FoldOf, MaxOf
  <2>4. ASSUME NEW t \in SUBSET D, t # {}
        PROVE  g[t] = Place(g[t \ {Max(t)}], es[Max(t)])
    <3>1. Max(t) \in D
      BY <1>1, <2>4, HasMax
    <3>2. g[t \ {Max(t)}] \in V
      BY <2>3
    <3>3. step[Max(t)][g[t \ {Max(t)}]] = Place(g[t \ {Max(t)}], es[Max(t)])
      BY <3>1, <3>2 DEF step
    <3>4. QED BY <2>3, <2>4, <3>3
  <2>5. QED BY <2>3, <2>4
<1>4. g = Fold(g)
  BY <1>3
<1>5. iter = Fold(iter)
  BY <1>4
<1> HIDE DEF iter
<1> DEFINE p == [k \in 0 .. Len(es) |-> iter[1 .. k]]
<1>6. iter[{}] = c /\ 1 .. 0 = {}
  BY <1>5
<1>7. \A k \in 1 .. Len(es) : iter[1 .. k] = Place(iter[1 .. k - 1], es[k])
  <2> TAKE k \in 1 .. Len(es)
  <2>1. k \in Nat \ {0} /\ k <= Len(es) /\ k \in 1 .. k
    BY <1>1
  <2>2. 1 .. k \in SUBSET D /\ 1 .. k # {}
    <3>1. Len(es) \in Nat
      BY <1>1
    <3>2. \A j \in 1 .. k : j \in D
      BY <2>1, <3>1
    <3>3. QED BY <2>1, <3>2
  <2>3. iter[1 .. k] = Place(iter[(1 .. k) \ {Max(1 .. k)}], es[Max(1 .. k)])
    BY <1>5, <2>2
  <2>4. QED BY <2>1, <2>3, MaxUpto
<1>8. p[0] = c /\ \A k \in 1 .. Len(es) : p[k] = Place(p[k - 1], es[k])
  BY <1>1, <1>6, <1>7
<1> HIDE DEF p
<1>9. \A k \in Nat : k <= Len(es) => p[k] \in V
  <2> DEFINE T == {k \in Nat : k <= Len(es) => p[k] \in V}
  <2>1. 0 \in T
    BY <1>1, <1>8
  <2>2. ASSUME NEW k \in Nat, k \in T
        PROVE  k + 1 \in T
    <3>1. SUFFICES ASSUME k + 1 <= Len(es)
                   PROVE  p[k + 1] \in V
      OBVIOUS
    <3>2. k + 1 \in D /\ (k + 1) - 1 = k /\ p[k] \in V
      BY <1>1, <2>2, <3>1
    <3>3. es[k + 1] \in S /\ p[k + 1] = Place(p[k], es[k + 1])
      BY <1>1, <1>8, <3>2
    <3>4. QED BY <3>2, <3>3
  <2> HIDE DEF T
  <2>3. \A k \in Nat : k \in T
    BY <2>1, <2>2, Inductively
  <2>4. QED BY <2>3 DEF T
<1>10. p \in [0 .. Len(es) -> V]
  BY <1>1, <1>9 DEF p
<1>11. FoldLeft(Place, c, es) = p[Len(es)]
  BY <1>1, <1>2 DEF p
<1>12. QED BY <1>8, <1>10, <1>11 DEF PlacesAlong

LEMMA FoldUpserts ==
  ASSUME NEW S, NEW es \in Seq(S), NEW V, NEW c \in V, \A v \in V, e \in S : UpsertShard(v, e) \in V
  PROVE  \E p : UpsertsAlong(p, es, c, V) /\ FoldLeft(UpsertShard, c, es) = p[Len(es)]
<1> DEFINE D == 1 .. Len(es)
           Fold(g) == [t \in SUBSET D |-> IF t = {} THEN c ELSE UpsertShard(g[t \ {Max(t)}], es[Max(t)])]
           iter == CHOOSE g : g = Fold(g)
<1>1. Len(es) \in Nat /\ DOMAIN es = D /\ IsFiniteSet(D) /\ \A i \in D : es[i] \in S
  BY FS_Interval
<1>2. FoldLeft(UpsertShard, c, es) = iter[D]
  BY <1>1 DEF FoldLeft, MapThenFoldSet
<1>3. PICK g \in [SUBSET D -> V] :
        /\ g[{}] = c
        /\ \A t \in SUBSET D : t # {} => g[t] = UpsertShard(g[t \ {Max(t)}], es[Max(t)])
  <2> DEFINE step == [i \in D |-> [v \in V |-> UpsertShard(v, es[i])]]
  <2>1. step \in Steps(D, V)
    BY <1>1 DEF Steps
  <2> HIDE DEF step
  <2>2. PICK g : FoldOf(g, D, V, c, MaxOf(D), step)
    BY <1>1, <2>1, MaxIterates
  <2>3. /\ g \in [SUBSET D -> V] /\ g[{}] = c
        /\ \A t \in SUBSET D : t # {} => g[t] = step[Max(t)][g[t \ {Max(t)}]]
    BY <2>2 DEF FoldOf, MaxOf
  <2>4. ASSUME NEW t \in SUBSET D, t # {}
        PROVE  g[t] = UpsertShard(g[t \ {Max(t)}], es[Max(t)])
    <3>1. Max(t) \in D
      BY <1>1, <2>4, HasMax
    <3>2. g[t \ {Max(t)}] \in V
      BY <2>3
    <3>3. step[Max(t)][g[t \ {Max(t)}]] = UpsertShard(g[t \ {Max(t)}], es[Max(t)])
      BY <3>1, <3>2 DEF step
    <3>4. QED BY <2>3, <2>4, <3>3
  <2>5. QED BY <2>3, <2>4
<1>4. g = Fold(g)
  BY <1>3
<1>5. iter = Fold(iter)
  BY <1>4
<1> HIDE DEF iter
<1> DEFINE p == [k \in 0 .. Len(es) |-> iter[1 .. k]]
<1>6. iter[{}] = c /\ 1 .. 0 = {}
  BY <1>5
<1>7. \A k \in 1 .. Len(es) : iter[1 .. k] = UpsertShard(iter[1 .. k - 1], es[k])
  <2> TAKE k \in 1 .. Len(es)
  <2>1. k \in Nat \ {0} /\ k <= Len(es) /\ k \in 1 .. k
    BY <1>1
  <2>2. 1 .. k \in SUBSET D /\ 1 .. k # {}
    <3>1. Len(es) \in Nat
      BY <1>1
    <3>2. \A j \in 1 .. k : j \in D
      BY <2>1, <3>1
    <3>3. QED BY <2>1, <3>2
  <2>3. iter[1 .. k] = UpsertShard(iter[(1 .. k) \ {Max(1 .. k)}], es[Max(1 .. k)])
    BY <1>5, <2>2
  <2>4. QED BY <2>1, <2>3, MaxUpto
<1>8. p[0] = c /\ \A k \in 1 .. Len(es) : p[k] = UpsertShard(p[k - 1], es[k])
  BY <1>1, <1>6, <1>7
<1> HIDE DEF p
<1>9. \A k \in Nat : k <= Len(es) => p[k] \in V
  <2> DEFINE T == {k \in Nat : k <= Len(es) => p[k] \in V}
  <2>1. 0 \in T
    BY <1>1, <1>8
  <2>2. ASSUME NEW k \in Nat, k \in T
        PROVE  k + 1 \in T
    <3>1. SUFFICES ASSUME k + 1 <= Len(es)
                   PROVE  p[k + 1] \in V
      OBVIOUS
    <3>2. k + 1 \in D /\ (k + 1) - 1 = k /\ p[k] \in V
      BY <1>1, <2>2, <3>1
    <3>3. es[k + 1] \in S /\ p[k + 1] = UpsertShard(p[k], es[k + 1])
      BY <1>1, <1>8, <3>2
    <3>4. QED BY <3>2, <3>3
  <2> HIDE DEF T
  <2>3. \A k \in Nat : k \in T
    BY <2>1, <2>2, Inductively
  <2>4. QED BY <2>3 DEF T
<1>10. p \in [0 .. Len(es) -> V]
  BY <1>1, <1>9 DEF p
<1>11. FoldLeft(UpsertShard, c, es) = p[Len(es)]
  BY <1>1, <1>2 DEF p
<1>12. QED BY <1>8, <1>10, <1>11 DEF UpsertsAlong

-----------------------------------------------------------------------------
(* Manifests.                                                              *)
Telling(s, k) ==
  [shards |-> s, first |-> IF s = <<>> THEN "max" ELSE s[1].first,
                 last  |-> IF s = <<>> THEN "min" ELSE Last(s).last, kind |-> k]
Tellings(S, k) == {Telling(s, k) : s \in Dated(S)}

LEMMA ManifestSet ==
  ASSUME NEW s, NEW a, NEW b, NEW k, NEW x, NEW y, NEW z,
         NEW r, r = [shards |-> s, first |-> a, last |-> b, kind |-> k],
         NEW u, u = [r EXCEPT !.shards = x, !.first = y, !.last = z]
  PROVE  u = [shards |-> x, first |-> y, last |-> z, kind |-> k]
<1> DEFINE v == [shards |-> x, first |-> y, last |-> z, kind |-> k]
<1>1. /\ DOMAIN u = {"shards", "first", "last", "kind"} /\ u.shards = x /\ u.first = y /\ u.last = z
      /\ u.kind = k
  OBVIOUS
<1>2. u = [i \in DOMAIN u |-> u[i]]
  OBVIOUS
<1>3. v = [i \in {"shards", "first", "last", "kind"} |-> v[i]]
  OBVIOUS
<1>4. v.shards = x /\ v.first = y /\ v.last = z /\ v.kind = k
  OBVIOUS
<1> HIDE DEF v
<1>5. \A i \in {"shards", "first", "last", "kind"} : u[i] = v[i]
  BY <1>1, <1>4
<1>6. QED BY <1>1, <1>2, <1>3, <1>5 DEF v

LEMMA SpanningOf ==
  ASSUME NEW m, m = [shards |-> m.shards, first |-> m.first, last |-> m.last, kind |-> m.kind],
         NEW t
  PROVE  Spanning(t, m) =
           [shards |-> t, first |-> IF t = <<>> THEN m.first ELSE t[1].first,
                          last  |-> IF t = <<>> THEN m.last ELSE Last(t).last, kind |-> m.kind]
<1> DEFINE y == IF t = <<>> THEN m.first ELSE t[1].first
           z == IF t = <<>> THEN m.last ELSE Last(t).last
<1>1. Spanning(t, m) = [m EXCEPT !.shards = t, !.first = y, !.last = z]
  BY DEF Spanning
<1> HIDE DEF y, z
<1>2. Spanning(t, m) = [shards |-> t, first |-> y, last |-> z, kind |-> m.kind]
  BY <1>1, ManifestSet
<1>3. QED BY <1>2 DEF y, z

Upserted(m, s, e, k, S) ==
  /\ Placed(Place(s, e), s, e, S) /\ ByDate(Place(s, e)) # <<>>
  /\ Sorted(ByDate(Place(s, e)), Place(s, e), S)
  /\ UpsertShard(m, e) = Telling(ByDate(Place(s, e)), k)

LEMMA Upserts ==
  ASSUME NEW S, Datable(S), NEW s \in Dated(S), NEW e \in S, NEW k, NEW a, NEW b,
         NEW m, m = [shards |-> s, first |-> a, last |-> b, kind |-> k]
  PROVE  Upserted(m, s, e, k, S)
<1> DEFINE w == Place(s, e)
           t == ByDate(w)
<1>1. Placed(w, s, e, S)
  BY Places
<1>2. w \in Dated(S) /\ w # <<>>
  BY <1>1 DEF Placed
<1> HIDE DEF w
<1>3. Sorted(t, w, S)
  BY <1>2, Sorts
<1>4. t # <<>>
  <2>1. w \in Seq(S) /\ t \in Seq(S) /\ Len(t) = Len(w)
    BY <1>2, <1>3 DEF Sorted, Dated
  <2>2. QED BY <1>2, <2>1
<1>5. UpsertShard(m, e) = Spanning(t, m)
  BY DEF UpsertShard, w
<1> HIDE DEF t
<1>6. Spanning(t, m) = Telling(t, k)
  <2>1. m = [shards |-> m.shards, first |-> m.first, last |-> m.last, kind |-> m.kind] /\ m.kind = k
    OBVIOUS
  <2>2. Spanning(t, m) =
           [shards |-> t, first |-> IF t = <<>> THEN m.first ELSE t[1].first,
                          last  |-> IF t = <<>> THEN m.last ELSE Last(t).last, kind |-> m.kind]
    BY <2>1, SpanningOf
  <2>3. QED BY <1>4, <2>1, <2>2 DEF Telling
<1>7. QED BY <1>1, <1>3, <1>4, <1>5, <1>6 DEF Upserted, w, t

LEMMA TellingParts ==
  ASSUME NEW s, NEW k
  PROVE  /\ Telling(s, k) = [shards |-> s, first |-> Telling(s, k).first,
                             last |-> Telling(s, k).last, kind |-> k]
         /\ Telling(s, k).shards = s
BY DEF Telling

LEMMA KindTold ==
  ASSUME NEW s, NEW k, NEW x
  PROVE  WithKind(Telling(s, k), x) = Telling(s, k \cup {x})
<1> DEFINE m == Telling(s, k)
           a == m.first
           b == m.last
           l == k \cup {x}
<1>1. /\ m = [shards |-> s, first |-> a, last |-> b, kind |-> k] /\ m.kind = k
      /\ Telling(s, l) = [shards |-> s, first |-> a, last |-> b, kind |-> l]
  BY DEF Telling
<1> HIDE DEF m, a, b
<1>2. [m EXCEPT !.kind = @ \cup {x}] = [m EXCEPT !.kind = l]
  BY <1>1
<1> HIDE DEF l
<1>3. [m EXCEPT !.kind = l] = [shards |-> s, first |-> a, last |-> b, kind |-> l]
  BY <1>1
<1>4. QED BY <1>1, <1>2, <1>3 DEF l, m, WithKind

LEMMA EmptyTells ==
  ASSUME NEW S, Datable(S)
  PROVE  /\ EmptyManifest = Telling(<<>>, {}) /\ <<>> \in Dated(S) /\ ByDate(<<>>) = <<>>
<1>1. <<>> \in Seq(S) /\ Len(<<>>) = 0 /\ \A i, j \in DOMAIN <<>> : i = j
  OBVIOUS
<1>2. <<>> \in Dated(S)
  BY <1>1 DEF Dated
<1>3. ByDate(<<>>) \in Seq(S) /\ Len(ByDate(<<>>)) = 0
  BY <1>1, <1>2, Sorts DEF Sorted, Dated
<1>4. \A t \in Seq(S) : Len(t) = 0 => t = <<>>
  OBVIOUS
<1>5. QED BY <1>2, <1>3, <1>4 DEF EmptyManifest, Telling

(* In one batch, or one by one.                                            *)
Batched(w, es, S) ==
  /\ w \in Dated(S) /\ Dates(w) = Dates(es)
  /\ SetShardsBatch(EmptyManifest, es) = Telling(ByDate(w), {})
  /\ FoldLeft(UpsertShard, EmptyManifest, es) = Telling(ByDate(w), {})

LEMMA BatchAgrees ==
  ASSUME NEW S, Datable(S), NEW es \in Seq(S)
  PROVE  \E w : Batched(w, es, S)
<1> DEFINE n == Len(es)
<1>0. n \in Nat /\ DOMAIN es = 1 .. n /\ \A i \in 1 .. n : es[i] \in S
  OBVIOUS
<1>1. PICK p : PlacesAlong(p, es, <<>>, Dated(S)) /\ FoldLeft(Place, <<>>, es) = p[n]
  <2>1. <<>> \in Dated(S)
    BY EmptyTells
  <2>2. \A v \in Dated(S), e \in S : Place(v, e) \in Dated(S)
    BY Places DEF Placed
  <2>3. QED BY <2>1, <2>2, FoldPlaces
<1>2. PICK q :
           /\ UpsertsAlong(q, es, EmptyManifest, Tellings(S, {}))
           /\ FoldLeft(UpsertShard, EmptyManifest, es) = q[n]
  <2>1. EmptyManifest \in Tellings(S, {})
    BY EmptyTells DEF Tellings
  <2>2. ASSUME NEW v \in Tellings(S, {}), NEW e \in S
        PROVE  UpsertShard(v, e) \in Tellings(S, {})
    <3>1. PICK s \in Dated(S) : v = Telling(s, {})
      BY DEF Tellings
    <3>2. Upserted(v, s, e, {}, S)
      BY <3>1, TellingParts, Upserts
    <3>3. QED BY <3>2 DEF Upserted, Sorted, Tellings
  <2>3. QED BY <2>1, <2>2, FoldUpserts
<1>3. /\ \A k \in 0 .. n : p[k] \in Dated(S)
      /\ p[0] = <<>> /\ \A k \in 1 .. n : p[k] = Place(p[k - 1], es[k])
  BY <1>1 DEF PlacesAlong
<1>4. q[0] = EmptyManifest /\ \A k \in 1 .. n : q[k] = UpsertShard(q[k - 1], es[k])
  BY <1>2 DEF UpsertsAlong
<1> DEFINE Upto(k) == /\ q[k] = Telling(ByDate(p[k]), {})
                      /\ Dates(p[k]) = {es[i].date : i \in 1 .. k}
           T == {k \in Nat : k <= n => Upto(k)}
<1>5. 0 \in T
  <2>1. Dates(<<>>) = {}
    BY DEF Dates, Range
  <2>2. 1 .. 0 = {}
    OBVIOUS
  <2>3. QED BY <1>3, <1>4, <2>1, <2>2, EmptyTells
<1>6. ASSUME NEW k \in Nat, k \in T
      PROVE  k + 1 \in T
  <2> SUFFICES ASSUME k + 1 <= n
               PROVE  Upto(k + 1)
    OBVIOUS
  <2>1. k \in 0 .. n /\ k + 1 \in 1 .. n /\ k + 1 \in 0 .. n /\ (k + 1) - 1 = k
    BY <1>0
  <2>2. Upto(k)
    BY <1>6, <2>1
  <2> DEFINE s == p[k]
             e == es[k + 1]
             b == ByDate(s)
  <2>3. /\ s \in Dated(S) /\ e \in S /\ p[k + 1] = Place(s, e)
        /\ q[k + 1] = UpsertShard(q[k], e) /\ q[k] = Telling(b, {})
    BY <1>0, <1>3, <1>4, <2>1, <2>2
  <2> HIDE DEF s, e, T
  <2>4. Sorted(b, s, S)
    BY <2>3, Sorts
  <2>5. b \in Dated(S) /\ Range(b) = Range(s)
    BY <2>4 DEF Sorted
  <2> HIDE DEF b
  <2>6. Upserted(q[k], b, e, {}, S)
    BY <2>3, <2>5, TellingParts, Upserts
  <2>7. Placed(Place(s, e), s, e, S)
    BY <2>3, Places
  <2>8. ByDate(Place(b, e)) = ByDate(Place(s, e))
    <3>1. Place(b, e) \in Dated(S) /\ Place(s, e) \in Dated(S) /\ Range(Place(b, e)) = Range(Place(s, e))
      BY <2>5, <2>6, <2>7 DEF Upserted, Placed
    <3>2. QED BY <3>1, SortsAlike
  <2>9. q[k + 1] = Telling(ByDate(p[k + 1]), {})
    BY <2>3, <2>6, <2>8 DEF Upserted
  <2>10. Dates(p[k + 1]) = {es[i].date : i \in 1 .. k + 1}
    <3>1. Range(p[k + 1]) = Put(Range(s), e)
      BY <2>3, <2>7 DEF Placed
    <3>2. {f.date : f \in Put(Range(s), e)} = {f.date : f \in Range(s)} \cup {e.date}
      BY DEF Put
    <3>3. {f.date : f \in Range(s)} = {es[i].date : i \in 1 .. k}
      BY <2>2 DEF Dates, s
    <3>4. {es[i].date : i \in 1 .. k + 1} = {es[i].date : i \in 1 .. k} \cup {e.date}
      <4>1. \A i : i \in 1 .. k + 1 <=> i \in 1 .. k \/ i = k + 1
        OBVIOUS
      <4>2. QED BY <4>1 DEF e
    <3>5. QED BY <3>1, <3>2, <3>3, <3>4 DEF Dates
  <2>11. QED BY <2>9, <2>10
<1>7. Upto(n)
  <2> HIDE DEF T
  <2>1. \A k \in Nat : k \in T
    BY <1>5, <1>6, Inductively
  <2>2. n \in T
    BY <1>0, <2>1
  <2>3. QED BY <1>0, <2>2 DEF T
<1>8. Dates(es) = {es[i].date : i \in 1 .. n}
  BY <1>0 DEF Dates, Range
<1> DEFINE w == p[n]
<1>9. w \in Dated(S)
  BY <1>0, <1>3
<1>10. SetShardsBatch(EmptyManifest, es) = Telling(ByDate(w), {})
  <2> DEFINE t == ByDate(w)
  <2>1. SetShardsBatch(EmptyManifest, es) = Spanning(t, [EmptyManifest EXCEPT !.kind = EmptyManifest.kind])
    BY <1>1 DEF SetShardsBatch
  <2> HIDE DEF t, w
  <2>2. [EmptyManifest EXCEPT !.kind = EmptyManifest.kind] = EmptyManifest
    BY DEF EmptyManifest
  <2>3. Spanning(t, EmptyManifest) = Telling(t, {})
    <3>1. Spanning(t, EmptyManifest) =
            [shards |-> t, first |-> IF t = <<>> THEN "max" ELSE t[1].first,
                           last  |-> IF t = <<>> THEN "min" ELSE Last(t).last, kind |-> {}]
      <4>1. /\ EmptyManifest = [shards |-> EmptyManifest.shards, first |-> EmptyManifest.first,
                                 last |-> EmptyManifest.last, kind |-> EmptyManifest.kind]
            /\ EmptyManifest.first = "max" /\ EmptyManifest.last = "min" /\ EmptyManifest.kind = {}
        BY DEF EmptyManifest
      <4>2. Spanning(t, EmptyManifest) =
              [shards |-> t, first |-> IF t = <<>> THEN EmptyManifest.first ELSE t[1].first,
                             last  |-> IF t = <<>> THEN EmptyManifest.last ELSE Last(t).last,
                             kind  |-> EmptyManifest.kind]
        BY <4>1, SpanningOf
      <4>3. QED BY <4>1, <4>2
    <3>2. QED BY <3>1 DEF Telling
  <2>4. QED BY <2>1, <2>2, <2>3 DEF t
<1>11. Batched(w, es, S)
  BY <1>2, <1>7, <1>8, <1>9, <1>10 DEF Batched
<1>12. QED BY <1>11

-----------------------------------------------------------------------------
(* A rescan.                                                               *)
LEMMA AppendsDated ==
  ASSUME NEW S, NEW s \in Seq(S), NEW e \in S
  PROVE  /\ Append(s, e) \in Seq(S) /\ Range(Append(s, e)) = Range(s) \cup {e}
         /\ Append(s, e) \in Dated(S) <=> s \in Dated(S) /\ \A f \in Range(s) : f.date # e.date
<1> DEFINE n == Len(s)
           t == Append(s, e)
<1>1. n \in Nat /\ DOMAIN s = 1 .. n /\ Range(s) = {s[i] : i \in 1 .. n}
  <2>1. n \in Nat /\ DOMAIN s = 1 .. n
    OBVIOUS
  <2>2. QED BY <2>1 DEF Range
<1>2. /\ t \in Seq(S) /\ DOMAIN t = 1 .. n + 1 /\ t[n + 1] = e
      /\ \A i \in 1 .. n : t[i] = s[i]
  OBVIOUS
<1> HIDE DEF t
<1>3. /\ \A i \in 1 .. n + 1 : i \in 1 .. n \/ i = n + 1
      /\ n + 1 \in 1 .. n + 1 /\ \A i \in 1 .. n : i \in 1 .. n + 1 /\ i # n + 1
  BY <1>1
<1>4. Range(t) = {t[i] : i \in 1 .. n + 1}
  BY <1>2 DEF Range
<1>5. Range(t) = Range(s) \cup {e}
  BY <1>1, <1>2, <1>3, <1>4
<1>6. t \in Dated(S) <=> \A i, j \in 1 .. n + 1 : t[i].date = t[j].date => i = j
  BY <1>2 DEF Dated
<1>7. s \in Dated(S) <=> \A i, j \in 1 .. n : s[i].date = s[j].date => i = j
  BY <1>1 DEF Dated
<1>8. ASSUME t \in Dated(S)
      PROVE  s \in Dated(S) /\ \A f \in Range(s) : f.date # e.date
  BY <1>1, <1>2, <1>3, <1>6, <1>7, <1>8
<1>9. ASSUME s \in Dated(S), \A f \in Range(s) : f.date # e.date
      PROVE  t \in Dated(S)
  BY <1>1, <1>2, <1>3, <1>6, <1>7, <1>9
<1>10. QED BY <1>2, <1>5, <1>8, <1>9 DEF t

Retained(o, s, A, S) ==
  o \in Dated(S) /\ Range(o) = Range(s) \cap A /\ (Range(s) \subseteq A => o = s)

LEMMA Retains ==
  ASSUME NEW S, NEW s \in Dated(S), NEW A
  PROVE  Retained(Retain(s, A), s, A, S)
<1> DEFINE T == {t \in Seq(S) : t \in Dated(S) =>
                   Only(t, A) \in Dated(S) /\ Range(Only(t, A)) = Range(t) \cap A}
<1>1. <<>> \in T
  <2>1. Only(<<>>, A) = <<>> /\ Range(<<>>) = {} /\ <<>> \in Seq(S)
    <3>1. <<>> \in Seq(S)
      OBVIOUS
    <3>2. QED BY <3>1, OnlyNone DEF Range
  <2>2. QED BY <2>1
<1>2. ASSUME NEW t \in Seq(S), NEW m \in S, t \in T
      PROVE  Append(t, m) \in T
  <2>1. Append(t, m) \in Seq(S)
    BY AppendsDated
  <2> SUFFICES ASSUME Append(t, m) \in Dated(S)
               PROVE  /\ Only(Append(t, m), A) \in Dated(S)
                      /\ Range(Only(Append(t, m), A)) = Range(Append(t, m)) \cap A
    BY <2>1
  <2>2. t \in Dated(S) /\ (\A f \in Range(t) : f.date # m.date) /\ Range(Append(t, m)) = Range(t) \cup {m}
    BY AppendsDated
  <2>3. Only(t, A) \in Dated(S) /\ Range(Only(t, A)) = Range(t) \cap A
    BY <1>2, <2>2
  <2>4. Only(Append(t, m), A) = IF m \in A THEN Append(Only(t, A), m) ELSE Only(t, A)
    BY OnlyEnds DEF EndingStep
  <2>5. Only(t, A) \in Seq(S)
    BY <2>3 DEF Dated
  <2>6. CASE m \in A
    <3>1. /\ Append(Only(t, A), m) \in Dated(S)
          /\ Range(Append(Only(t, A), m)) = Range(Only(t, A)) \cup {m}
      BY <2>2, <2>3, <2>5, AppendsDated
    <3>2. QED BY <2>2, <2>3, <2>4, <2>6, <3>1
  <2>7. CASE m \notin A
    BY <2>2, <2>3, <2>4, <2>7
  <2>8. QED BY <2>6, <2>7
<1> HIDE DEF T
<1>3. s \in Seq(S)
  BY DEF Dated
<1>4. s \in T
  BY <1>1, <1>2, <1>3, SeqInductively
<1>5. Retain(s, A) = Only(s, A)
  BY DEF Retain, Only
<1>6. Range(s) \subseteq A => Only(s, A) = s
  <2>1. s \in Seq(Range(s))
    <3>1. \A i \in DOMAIN s : s[i] \in Range(s)
      BY DEF Range
    <3>2. QED BY <1>3, <3>1, Valued
  <2>2. QED BY <2>1, OnlyInside
<1>7. QED BY <1>4, <1>5, <1>6 DEF T, Retained

Runs(q, u, o, base, found, k, S) ==
  /\ q = FoldLeft(UpsertShard, base, found)
  /\ u \in Dated(S) /\ Range(u) = Range(o) \cup Range(found)
  /\ found = <<>> => q = base
  /\ found # <<>> => q = Telling(u, k) /\ \E w \in Dated(S) : u = ByDate(w)

LEMMA UpsertsRun ==
  ASSUME NEW S, Datable(S), NEW k, NEW found \in Dated(S), NEW o \in Dated(S),
         \A e \in Range(o) : e.date \notin Dates(found),
         NEW base, base = [shards |-> o, first |-> base.first, last |-> base.last, kind |-> k]
  PROVE  \E q, u : Runs(q, u, o, base, found, k, S)
<1> DEFINE n == Len(found)
<1>0. /\ found \in Seq(S) /\ n \in Nat /\ DOMAIN found = 1 .. n /\ \A i \in 1 .. n : found[i] \in S
      /\ \A i, j \in 1 .. n : found[i].date = found[j].date => i = j
  <2>1. found \in Seq(S) /\ \A i, j \in DOMAIN found : found[i].date = found[j].date => i = j
    BY DEF Dated
  <2>2. QED BY <2>1
<1>1. Range(found) = {found[i] : i \in 1 .. n}
  BY <1>0 DEF Range
<1> DEFINE V == Tellings(S, k) \cup {base}
<1>5. PICK q : UpsertsAlong(q, found, base, V) /\ FoldLeft(UpsertShard, base, found) = q[n]
  <2>1. ASSUME NEW v \in V, NEW e \in S
        PROVE  UpsertShard(v, e) \in Tellings(S, k)
    <3>1. CASE v = base
      <4>1. Upserted(v, o, e, k, S)
        BY <3>1, Upserts
      <4>2. QED BY <4>1 DEF Upserted, Sorted, Tellings
    <3>2. CASE v \in Tellings(S, k)
      <4>1. PICK t \in Dated(S) : v = Telling(t, k)
        BY <3>2 DEF Tellings
      <4>2. Upserted(v, t, e, k, S)
        BY <4>1, TellingParts, Upserts
      <4>3. QED BY <4>2 DEF Upserted, Sorted, Tellings
    <3>3. QED BY <3>1, <3>2
  <2>2. base \in V
    OBVIOUS
  <2>3. \A v \in V, e \in S : UpsertShard(v, e) \in V
    BY <2>1
  <2> HIDE DEF V
  <2>4. \E p : UpsertsAlong(p, found, base, V) /\ FoldLeft(UpsertShard, base, found) = p[Len(found)]
    <3>1. found \in Seq(S)
      BY <1>0
    <3>2. QED BY ONLY <2>2, <2>3, <3>1, FoldUpserts
  <2>5. QED BY <2>4
<1>6. q[0] = base /\ \A j \in 1 .. n : q[j] = UpsertShard(q[j - 1], found[j])
  BY <1>5 DEF UpsertsAlong
<1> HIDE DEF V
<1> DEFINE FoundUpto(j) == Range(o) \cup {found[i] : i \in 1 .. j}
           Is(t, j) == /\ \E a, b : q[j] = [shards |-> t, first |-> a, last |-> b, kind |-> k]
                       /\ Range(t) = FoundUpto(j)
                       /\ j > 0 => q[j] = Telling(t, k) /\ \E w \in Dated(S) : t = ByDate(w)
           T == {j \in Nat : j <= n => \E t \in Dated(S) : Is(t, j)}
<1>7. 0 \in T
  <2>1. 1 .. 0 = {}
    OBVIOUS
  <2>2. Range(o) = FoundUpto(0)
    BY <2>1
  <2> HIDE DEF FoundUpto
  <2>5. \E a, b : q[0] = [shards |-> o, first |-> a, last |-> b, kind |-> k]
    BY <1>6
  <2>6. ~(0 > 0)
    OBVIOUS
  <2>3. Is(o, 0)
    BY <2>2, <2>5, <2>6
  <2> HIDE DEF Is
  <2>4. QED BY <2>3
<1>8. ASSUME NEW j \in Nat, j \in T
      PROVE  j + 1 \in T
  <2> SUFFICES ASSUME j + 1 <= n
               PROVE  \E t \in Dated(S) : Is(t, j + 1)
    <3> HIDE DEF Is
    <3>1. QED OBVIOUS
  <2>1. j + 1 \in 1 .. n /\ (j + 1) - 1 = j /\ j <= n
    BY <1>0
  <2> DEFINE e == found[j + 1]
  <2>2. e \in S /\ q[j + 1] = UpsertShard(q[j], e)
    BY <1>0, <1>6, <2>1
  <2>3. PICK t \in Dated(S) : Is(t, j)
    BY <1>8, <2>1
  <2>4. PICK a, b : q[j] = [shards |-> t, first |-> a, last |-> b, kind |-> k]
    BY <2>3
  <2>5. Range(t) = FoundUpto(j)
    BY <2>3
  <2> HIDE DEF T, e
  <2>6. Upserted(q[j], t, e, k, S)
    <3> HIDE DEF Is, FoundUpto
    <3>1. QED BY <2>2, <2>4, Upserts
  <2> DEFINE w == Place(t, e)
             u == ByDate(w)
  <2>7. w \in Dated(S) /\ Range(w) = Put(Range(t), e)
    BY <2>6 DEF Upserted, Placed
  <2>8. u \in Dated(S) /\ Range(u) = Range(w) /\ q[j + 1] = Telling(u, k)
    BY <2>2, <2>6 DEF Upserted, Sorted
  <2> HIDE DEF w
  <2>9. \A f \in FoundUpto(j) : f.date # e.date
    <3>1. e.date \in Dates(found)
      BY <1>1, <2>1 DEF Dates, e
    <3>2. \A f \in Range(o) : f.date # e.date
      BY <3>1
    <3>3. \A i \in 1 .. j : found[i].date # e.date
      <4>1. \A i \in 1 .. j : i \in 1 .. n /\ i # j + 1
        BY <1>0, <2>1
      <4>2. QED BY <1>0, <2>1, <4>1 DEF e
    <3>4. QED BY <3>2, <3>3
  <2>10. Put(Range(t), e) = FoundUpto(j) \cup {e}
    BY <2>5, <2>9 DEF Put
  <2>11. FoundUpto(j + 1) = FoundUpto(j) \cup {e}
    <3>1. \A i : i \in 1 .. j + 1 <=> i \in 1 .. j \/ i = j + 1
      OBVIOUS
    <3>2. QED BY <3>1 DEF e
  <2>12. Range(u) = FoundUpto(j + 1)
    BY <2>7, <2>8, <2>10, <2>11
  <2> HIDE DEF FoundUpto
  <2>13. \E a1, b1 : q[j + 1] = [shards |-> u, first |-> a1, last |-> b1, kind |-> k]
    BY <2>8, TellingParts
  <2>14. \E w1 \in Dated(S) : u = ByDate(w1)
    BY <2>7
  <2> HIDE DEF u
  <2>15. Is(u, j + 1)
    BY <2>8, <2>12, <2>13, <2>14
  <2> HIDE DEF Is
  <2>16. QED BY <2>8, <2>15
<1>9. \E t \in Dated(S) : Is(t, n)
  <2> HIDE DEF T, Is
  <2>1. \A j \in Nat : j \in T
    BY <1>7, <1>8, Inductively
  <2>2. QED BY <1>0, <2>1 DEF T
<1>10. PICK u \in Dated(S) : Is(u, n)
  BY <1>9
<1>11. Range(u) = Range(o) \cup Range(found)
  BY <1>1, <1>10
<1>12. CASE found = <<>>
  <2>1. n = 0
    BY <1>12
  <2>2. QED BY <1>5, <1>6, <1>11, <1>12, <2>1 DEF Runs
<1>13. CASE found # <<>>
  <2>1. n > 0
    BY <1>0, <1>13
  <2>2. q[n] = Telling(u, k) /\ \E w \in Dated(S) : u = ByDate(w)
    BY <1>10, <2>1
  <2>3. QED BY <1>5, <1>11, <1>13, <2>2 DEF Runs
<1>14. QED BY <1>12, <1>13

Others(s, found) == {e \in Range(s) : e.date \notin Dates(found)}
Rescanned(u, s, found, S) ==
  /\ u \in Dated(S) /\ Range(u) = Others(s, found) \cup Range(found)
  /\ IF found = <<>> THEN u = s ELSE \E w \in Dated(S) : u = ByDate(w)

RescannedAs(u, s, k, found, x, S) ==
  /\ Rescanned(u, s, found, S)
  /\ RefreshKind(Telling(s, k), found, x) = Telling(u, k \cup {x})

LEMMA Rescans ==
  ASSUME NEW S, Datable(S), NEW s \in Dated(S), NEW k, NEW found \in Dated(S), NEW x
  PROVE  \E u : RescannedAs(u, s, k, found, x, S)
<1> DEFINE m == Telling(s, k)
           o == Retain(s, Others(s, found))
           base == [m EXCEPT !.shards = o]
<1>2. /\ o \in Dated(S) /\ Range(o) = Others(s, found)
      /\ Range(s) \subseteq Others(s, found) => o = s
  <2>1. Retained(o, s, Others(s, found), S)
    BY Retains
  <2>2. QED BY <2>1 DEF Retained, Others
<1>3. /\ base = [shards |-> o, first |-> base.first, last |-> base.last, kind |-> k]
      /\ o = s => base = m
  BY DEF Telling
<1>4. RefreshKind(m, found, x) = WithKind(FoldLeft(UpsertShard, base, found), x)
  <2>1. m.shards = s
    BY TellingParts
  <2>2. QED BY <2>1 DEF RefreshKind, Others, WithKind
<1> HIDE DEF m, o, base
<1>5. PICK q, u : Runs(q, u, o, base, found, k, S)
  <2>1. \A e \in Range(o) : e.date \notin Dates(found)
    BY <1>2 DEF Others
  <2>2. base = [shards |-> o, first |-> base.first, last |-> base.last, kind |-> k]
    BY <1>3
  <2>3. QED BY <1>2, <2>1, <2>2, UpsertsRun
<1>11. u \in Dated(S) /\ Range(u) = Others(s, found) \cup Range(found)
  BY <1>2, <1>5 DEF Runs
<1>12. CASE found = <<>>
  <2>2. Others(s, found) = Range(s) /\ Range(found) = {}
    BY <1>12 DEF Others, Dates, Range
  <2>3. o = s /\ base = m
    BY <1>2, <1>3, <2>2
  <2>4. RefreshKind(m, found, x) = WithKind(m, x)
    BY <1>4, <1>5, <1>12, <2>3 DEF Runs
  <2>5. WithKind(m, x) = Telling(s, k \cup {x})
    BY KindTold DEF m
  <2>6. Rescanned(s, s, found, S)
    BY <1>12, <2>2 DEF Rescanned
  <2>7. QED BY <2>4, <2>5, <2>6 DEF m, RescannedAs
<1>13. CASE found # <<>>
  <2>2. q = Telling(u, k) /\ \E w \in Dated(S) : u = ByDate(w)
    BY <1>5, <1>13 DEF Runs
  <2>4. RefreshKind(m, found, x) = Telling(u, k \cup {x})
    BY <1>4, <1>5, <2>2, KindTold DEF Runs
  <2>5. Rescanned(u, s, found, S)
    BY <1>11, <1>13, <2>2 DEF Rescanned
  <2>6. QED BY <2>4, <2>5 DEF m, RescannedAs
<1>14. QED BY <1>12, <1>13

-----------------------------------------------------------------------------
(* shard.rs:901, refresh_kind: a batch is the upserts one by one, whatever *)
(* the entries and their order; a rescan keeps one entry per day in order, *)
(* tells every shard found, forgets no other day, and is idempotent.       *)
THEOREM RebuildsAgree ==
  ASSUME NEW S, Datable(S), NEW es \in Seq(S), NEW found \in Dated(S)
  PROVE  ManifestsAgree(es, found)
<1> DEFINE m == SetShardsBatch(EmptyManifest, es)
           r == RefreshKind(m, found, "s10")
           k == {"s10"}
<1>1. PICK w : Batched(w, es, S)
  BY BatchAgrees
<1> DEFINE s == ByDate(w)
<1>2. /\ m = Telling(s, {}) /\ m = FoldLeft(UpsertShard, EmptyManifest, es)
      /\ w \in Dated(S) /\ Dates(w) = Dates(es)
  BY <1>1 DEF Batched
<1>3. s \in Dated(S) /\ Range(s) = Range(w) /\ InOrder(s)
  BY <1>2, Sorts DEF Sorted
<1> HIDE DEF m, r, s
<1>4. PICK u :
           /\ Rescanned(u, s, found, S)
           /\ RefreshKind(Telling(s, {}), found, "s10") = Telling(u, {} \cup k)
  <2>1. \E u : RescannedAs(u, s, {}, found, "s10", S)
    BY <1>3, Rescans
  <2>2. QED BY <2>1 DEF RescannedAs
<1>5. /\ u \in Dated(S) /\ Range(u) = Others(s, found) \cup Range(found)
      /\ found = <<>> => u = s
      /\ found # <<>> => \E w1 \in Dated(S) : u = ByDate(w1)
  BY <1>4 DEF Rescanned
<1>6. r = Telling(u, k) /\ r.shards = u /\ m.shards = s
  BY <1>2, <1>4, TellingParts DEF r
<1>7. InOrder(u)
  <2>1. CASE found = <<>>
    BY <1>3, <1>5, <2>1
  <2>2. CASE found # <<>>
    BY <1>5, <2>2, Sorts DEF Sorted
  <2>3. QED BY <2>1, <2>2
<1>8. Dates(u) = Dates(es) \cup Dates(found)
  <2>1. Dates(s) = Dates(es)
    BY <1>2, <1>3 DEF Dates
  <2>2. \A d : d \in Dates(s) \/ d \in Dates(found) => d \in Dates(u)
    BY <1>5 DEF Dates, Others
  <2>3. \A d \in Dates(u) : d \in Dates(s) \/ d \in Dates(found)
    BY <1>5 DEF Dates, Others
  <2>4. QED BY <2>1, <2>2, <2>3
<1>9. ASSUME NEW d \in Dates(u)
      PROVE  {e \in Range(u) : e.date = d} \in
               {{e \in Range(found) : e.date = d}, {e \in Range(s) : e.date = d}}
  <2>1. CASE d \in Dates(found)
    <3>1. \A e \in Others(s, found) : e.date # d
      BY <2>1 DEF Others
    <3>2. {e \in Range(u) : e.date = d} = {e \in Range(found) : e.date = d}
      BY <1>5, <3>1
    <3>3. QED BY <3>2
  <2>2. CASE d \notin Dates(found)
    <3>1. \A e \in Range(found) : e.date # d
      BY <2>2 DEF Dates
    <3>2. {e \in Range(u) : e.date = d} = {e \in Range(s) : e.date = d}
      BY <1>5, <2>2, <3>1 DEF Others
    <3>3. QED BY <3>2
  <2>3. QED BY <2>1, <2>2
<1>10. RefreshKind(r, found, "s10") = r
  <2>1. PICK v :
             /\ Rescanned(v, u, found, S)
             /\ RefreshKind(Telling(u, k), found, "s10") = Telling(v, k \cup {"s10"})
    <3>1. \E v : RescannedAs(v, u, k, found, "s10", S)
      BY <1>5, Rescans
    <3>2. QED BY <3>1 DEF RescannedAs
  <2>2. /\ v \in Dated(S) /\ Range(v) = Others(u, found) \cup Range(found)
        /\ found = <<>> => v = u
        /\ found # <<>> => \E w1 \in Dated(S) : v = ByDate(w1)
    BY <2>1 DEF Rescanned
  <2>3. Range(v) = Range(u)
    <3>1. Others(u, found) = Others(s, found)
      BY <1>5 DEF Others, Dates
    <3>2. QED BY <1>5, <2>2, <3>1
  <2>4. v = u
    <3>1. CASE found = <<>>
      BY <2>2, <3>1
    <3>2. CASE found # <<>>
      <4>1. PICK a \in Dated(S) : u = ByDate(a)
        BY <1>5, <3>2
      <4>2. PICK b \in Dated(S) : v = ByDate(b)
        BY <2>2, <3>2
      <4>3. Range(u) = Range(a) /\ Range(v) = Range(b)
        BY <4>1, <4>2, Sorts DEF Sorted
      <4>4. QED BY <2>3, <4>1, <4>2, <4>3, SortsAlike
    <3>3. QED BY <3>1, <3>2
  <2>5. k \cup {"s10"} = k
    OBVIOUS
  <2>6. QED BY <1>6, <2>1, <2>4, <2>5
<1>11. Range(found) \subseteq Range(u)
  BY <1>5
<1>12. QED BY <1>2, <1>6, <1>7, <1>8, <1>9, <1>10, <1>11 DEF ManifestsAgree, InOrder, m, r

-----------------------------------------------------------------------------
(* Owners.                                                                 *)
Stored(f) ==
  \/ <<f.tree, f.ext>> \in DailyTrees
  \/ f.ext = "json" /\ f.tree \in {"indexes", "bars"}
  \/ f = VolPath(f.id)

LEMMA VolPaths ==
  ASSUME NEW a, NEW b
  PROVE  /\ VolPath(a).id = a /\ VolPath(a).ext = "vol" /\ VolPath(a).tree = "vol"
         /\ a # b => VolPath(a) # VolPath(b)
<1>1. \A c : VolPath(c).id = c /\ VolPath(c).ext = "vol" /\ VolPath(c).tree = "vol"
  BY DEF VolPath
<1>2. QED BY <1>1

(* shard.rs:463: every record file of a store has one owner, and to rename *)
(* a .vol leaves the files of every other ticker alone.                    *)
THEOREM OwnersPart ==
  ASSUME NEW disk, IsFiniteSet(disk), \A f \in disk : Stored(f)
  PROVE  OwnersPartition(disk)
<1> DEFINE ids == StoredTickerIds(disk)
           owned(d, id) == TickerArtifacts(d, id)
<1>1. \A f \in disk : f.ext # "json" <=> (<<f.tree, f.ext>> \in DailyTrees \/ f = VolPath(f.id))
  <2>1. TAKE f \in disk
  <2>2. <<f.tree, f.ext>> \in DailyTrees => f.ext \in {"idx", "s10", "renko"}
    BY DEF DailyTrees
  <2>3. f = VolPath(f.id) => f.ext = "vol"
    BY VolPaths
  <2>4. QED BY <2>2, <2>3 DEF Stored
<1>2. \A f \in disk : f.id \in ids
  <2>1. TAKE f \in disk
  <2>2. <<f.tree, f.ext>> \in DailyTrees => f.tree \in {"indexes", "bars"}
    BY DEF DailyTrees
  <2>3. QED BY <2>2 DEF Stored, StoredTickerIds
<1>3. UNION {owned(disk, id) : id \in ids} = {f \in disk : f.ext # "json"}
  <2>1. ASSUME NEW f \in disk, f.ext # "json"
        PROVE  f \in owned(disk, f.id) /\ f.id \in ids
    BY <1>1, <1>2, <2>1 DEF TickerArtifacts
  <2>2. ASSUME NEW id \in ids, NEW f \in owned(disk, id)
        PROVE  f \in disk /\ f.ext # "json"
    BY <1>1 DEF TickerArtifacts
  <2> HIDE DEF ids, owned
  <2>3. QED BY <2>1, <2>2
<1>4. ASSUME NEW a \in ids, NEW b \in ids
      PROVE  /\ a # b => owned(disk, a) \cap owned(disk, b) = {}
             /\ Cardinality(RenameVol(disk, a, b)) = Cardinality(disk)
             /\ \A c \in ids \ {a, b} : owned(RenameVol(disk, a, b), c) = owned(disk, c)
             /\ owned(disk, b) \subseteq owned(RenameVol(disk, a, b), b)
  <2>1. a # b => owned(disk, a) \cap owned(disk, b) = {}
    BY DEF TickerArtifacts
  <2>2. CASE ~CanRenameVol(disk, a, b)
    BY <2>1, <2>2 DEF RenameVol
  <2>3. CASE CanRenameVol(disk, a, b)
    <3> DEFINE p == VolPath(a)
               q == VolPath(b)
               moved == (disk \ {p}) \cup {q}
    <3>1. p \in disk /\ q \notin disk /\ p # q /\ p.id = a /\ q.id = b /\ a # b /\ q = VolPath(q.id)
      BY <2>3, VolPaths DEF CanRenameVol
    <3>2. RenameVol(disk, a, b) = moved
      BY <2>3 DEF RenameVol
    <3> HIDE DEF p, q
    <3>3. Cardinality(moved) = Cardinality(disk)
      <4>1. /\ IsFiniteSet(disk \ {p}) /\ Cardinality(disk) \in Nat /\ Cardinality(disk \ {p}) \in Nat
            /\ Cardinality(disk \ {p}) = Cardinality(disk) - 1
        BY <3>1, Removed
      <4>2. q \notin disk \ {p}
        BY <3>1
      <4>3. Cardinality(moved) = Cardinality(disk \ {p}) + 1
        BY <4>1, <4>2, Added
      <4>4. QED BY <4>1, <4>3
    <3>4. \A c \in ids \ {a, b} : owned(moved, c) = owned(disk, c)
      BY <3>1 DEF TickerArtifacts
    <3>5. owned(disk, b) \subseteq owned(moved, b)
      BY <3>1 DEF TickerArtifacts
    <3> HIDE DEF owned, ids, moved
    <3>6. QED BY <2>1, <3>2, <3>3, <3>4, <3>5
  <2>4. QED BY <2>2, <2>3
<1>5. QED BY <1>3, <1>4 DEF OwnersPartition

-----------------------------------------------------------------------------
(* What the rescans and the migrations are given: entries that have a      *)
(* date, and files of a kind that some process writes.                     *)
AnyEntry == [date : Nat, first : Nat, last : Nat]

LEMMA SomeGiven ==
  ASSUME NEW es \in SomeEntries, NEW found \in Found
  PROVE  ManifestsAgree(es, found)
<1>1. Datable(AnyEntry)
  BY DEF Datable, AnyEntry
<1>2. es \in Seq(AnyEntry)
  <2> DEFINE D == [date : 1 .. 3, first : {1}, last : {2, 3}]
  <2>1. PICK n \in 0 .. 4 : es \in [1 .. n -> D]
    BY DEF SomeEntries, BoundedSeq, SeqOf
  <2>2. D \subseteq AnyEntry
    BY DEF AnyEntry
  <2> HIDE DEF D
  <2>3. n \in Nat /\ es \in [1 .. n -> AnyEntry]
    BY <2>1, <2>2
  <2>4. QED BY <2>3
<1>3. found \in Dated(AnyEntry)
  <2> DEFINE a == [date |-> 2, first |-> 5, last |-> 6]
             b == [date |-> 1, first |-> 4, last |-> 6]
             c == [date |-> 4, first |-> 7, last |-> 7]
  <2>1. found = <<>> \/ found = <<a>> \/ found = <<b, c>>
    BY DEF Found
  <2>2. a \in AnyEntry /\ b \in AnyEntry /\ c \in AnyEntry /\ b.date = 1 /\ c.date = 4
    BY DEF AnyEntry
  <2> HIDE DEF a, b, c
  <2>3. found \in Seq(AnyEntry)
    <3>1. CASE found = <<>>
      BY <3>1
    <3>2. CASE found = <<a>>
      BY <2>2, <3>2
    <3>3. CASE found = <<b, c>>
      BY <2>2, <3>3
    <3>4. QED BY <2>1, <3>1, <3>2, <3>3
  <2>4. ASSUME NEW i \in DOMAIN found, NEW j \in DOMAIN found, found[i].date = found[j].date
        PROVE  i = j
    <3>1. CASE Len(found) <= 1
      BY <2>3, <2>4, <3>1
    <3>2. CASE found = <<b, c>>
      <4>1. i \in {1, 2} /\ j \in {1, 2} /\ found[1] = b /\ found[2] = c
        BY <3>2
      <4>2. QED BY <4>1, <2>2, <2>4
    <3>3. QED BY <2>1, <3>1, <3>2
  <2>5. QED BY <2>3, <2>4 DEF Dated
<1>4. QED BY <1>1, <1>2, <1>3, RebuildsAgree

LEMMA PairFinite ==
  ASSUME NEW x, NEW y
  PROVE  IsFiniteSet({x, y})
<1>1. IsFiniteSet({x} \cup {y})
  BY FS_Singleton, FS_AddElement
<1>2. {x} \cup {y} = {x, y}
  OBVIOUS
<1>3. QED BY <1>1, <1>2

LEMMA SomeOwned ==
  ASSUME NEW disk \in SUBSET SomeFiles
  PROVE  OwnersPartition(disk)
<1> DEFINE a == [tree |-> "indexes", ext |-> "idx", id |-> 1, date |-> 1]
           b == [tree |-> "bars", ext |-> "s10", id |-> 1, date |-> 1]
           c == [tree |-> "bars", ext |-> "renko", id |-> 2, date |-> 1]
           d == [tree |-> "bars", ext |-> "renko", id |-> 1, date |-> 1]
           e == [tree |-> "bars", ext |-> "json", id |-> 2, date |-> Rolling]
           v(i) == VolPath(i)
<1>1. SomeFiles = {a, b, c, d, e, v(1), v(2), v(3)}
  BY DEF SomeFiles
<1>2. Stored(a) /\ Stored(b) /\ Stored(c) /\ Stored(d) /\ Stored(e)
  BY DEF Stored, DailyTrees
<1>3. \A i : Stored(v(i))
  BY VolPaths DEF Stored
<1> HIDE DEF a, b, c, d, e, v
<1>4. IsFiniteSet(SomeFiles)
  <2>1. IsFiniteSet({a, b})
    BY PairFinite
  <2>2. IsFiniteSet({a, b, c, d})
    <3>1. IsFiniteSet({a, b} \cup {c})
      BY <2>1, FS_AddElement
    <3>2. IsFiniteSet(({a, b} \cup {c}) \cup {d})
      BY <3>1, FS_AddElement
    <3>3. ({a, b} \cup {c}) \cup {d} = {a, b, c, d}
      OBVIOUS
    <3>4. QED BY <3>2, <3>3
  <2>3. IsFiniteSet({e, v(1)})
    BY PairFinite
  <2>4. IsFiniteSet({e, v(1), v(2), v(3)})
    <3>1. IsFiniteSet({e, v(1)} \cup {v(2)})
      BY <2>3, FS_AddElement
    <3>2. IsFiniteSet(({e, v(1)} \cup {v(2)}) \cup {v(3)})
      BY <3>1, FS_AddElement
    <3>3. ({e, v(1)} \cup {v(2)}) \cup {v(3)} = {e, v(1), v(2), v(3)}
      OBVIOUS
    <3>4. QED BY <3>2, <3>3
  <2>5. IsFiniteSet({a, b, c, d} \cup {e, v(1), v(2), v(3)})
    BY <2>2, <2>4, FS_Union
  <2>6. SomeFiles = {a, b, c, d} \cup {e, v(1), v(2), v(3)}
    BY <1>1
  <2>7. QED BY <2>5, <2>6
<1>5. IsFiniteSet(disk)
  BY <1>4, FS_Subset
<1>6. \A f \in disk : Stored(f)
  BY <1>1, <1>2, <1>3
<1>7. QED BY <1>5, <1>6, OwnersPart

-----------------------------------------------------------------------------
(* All the bars.                                                           *)
GivenKnown ==
  /\ part = "entries" /\ given # <<>> => given \in SomeEntries \X Found
  /\ part = "owners" /\ given # <<>> => given \in {<<disk>> : disk \in SUBSET SomeFiles}
BarsInv == BarInv /\ RenInv /\ ReaderInv /\ GivenKnown

LEMMA PartsSteps ==
  ASSUME [BarsNext]_<<part, given, vars, barVars, renVars, streamVars>>
  PROVE  /\ [Next]_vars /\ [BarNext]_barVars /\ [RenNext]_renVars /\ [StreamNext]_streamVars
         /\ UNCHANGED part
         /\ \/ UNCHANGED given
            \/ given = <<>> /\ part = "entries" /\ given' \in SomeEntries \X Found
            \/ /\ given = <<>> /\ part = "owners"
               /\ given' \in {<<disk>> : disk \in SUBSET SomeFiles}
BY DEF BarsNext

LEMMA BarsInvHolds == BarsSpec => []BarsInv
<1>1. BarsInit => BarsInv
  <2> SUFFICES ASSUME BarsInit
               PROVE  BarsInv
    OBVIOUS
  <2>1. BarInit /\ RenInit /\ StreamInit /\ given = <<>>
    BY DEF BarsInit
  <2>2. QED BY <2>1, BarInitInv, RenInitInv, ReaderInit DEF BarsInv, GivenKnown
<1>2. BarsInv /\ [BarsNext]_<<part, given, vars, barVars, renVars, streamVars>> => BarsInv'
  <2> SUFFICES ASSUME BarsInv, [BarsNext]_<<part, given, vars, barVars, renVars, streamVars>>
               PROVE  BarsInv'
    OBVIOUS
  <2>1. BarInv' /\ RenInv' /\ ReaderInv'
    BY PartsSteps, BarNextInv, RenNextInv, ReaderNext DEF BarsInv
  <2>2. GivenKnown'
    BY PartsSteps DEF BarsInv, GivenKnown
  <2>3. QED BY <2>1, <2>2 DEF BarsInv
<1>3. QED BY <1>1, <1>2, PTL DEF BarsSpec

(* bar_builder.rs flush, renko.rs feed_tick_with_sigma, shard.rs           *)
(* ShardStream and refresh_kind: whatever the ticks, the clock, the sizes, *)
(* the reads, the heals and the restarts, a bar tells its ticks, a tick is *)
(* counted in one brick, a stream hands out whole records once and in      *)
(* order, and the entries and the files given are told and owned.          *)
THEOREM BarsAccounted == BarsSpec => []BarsAccount
<1>1. ASSUME BarsInv
      PROVE  BarsAccount
  <2>1. BarTellsTicks /\ RenkoAccounts /\ StreamTells
    BY <1>1, ReaderTells DEF BarsInv, BarInv, RenInv
  <2>2. ASSUME part = "entries", given # <<>>
        PROVE  ManifestsAgree(given[1], given[2])
    <3>1. given[1] \in SomeEntries /\ given[2] \in Found
      BY <1>1, <2>2 DEF BarsInv, GivenKnown
    <3>2. QED BY <3>1, SomeGiven
  <2>3. ASSUME part = "owners", given # <<>>
        PROVE  OwnersPartition(given[1])
    <3>1. given[1] \in SUBSET SomeFiles
      BY <1>1, <2>3 DEF BarsInv, GivenKnown
    <3>2. QED BY <3>1, SomeOwned
  <2>4. QED BY <2>1, <2>2, <2>3 DEF BarsAccount
<1>2. QED BY <1>1, BarsInvHolds, PTL

(* Every part keeps its state in bounds, and the manifest its whole        *)
(* invariant, whatever the writers do at the same time (shard.rs           *)
(* BarShardWriter, bar_builder.rs ingest, renko.rs compute_brick_size).    *)
THEOREM BarsTyped == BarsSpec => []BarsTypeOK
<1>1. BarsInit => OwnerInv
  BY OwnerInit DEF BarsInit
<1>2. OwnerInv /\ [BarsNext]_<<part, given, vars, barVars, renVars, streamVars>> => OwnerInv'
  BY PartsSteps, OwnerNext
<1>3. BarsInv /\ OwnerInv => BarsTypeOK
  BY BarTyped, RenTyped DEF BarsInv, BarsTypeOK
<1>4. QED BY <1>1, <1>2, <1>3, BarsInvHolds, PTL DEF BarsSpec
=============================================================================

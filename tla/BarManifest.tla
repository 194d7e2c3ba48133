---------------------------- MODULE BarManifest -----------------------------
(***************************************************************************)
(* The live bar writers of one ticker: shard.rs BarShardWriter, one per    *)
(* extension (s10, renko), each with its own day files and its own lock,   *)
(* all with the one manifest.json of bars/<id>/.  finalize_manifest is a   *)
(* read, a modification and a write through manifest.json.tmp; its steps   *)
(* are separate actions: the producers of two extensions run concurrently  *)
(* (shard.rs:1580), in one process or in two, and their steps interleave.  *)
(*                                                                         *)
(* raced is history: a writer has read the manifest while another was on   *)
(* its way from reading to renaming it, and the two are not through, or    *)
(* have left a manifest behind that cannot be parsed.                      *)
(*                                                                         *)
(* UpsertKeeps, KindForgets, BarLost and WriteInPlace are wrong versions   *)
(* of the definitions that follow them: no action uses them, and the       *)
(* properties are checked to fail with them.                               *)
(***************************************************************************)
EXTENDS Naturals

CONSTANTS
  Exts,          \* the extensions with a live writer
  NoDoc,         \* no file of that name
  Torn,          \* bytes that are not a manifest
  \* bounds of the model
  LastDay, MaxBars, MaxKills

ASSUME ParamsAssumption == {LastDay, MaxBars, MaxKills} \subseteq Nat

VARIABLES
  today,         \* UTC day of the producers' clock
  bars,          \* [Exts -> [Days -> Nat]]: bars in <day>.<ext>, 0 for no file
  manifest,      \* content of manifest.json
  tmp,           \* content of manifest.json.tmp
  pc,            \* [Exts -> where the writer is]
  cur_date,      \* [Exts -> the writer's day, or NoDay]
  target,        \* [Exts -> the day the append in progress rotates to]
  after,         \* [Exts -> what follows the finalization in progress]
  doc,           \* [Exts -> the manifest it has in memory]
  fd,            \* [Exts -> the name the file it writes has now, "" for none]
  raced,
  kills

locals == <<pc, cur_date, target, after, doc, fd>>
vars   == <<today, bars, manifest, tmp, locals, raced, kills>>

Days    == 0 .. LastDay
NoDay   == LastDay + 1
Entries == [ext : Exts, n : 1 .. MaxBars]        \* ShardEntry of <day>.<ext>
Docs    == [shards : UNION {[D -> Entries] : D \in SUBSET Days}, kind : SUBSET Exts]
NewDoc  == [shards |-> [d \in {} |-> NoDoc], kind |-> {}]   \* Manifest::new
Listed(m) == DOMAIN m.shards

ASSUME DocAssumption == Torn # NoDoc /\ {Torn, NoDoc} \cap Docs = {}

(* Manifest::upsert: the entry of that date is replaced, whatever its kind.*)
UpsertKeeps(m, d, e) ==
  [m EXCEPT !.shards = [x \in Listed(m) \cup {d} |->
                          IF x \in Listed(m) THEN m.shards[x] ELSE e]]
Upsert(m, d, e) ==
  [m EXCEPT !.shards = [x \in Listed(m) \cup {d} |->
                          IF x = d THEN e ELSE m.shards[x]]]

KindForgets(m, x) == [m EXCEPT !.kind = {x}]
WithKind(m, x) == [m EXCEPT !.kind = @ \cup {x}]

Busy(x) == pc[x] \notin {"idle", "down"}
Finalizing(x) == pc[x] \in {"create", "write", "rename"}   \* it has read the manifest

-----------------------------------------------------------------------------
(* append_routed and ensure_shard.  A producer's route day never goes back *)
(* and is at most a day behind the clock (the rollover stagger).           *)

RouteDays(x) == {d \in Days : /\ d = today \/ d + 1 = today
                              /\ cur_date[x] # NoDay => d >= cur_date[x]}

Rotation(x, d) == cur_date[x] # NoDay /\ cur_date[x] # d

BarLost(x, d) ==
  /\ bars' = bars
  /\ cur_date' = [cur_date EXCEPT ![x] = d]
  /\ pc' = [pc EXCEPT ![x] = "idle"]

WriteBar(x, d) ==
  /\ bars' = [bars EXCEPT ![x][d] = @ + 1]
  /\ cur_date' = [cur_date EXCEPT ![x] = d]
  /\ pc' = [pc EXCEPT ![x] = "idle"]

AppendBar(x, d) ==
  /\ pc[x] = "idle"
  /\ d \in RouteDays(x) /\ bars[x][d] < MaxBars
  /\ ~Rotation(x, d)
  /\ WriteBar(x, d)
  /\ UNCHANGED <<today, manifest, tmp, target, after, doc, fd, raced, kills>>

Rotate(x, d) ==
  /\ pc[x] = "idle"
  /\ d \in RouteDays(x) /\ bars[x][d] < MaxBars
  /\ Rotation(x, d)
  /\ pc' = [pc EXCEPT ![x] = "read"]
  /\ after' = [after EXCEPT ![x] = "open"]
  /\ target' = [target EXCEPT ![x] = d]
  /\ UNCHANGED <<today, bars, manifest, tmp, cur_date, doc, fd, raced, kills>>

OpenShard(x) ==
  /\ pc[x] = "open"
  /\ WriteBar(x, target[x])
  /\ target' = [target EXCEPT ![x] = NoDay]
  /\ UNCHANGED <<today, manifest, tmp, after, doc, fd, raced, kills>>

(* flush and drop finalize the current day.                                *)
FinalizeCurrent(x, next) ==
  /\ pc[x] = "idle" /\ cur_date[x] # NoDay
  /\ pc' = [pc EXCEPT ![x] = "read"]
  /\ after' = [after EXCEPT ![x] = next]
  /\ UNCHANGED <<today, bars, manifest, tmp, cur_date, target, doc, fd, raced, kills>>

Flush(x)      == FinalizeCurrent(x, "idle")
DropWriter(x) == FinalizeCurrent(x, "down")

-----------------------------------------------------------------------------
(* finalize_manifest, step by step.  An error ends it: rotation and drop   *)
(* log it and go on, flush returns it.                                     *)

ReadManifest(x) ==
  /\ pc[x] = "read"
  /\ IF manifest = Torn
       THEN /\ pc' = [pc EXCEPT ![x] = after[x]]
            /\ after' = [after EXCEPT ![x] = "idle"]
            /\ UNCHANGED <<doc, raced>>
       ELSE /\ LET m == IF manifest = NoDoc THEN NewDoc ELSE manifest
                   e == [ext |-> x, n |-> bars[x][cur_date[x]]]
               IN  doc' = [doc EXCEPT ![x] = WithKind(Upsert(m, cur_date[x], e), x)]
            /\ pc' = [pc EXCEPT ![x] = "create"]
            /\ raced' = (raced \/ \E y \in Exts \ {x} : Finalizing(y))
            /\ UNCHANGED after
  /\ UNCHANGED <<today, bars, manifest, tmp, cur_date, target, fd, kills>>

(* File::create truncates the temporary file of another writer if it is    *)
(* there; both then have it open.                                          *)
CreateTmp(x) ==
  /\ pc[x] = "create"
  /\ tmp' = Torn
  /\ fd' = [fd EXCEPT ![x] = "tmp"]
  /\ pc' = [pc EXCEPT ![x] = "write"]
  /\ UNCHANGED <<today, bars, manifest, cur_date, target, after, doc, raced, kills>>

(* Writing over what another writer put in the same file leaves the new    *)
(* document, or the new one with the end of a longer old one.              *)
Written(old, new) == IF old \in {Torn, new} THEN {new} ELSE {new, Torn}

WriteInPlace(x) ==
  /\ pc[x] = "write"
  /\ manifest' = Torn
  /\ pc' = [pc EXCEPT ![x] = "rename"]
  /\ tmp' = doc[x]
  /\ UNCHANGED <<today, bars, cur_date, target, after, doc, fd, raced, kills>>

WriteTmp(x) ==
  /\ pc[x] = "write"
  /\ \/ fd[x] = "tmp" /\ tmp' \in Written(tmp, doc[x]) /\ UNCHANGED manifest
     \/ fd[x] = "manifest" /\ manifest' \in Written(manifest, doc[x]) /\ UNCHANGED tmp
     \/ fd[x] = "" /\ UNCHANGED <<manifest, tmp>>
  /\ pc' = [pc EXCEPT ![x] = "rename"]
  /\ UNCHANGED <<today, bars, cur_date, target, after, doc, fd, raced, kills>>

Unsettled(others, m) == m = Torn \/ \E y \in others : Finalizing(y)

(* rename gives the file that now has the temporary name to manifest.json; *)
(* it fails when another writer has renamed it already.                    *)
RenameTmp(x) ==
  /\ pc[x] = "rename"
  /\ IF tmp = NoDoc
       THEN /\ UNCHANGED <<manifest, tmp>>
            /\ fd' = [fd EXCEPT ![x] = ""]
       ELSE /\ manifest' = tmp
            /\ tmp' = NoDoc
            /\ fd' = [y \in Exts |-> IF y # x /\ fd[y] = "tmp" THEN "manifest" ELSE ""]
  /\ pc' = [pc EXCEPT ![x] = after[x]]
  /\ doc' = [doc EXCEPT ![x] = NewDoc]
  /\ after' = [after EXCEPT ![x] = "idle"]
  /\ raced' = (raced /\ Unsettled(Exts \ {x}, manifest'))
  /\ UNCHANGED <<today, bars, cur_date, target, kills>>

-----------------------------------------------------------------------------
(* A process is killed, with the writers it owns.                          *)
Kill(dead) ==
  /\ kills < MaxKills
  /\ kills' = kills + 1
  /\ dead # {} /\ \A x \in dead : pc[x] # "down"
  /\ LET Reset(f, v) == [x \in Exts |-> IF x \in dead THEN v ELSE f[x]]
     IN  /\ pc' = Reset(pc, "down") /\ fd' = Reset(fd, "")
         /\ cur_date' = Reset(cur_date, NoDay) /\ target' = Reset(target, NoDay)
         /\ after' = Reset(after, "idle") /\ doc' = Reset(doc, NewDoc)
  /\ raced' = (raced /\ Unsettled(Exts \ dead, manifest))
  /\ UNCHANGED <<today, bars, manifest, tmp>>

(* open_with and seed_from_tail: the newest shard gives the day.           *)
OpenWriter(x) ==
  /\ pc[x] = "down"
  /\ pc' = [pc EXCEPT ![x] = "idle"]
  /\ \/ /\ \A d \in Days : bars[x][d] = 0
        /\ cur_date' = [cur_date EXCEPT ![x] = NoDay]
     \/ \E d \in Days :
          /\ bars[x][d] > 0 /\ \A e \in Days : e > d => bars[x][e] = 0
          /\ cur_date' = [cur_date EXCEPT ![x] = d]
  /\ UNCHANGED <<today, bars, manifest, tmp, target, after, doc, fd, raced, kills>>

Midnight ==
  /\ today < LastDay
  /\ today' = today + 1
  /\ UNCHANGED <<bars, manifest, tmp, locals, raced, kills>>

Init ==
  /\ today = 0
  /\ bars = [x \in Exts |-> [d \in Days |-> 0]]
  /\ manifest = NoDoc /\ tmp = NoDoc
  /\ pc = [x \in Exts |-> "down"]
  /\ cur_date = [x \in Exts |-> NoDay]
  /\ target = [x \in Exts |-> NoDay]
  /\ after = [x \in Exts |-> "idle"]
  /\ doc = [x \in Exts |-> NewDoc]
  /\ fd = [x \in Exts |-> ""]
  /\ raced = FALSE
  /\ kills = 0

Next ==
  \/ Midnight
  \/ \E x \in Exts :
       \/ \E d \in Days : AppendBar(x, d) \/ Rotate(x, d)
       \/ OpenShard(x) \/ Flush(x) \/ DropWriter(x)
       \/ ReadManifest(x) \/ CreateTmp(x) \/ WriteTmp(x) \/ RenameTmp(x)
       \/ OpenWriter(x)
  \/ \E dead \in SUBSET Exts : Kill(dead)

Spec == Init /\ [][Next]_vars

-----------------------------------------------------------------------------
TypeOK ==
  /\ today \in Days
  /\ bars \in [Exts -> [Days -> 0 .. MaxBars]]
  /\ {manifest, tmp} \subseteq Docs \cup {NoDoc, Torn}
  /\ pc \in [Exts -> {"down", "idle", "open", "read", "create", "write", "rename"}]
  /\ cur_date \in [Exts -> Days \cup {NoDay}]
  /\ target \in [Exts -> Days \cup {NoDay}]
  /\ after \in [Exts -> {"idle", "open", "down"}]
  /\ doc \in [Exts -> Docs]
  /\ fd \in [Exts -> {"", "tmp", "manifest"}]
  /\ raced \in BOOLEAN
  /\ kills \in 0 .. MaxKills

(* The inventory of the manifest: the shards it has an entry for that says *)
(* what the file holds.                                                    *)
InManifest(x, d) ==
  /\ manifest \in Docs /\ d \in Listed(manifest)
  /\ manifest.shards[d] = [ext |-> x, n |-> bars[x][d]]

(* shard.rs:818: the manifest is the ticker's shard inventory.  A day a    *)
(* writer has left behind is in it, with the digest of the whole file.     *)
ClosedShardsListed ==
  \A x \in Exts, d \in Days :
    bars[x][d] > 0 /\ cur_date[x] # NoDay /\ d < cur_date[x] => InManifest(x, d)

(* It is, as long as the ticker has bars of one kind only.                 *)
OneKind == \E x \in Exts : \A y \in Exts \ {x}, d \in Days : bars[y][d] = 0
OneKindListed == OneKind => ClosedShardsListed

(* shard.rs:962: the write is atomic.  A reader, and the next finalization,*)
(* find a whole manifest under its name whenever they look.                *)
NeverTorn == manifest # Torn

(* An entry describes a prefix of the shard it names.                      *)
Real(m) ==
  m \in Docs => \A d \in Listed(m) : /\ m.shards[d].n <= bars[m.shards[d].ext][d]
                                     /\ m.shards[d].ext \in m.kind

(* The entries of the manifest tell of files that are there, whatever the  *)
(* writers do at the same time (shard.rs:1742); and it can be parsed at    *)
(* any moment, through every kill, until two finalizations overlap         *)
(* (shard.rs:962).                                                         *)
ManifestWhole == Real(manifest) /\ (~raced => NeverTorn)

StillTells(old, new) ==
  new \in Docs /\ Listed(old) \subseteq Listed(new) /\ old.kind \subseteq new.kind

(* What the manifest once told its readers, a day or a kind, it goes on    *)
(* telling them; two finalizations that overlap may break this, and it     *)
(* holds again when both are through (shard.rs:1742).                      *)
NothingForgotten ==
  [][(manifest \in Docs /\ ~raced) => StillTells(manifest, manifest')]_vars

-----------------------------------------------------------------------------
(* The inductive invariant.  While no two finalizations overlap, the       *)
(* writer under way has in memory what the manifest lacks, and in the      *)
(* temporary file what it has in memory.  A writer opens a day only after  *)
(* it has listed the day before, and the newest shard is where it is.      *)
Base == IF manifest = NoDoc THEN NewDoc ELSE manifest
Entry(x, d) == [ext |-> x, n |-> bars[x][d]]
Drafted(x) == WithKind(Upsert(Base, cur_date[x], Entry(x, cur_date[x])), x)

HasBars(x) == \E d \in Days : bars[x][d] > 0
WriterInv(x) ==
  /\ cur_date[x] # NoDay => /\ bars[x][cur_date[x]] > 0
                            /\ \A d \in Days : bars[x][d] > 0 => d <= cur_date[x]
  /\ pc[x] = "idle" /\ cur_date[x] = NoDay => ~HasBars(x)
  /\ Busy(x) => cur_date[x] # NoDay
  /\ after[x] = "idle" \/ pc[x] = "read" \/ Finalizing(x)
  /\ "open" \in {pc[x], after[x]} => /\ target[x] \in Days /\ cur_date[x] < target[x]
                                     /\ bars[x][target[x]] < MaxBars
  /\ Real(doc[x])

OnlyKind(x) == \A y \in Exts \ {x} : ~HasBars(y)
OlderListed(x) ==
  OnlyKind(x) =>
    /\ pc[x] = "open" => InManifest(x, cur_date[x])
    /\ \A d, e \in Days : d < e /\ bars[x][d] > 0 /\ bars[x][e] > 0 => InManifest(x, d)

Alone(x) ==
  Finalizing(x) =>
    /\ \A y \in Exts \ {x} : ~Finalizing(y)
    /\ doc[x] = Drafted(x)
    /\ pc[x] \in {"write", "rename"} => fd[x] = "tmp"
    /\ pc[x] = "write" => tmp = Torn
    /\ pc[x] = "rename" => tmp = doc[x]

OwnerInv ==
  /\ TypeOK /\ ManifestWhole /\ Real(tmp)
  /\ \A x \in Exts : WriterInv(x) /\ OlderListed(x)
  /\ raced => \E x, y \in Exts : x # y /\ HasBars(x) /\ HasBars(y)
  /\ ~raced => \A x \in Exts : Alone(x)
=============================================================================

----------------------------- MODULE HotReload ------------------------------
(***************************************************************************)
(* hot_reload.rs watch_file: one watcher polls the mtime of a file once a  *)
(* second, hashes it, and parses and publishes it when the bytes changed.  *)
(* The file is rewritten by other processes at any moment, between any two *)
(* of the watcher's three reads (mtime, hash, parse).  A rewrite in place  *)
(* is two writes: the truncated file, which does not parse, and the new    *)
(* bytes.                                                                  *)
(***************************************************************************)
EXTENDS Naturals

CONSTANTS
  Valid,       \* the contents that parse
  Broken,      \* the contents that do not
  Initial,     \* the caller's initial value
  Missing,     \* no file; also None of mtime, of content_hash and of parse
  Reuse,       \* may a write bring back bytes the file had before?
  MaxWrites    \* bound of the model

ASSUME ContentAssumption ==
  /\ Valid \cap Broken = {}
  /\ {Initial, Missing} \cap (Valid \cup Broken) = {}
  /\ Initial # Missing

ASSUME BoundAssumption == Reuse \in BOOLEAN /\ MaxWrites \in Nat

VARIABLES
  content,     \* the bytes of the file, or Missing
  mtime,       \* its modification time: the number of the last write, or Missing
  used,        \* contents the file has had
  writes,
  pc,          \* the watcher's next read
  last, last_hash, hash, parsed,   \* its locals, named as in the source
  published    \* the value in the watch channel

fileVars == <<content, mtime, used, writes>>
watcher  == <<pc, last, last_hash, hash, parsed, published>>
hotVars  == <<fileVars, watcher>>

Contents == Valid \cup Broken \cup {Missing}
Stamps   == (0 .. MaxWrites) \cup {Missing}

-----------------------------------------------------------------------------
(* The other processes.  Every write gets an mtime of its own.             *)
Write(c) ==
  /\ writes < MaxWrites
  /\ c \in Valid /\ ~Reuse => c \notin used
  /\ content' = c
  /\ mtime' = IF c = Missing THEN Missing ELSE writes + 1
  /\ used' = used \cup {c}
  /\ writes' = writes + 1
  /\ UNCHANGED watcher

(* parse(&path): None for a malformed file.                                *)
ParseOf(c) == IF c \in Valid THEN c ELSE Missing

-----------------------------------------------------------------------------
(* Boot: mtime, hash, parse, then the channel is created with the result.  *)

BootMtime ==
  /\ pc = "boot"
  /\ last' = mtime
  /\ pc' = "boothash"
  /\ UNCHANGED <<fileVars, last_hash, hash, parsed, published>>

BootHash ==
  /\ pc = "boothash"
  /\ last_hash' = content
  /\ pc' = "bootparse"
  /\ UNCHANGED <<fileVars, last, hash, parsed, published>>

BootParse ==
  /\ pc = "bootparse"
  /\ published' = IF ParseOf(content) = Missing THEN Initial ELSE ParseOf(content)
  /\ pc' = "tick"
  /\ UNCHANGED <<fileVars, last, last_hash, hash, parsed>>

-----------------------------------------------------------------------------
(* The poll loop.  BlankOnBroken and ApplyRestamps are wrong versions of   *)
(* the definitions that follow them; no action uses them, and the          *)
(* properties below are checked to fail with them.                         *)

Touched == mtime # last

Poll ==
  /\ pc = "tick"
  /\ Touched
  /\ last' = mtime
  /\ pc' = "hash"
  /\ UNCHANGED <<fileVars, last_hash, hash, parsed, published>>

HashFile ==
  /\ pc = "hash"
  /\ hash' = content
  /\ pc' = "parse"
  /\ UNCHANGED <<fileVars, last, last_hash, parsed, published>>

SameBytes == hash # Missing /\ hash = last_hash

(* The closure parses only when the hash is new; a parse that panics makes *)
(* the watcher keep the previous value, like a parse of Missing.           *)
Parse ==
  /\ pc = "parse"
  /\ parsed' = IF SameBytes THEN Missing ELSE ParseOf(content)
  /\ pc' = "apply"
  /\ UNCHANGED <<fileVars, last, last_hash, hash, published>>

KeptHash == IF parsed = Missing THEN last_hash ELSE hash
BlankOnBroken == IF parsed = Missing THEN Initial ELSE parsed
KeptValue == IF parsed = Missing THEN published ELSE parsed

ApplyRestamps ==
  /\ pc = "apply"
  /\ last_hash' = IF SameBytes THEN last_hash ELSE KeptHash
  /\ published' = IF SameBytes THEN published ELSE KeptValue
  /\ last' = mtime
  /\ pc' = "tick"
  /\ UNCHANGED <<fileVars, hash, parsed>>

Apply ==
  /\ pc = "apply"
  /\ last_hash' = IF SameBytes THEN last_hash ELSE KeptHash
  /\ published' = IF SameBytes THEN published ELSE KeptValue
  /\ pc' = "tick"
  /\ UNCHANGED <<fileVars, last, hash, parsed>>

-----------------------------------------------------------------------------
HotInit ==
  /\ content \in Contents
  /\ mtime = IF content = Missing THEN Missing ELSE 0
  /\ used = {content}
  /\ writes = 0
  /\ pc = "boot"
  /\ last = Missing /\ last_hash = Missing /\ hash = Missing /\ parsed = Missing
  /\ published = Initial

Watcher == BootMtime \/ BootHash \/ BootParse \/ Poll \/ HashFile \/ Parse \/ Apply
HotNext == Watcher \/ \E c \in Contents : Write(c)

(* The tokio interval ticks for ever and the blocking pool runs what it is *)
(* given; nothing is assumed of the writers.                               *)
HotSpec == HotInit /\ [][HotNext]_hotVars /\ WF_hotVars(Watcher)

-----------------------------------------------------------------------------
HotTypeOK ==
  /\ content \in Contents /\ mtime \in Stamps /\ used \subseteq Contents
  /\ writes \in 0 .. MaxWrites
  /\ pc \in {"boot", "boothash", "bootparse", "tick", "hash", "parse", "apply"}
  /\ last \in Stamps /\ {last_hash, hash} \subseteq Contents
  /\ parsed \in Valid \cup {Missing}
  /\ published \in Valid \cup {Initial}

(* hot_reload.rs:49: a write that races a read is seen as a change, never  *)
(* skipped.  Once the file stays valid, the channel comes to hold it.      *)
Converges ==
  \A c \in Valid : <>[](content = c) => <>[](published = c)

(* hot_reload.rs:15: a missing or malformed file leaves the previous value *)
(* in place.  A value the consumers have seen is only ever replaced by the *)
(* parse of bytes written since, and never by the boot default.            *)
NeverDegrades ==
  [][published' # published /\ pc # "bootparse"
       => /\ published' \in used
          /\ published' # Initial]_hotVars

(* Its invariant: what was parsed and what is published were read in the   *)
(* file at some time.                                                      *)
HotInv ==
  /\ HotTypeOK
  /\ content \in used
  /\ parsed # Missing => parsed \in used
  /\ published # Initial => published \in used
=============================================================================

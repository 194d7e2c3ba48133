--------------------------- MODULE TransportHealth ---------------------------
(***************************************************************************)
(* metrics.rs TransportHealth: the liveness of one forwarder session.  The *)
(* receiving thread stamps every frame with the clock (mark_frame); the    *)
(* /health probe of another thread reads the clock and the stamp.  Both    *)
(* are sequences of steps, and the difference of the two is a u64.         *)
(*                                                                         *)
(* StallPassed is a wrong version of the definition that follows it; no    *)
(* action uses it, and the property is checked to fail with it.            *)
(***************************************************************************)
EXTENDS Integers

CONSTANTS
  Stall, Grace,   \* stall_ms, grace_ms
  Wrap,           \* 2^64
  MaxProbe        \* bound of the model

ASSUME ProbeAssumption == {Stall, Grace, Wrap, MaxProbe} \subseteq Nat /\ MaxProbe < Wrap

VARIABLES
  probeNow,       \* now_ms()
  last_frame_ms,  \* boot_ms is 0
  stamp,          \* the time mark_frame has read and not yet stored
  at,             \* the probe's next step
  entered, read,  \* its two readings of the clock
  loaded, age,    \* last_frame_age_ms: the frame it loads, and its age
  answer,
  arrived         \* history: when the last frame arrived

probe == <<probeNow, last_frame_ms, stamp, at, entered, read, loaded, age, answer, arrived>>

Clock   == 0 .. MaxProbe
NoStamp == -1

-----------------------------------------------------------------------------
ProbeTick ==
  /\ probeNow < MaxProbe /\ probeNow' = probeNow + 1
  /\ UNCHANGED <<last_frame_ms, stamp, at, entered, read, loaded, age, answer, arrived>>

MarkFrame ==
  /\ stamp = NoStamp
  /\ stamp' = probeNow /\ arrived' = probeNow
  /\ UNCHANGED <<probeNow, last_frame_ms, at, entered, read, loaded, age, answer>>

Store ==
  /\ stamp # NoStamp
  /\ last_frame_ms' = stamp
  /\ stamp' = NoStamp
  /\ UNCHANGED <<probeNow, at, entered, read, loaded, age, answer, arrived>>

-----------------------------------------------------------------------------
(* health: within the grace of the boot the answer is ok.                  *)
Health ==
  /\ at = "idle"
  /\ entered' = probeNow
  /\ IF probeNow < Grace THEN at' = "idle" /\ answer' = "ok"
                         ELSE at' = "clock" /\ answer' = "none"
  /\ UNCHANGED <<probeNow, last_frame_ms, stamp, read, loaded, age, arrived>>

(* last_frame_age_ms: now_ms(), then the load.                             *)
ReadClock ==
  /\ at = "clock"
  /\ read' = probeNow /\ at' = "load"
  /\ UNCHANGED <<probeNow, last_frame_ms, stamp, entered, loaded, age, answer, arrived>>

Age == (read - last_frame_ms) % Wrap

StallPassed(a) == a <= Stall
Live(a) == a < Stall

LoadFrame ==
  /\ at = "load"
  /\ loaded' = last_frame_ms /\ age' = Age
  /\ answer' = IF Live(Age) THEN "ok" ELSE "down"
  /\ at' = "idle"
  /\ UNCHANGED <<probeNow, last_frame_ms, stamp, entered, read, arrived>>

ProbeInit ==
  /\ probeNow = 0 /\ last_frame_ms = 0 /\ stamp = NoStamp /\ arrived = 0
  /\ at = "idle" /\ entered = 0 /\ read = 0 /\ loaded = 0 /\ age = 0 /\ answer = "none"

ProbeNext == ProbeTick \/ MarkFrame \/ Store \/ Health \/ ReadClock \/ LoadFrame

ProbeSpec == ProbeInit /\ [][ProbeNext]_probe

-----------------------------------------------------------------------------
ProbeTypeOK ==
  /\ {probeNow, last_frame_ms, entered, read, loaded, arrived} \subseteq Clock
  /\ stamp \in Clock \cup {NoStamp}
  /\ at \in {"idle", "clock", "load"} /\ answer \in {"none", "ok", "down"}
  /\ age \in 0 .. Wrap - 1

(* metrics.rs:62: a dead socket is reported.  A probe that starts Stall    *)
(* after the last frame, and after the grace, answers down, however the    *)
(* receiving thread was delayed between its clock and its store.           *)
DeadIsReported ==
  (answer = "ok" /\ entered >= Grace) => entered < arrived + Stall

(* metrics.rs:92: ok while any frame arrived within Stall.  Only a stored  *)
(* frame that is Stall old makes the probe answer down.                    *)
AliveIsUp == answer = "down" => loaded + Stall <= read

(* The inductive invariant.  What the threads have read of the clock is    *)
(* not ahead of it, a stored or pending stamp is no newer than the last    *)
(* frame, and a probe under way has read the clock after it began.         *)
ProbeInv ==
  /\ ProbeTypeOK
  /\ last_frame_ms <= arrived /\ arrived <= probeNow
  /\ stamp # NoStamp => stamp <= arrived
  /\ entered <= probeNow
  /\ at # "idle" => answer = "none"
  /\ at = "load" => entered <= read
  /\ DeadIsReported
=============================================================================

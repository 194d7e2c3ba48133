--------------------------- MODULE FramePublisher ---------------------------
(***************************************************************************)
(* publisher.rs Publisher::run: a task forwards the frames of a broadcast  *)
(* ring to redundant sinks.  A ring that overflows skips the task forward; *)
(* a sink may fail any send.  Replay shots are left out: no publisher of    *)
(* the repository configures any.                                          *)
(*                                                                         *)
(* FirstErrorEnds is a wrong version of the definition that follows it; no *)
(* action uses it, and the property is checked to fail with it.            *)
(***************************************************************************)
EXTENDS Integers, Sequences, FiniteSets

CONSTANTS
  Sinks,       \* the number of sinks
  Capacity,    \* of the broadcast ring
  \* bounds of the model
  MaxFeed, MaxSendFails

ASSUME PubAssumption ==
  {Sinks, Capacity} \subseteq Nat \ {0} /\ {MaxFeed, MaxSendFails} \subseteq Nat

VARIABLES
  produced,    \* frames sent into the ring
  ended,       \* the channel is closed
  next,        \* the receiver's position
  frame,       \* the frame it forwards, 0 for none
  leg,         \* the sink it forwards to next
  running,
  errors,      \* [1 .. Sinks -> failed first sends]
  lagged,      \* nxr_publisher_lagged_total
  firsts,      \* history: [1 .. Sinks -> frames sent at t = 0]
  missed       \* history: frames the ring overwrote before they were read

pubVars == <<produced, ended, next, frame, leg, running, errors, lagged, firsts, missed>>

Legs == 1 .. Sinks
OldestKept == IF produced > Capacity THEN produced - Capacity + 1 ELSE 1

Produce ==
  /\ ~ended /\ produced < MaxFeed
  /\ produced' = produced + 1
  /\ UNCHANGED <<ended, next, frame, leg, running, errors, lagged, firsts, missed>>

CloseChannel ==
  /\ ~ended /\ ended' = TRUE
  /\ UNCHANGED <<produced, next, frame, leg, running, errors, lagged, firsts, missed>>

-----------------------------------------------------------------------------
(* rx.recv().                                                              *)
Receive ==
  /\ running /\ frame = 0 /\ next <= produced /\ next >= OldestKept
  /\ frame' = next /\ next' = next + 1 /\ leg' = 1
  /\ UNCHANGED <<produced, ended, running, errors, lagged, firsts, missed>>

Skipped == lagged + (OldestKept - next)

Lagged ==
  /\ running /\ frame = 0 /\ next < OldestKept
  /\ lagged' = Skipped
  /\ missed' = missed \cup (next .. OldestKept - 1)
  /\ next' = OldestKept
  /\ UNCHANGED <<produced, ended, frame, leg, running, errors, firsts>>

Finish ==
  /\ running /\ frame = 0 /\ ended /\ next > produced
  /\ running' = FALSE
  /\ UNCHANGED <<produced, ended, next, frame, leg, errors, lagged, firsts, missed>>

Advance ==
  IF leg = Sinks THEN frame' = 0 /\ leg' = 1
                 ELSE frame' = frame /\ leg' = leg + 1

SendFirst ==
  /\ frame # 0
  /\ firsts' = [firsts EXCEPT ![leg] = Append(@, frame)]
  /\ Advance
  /\ UNCHANGED <<produced, ended, next, running, errors, lagged, missed>>

FirstErrorEnds == frame' = 0 /\ leg' = 1
AfterFailure == Advance

SendFails ==
  /\ frame # 0 /\ errors[leg] < MaxSendFails
  /\ errors' = [errors EXCEPT ![leg] = @ + 1]
  /\ AfterFailure
  /\ UNCHANGED <<produced, ended, next, running, lagged, firsts, missed>>

PubInit ==
  /\ produced = 0 /\ ended = FALSE /\ next = 1 /\ frame = 0 /\ leg = 1 /\ running = TRUE
  /\ errors = [i \in Legs |-> 0] /\ lagged = 0
  /\ firsts = [i \in Legs |-> <<>>] /\ missed = {}

PubNext ==
  \/ Produce \/ CloseChannel
  \/ Receive \/ Lagged \/ Finish \/ SendFirst \/ SendFails

PubSpec == PubInit /\ [][PubNext]_pubVars

-----------------------------------------------------------------------------
PubTypeOK ==
  /\ produced \in 0 .. MaxFeed /\ ended \in BOOLEAN /\ running \in BOOLEAN
  /\ next \in 1 .. MaxFeed + 1 /\ frame \in 0 .. MaxFeed /\ leg \in Legs
  /\ errors \in [Legs -> 0 .. MaxSendFails] /\ lagged \in 0 .. MaxFeed
  /\ firsts \in [Legs -> Seq(1 .. MaxFeed)]
  /\ missed \subseteq 1 .. MaxFeed

(* publisher.rs:121 and 136: a loss is counted, at the leg where it        *)
(* happens.  At every sink, the frames sent, the failures of that sink and *)
(* the overflow counter add up to the frames the publisher has dealt with, *)
(* and the frames sent are in order: a failing leg takes nothing from the  *)
(* other one, and a lag is counted frame by frame.                         *)
Underway(i) == IF frame # 0 /\ leg <= i THEN 1 ELSE 0
LossIsCounted ==
  \A i \in Legs :
    /\ Len(firsts[i]) + errors[i] + lagged + Underway(i) = next - 1
    /\ \A j \in 1 .. Len(firsts[i]) - 1 : firsts[i][j] < firsts[i][j + 1]
    /\ \A j \in 1 .. Len(firsts[i]) : firsts[i][j] \notin missed

(* The inductive invariant: the receiver is at most one frame ahead, the   *)
(* frame it forwards is the last it received, and no sink has seen a later *)
(* one; the receiver has passed whatever the ring overwrote.               *)
SentBefore(i) ==
  \A j \in 1 .. Len(firsts[i]) :
    firsts[i][j] < next /\ (Underway(i) = 1 => firsts[i][j] < frame)
PubInv ==
  /\ PubTypeOK
  /\ next <= produced + 1
  /\ IF frame = 0 THEN leg = 1 ELSE frame = next - 1
  /\ \A i \in Legs : SentBefore(i)
  /\ \A m \in missed : m < next /\ m # frame
  /\ LossIsCounted
=============================================================================

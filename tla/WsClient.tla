------------------------------ MODULE WsClient ------------------------------
(***************************************************************************)
(* ws_client.rs WsClient: one WebSocket on which requests are answered by  *)
(* Text acks while Binary frames of the stream go on arriving.  subscribe  *)
(* and unsubscribe read to the ack and stash the frames that overtake it;  *)
(* next_batch hands out the stash before it reads the socket again.  Both  *)
(* are futures: their caller may drop them at any await.                   *)
(*                                                                         *)
(* The server answers every request once, in order, and may refuse it.  A  *)
(* connection that breaks shows like a close.                              *)
(* Time only passes while the client awaits the socket or its caller.      *)
(*                                                                         *)
(* StashFirst, AckLeft and InitPingDue are wrong versions of the           *)
(* definitions that follow them: nothing uses them, and the properties are *)
(* checked to fail with them.                                              *)
(***************************************************************************)
EXTENDS Integers, Sequences, SequencesExt

CONSTANTS
  Keepalive,       \* with_keepalive
  Silence,         \* the server is never silent for longer; 0 for no such promise
  \* bounds of the model
  MaxFrames, MaxReqs, MaxDrops, MaxTime

ASSUME WsAssumption ==
  {Keepalive, Silence, MaxFrames, MaxReqs, MaxDrops, MaxTime} \subseteq Nat

VARIABLES
  clock,
  spoken,      \* when the server last sent anything
  up,          \* requests on their way to the server
  down,        \* messages on their way to the client
  open,        \* neither side has closed
  task,        \* what the caller awaits
  request,     \* number of requests made
  pending,     \* the stash
  last_ping,
  frames,      \* history: the frames the server sent
  batches,     \* history: the frames handed to the caller
  answered,    \* history: <<request, the request its ack was for>>
  drops        \* futures dropped by the caller

server == <<spoken, frames>>
client == <<task, request, pending, last_ping>>
seen   == <<batches, answered>>
wsVars == <<clock, server, up, down, open, client, seen, drops>>

(* A frame decode_index_frame accepts, or a malformed one.                 *)
Frame(n, ok) == [kind |-> "frame", n |-> n, ok |-> ok]
Ack(n)       == [kind |-> "ack", n |-> n, ok |-> TRUE]
WsPing       == [kind |-> "ping", n |-> 0, ok |-> TRUE]
Close        == [kind |-> "close", n |-> 0, ok |-> TRUE]
Messages     == [kind : {"frame", "ack", "ping", "close"}, n : Nat, ok : BOOLEAN]

(* The client has read the close.                                          *)
Over == ~open /\ down = <<>>

(* The well-formed frames of s, in their order.                            *)
Ticks == [kind : {"frame"}, n : Nat, ok : {TRUE}]
WellFormed(s) == FoldLeft(LAMBDA kept, m : IF m \in Ticks THEN Append(kept, m) ELSE kept, <<>>, s)

-----------------------------------------------------------------------------
(* The server.                                                             *)
SendFrame(ok) ==
  /\ open /\ Len(frames) < MaxFrames
  /\ frames' = Append(frames, Frame(Len(frames) + 1, ok))
  /\ down' = Append(down, Last(frames'))
  /\ spoken' = clock
  /\ UNCHANGED <<clock, up, open, client, seen, drops>>

Answer ==
  /\ open /\ up # <<>>
  /\ down' = Append(down, Ack(Head(up)))
  /\ up' = Tail(up)
  /\ spoken' = clock
  /\ UNCHANGED <<clock, open, frames, client, seen, drops>>

ServerPing ==
  /\ open /\ WsPing \notin Range(down)
  /\ down' = Append(down, WsPing)
  /\ spoken' = clock
  /\ UNCHANGED <<clock, up, open, frames, client, seen, drops>>

ServerClose ==
  /\ open
  /\ open' = FALSE /\ down' = Append(down, Close)
  /\ spoken' = clock
  /\ UNCHANGED <<clock, up, frames, client, seen, drops>>

-----------------------------------------------------------------------------
(* send_sub: the request, then message after message up to the ack.        *)
Request ==
  /\ task = "idle" /\ request < MaxReqs
  /\ request' = request + 1
  /\ up' = IF open THEN Append(up, request') ELSE up
  /\ task' = IF Over THEN "idle" ELSE "ack"
  /\ UNCHANGED <<clock, server, down, open, pending, last_ping, seen, drops>>

StashFirst(m) == <<m>> \o pending
Stashed(m) == Append(pending, m)

(* An ack ends the call, with the ids of the server or its error.          *)
AckLeft(m) == down
Rest(m) == Tail(down)

AwaitAck ==
  /\ task = "ack" /\ down # <<>>
  /\ LET m == Head(down) IN
     /\ down' = IF m.kind = "ack" THEN Rest(m) ELSE Tail(down)
     /\ pending' = IF m.kind = "frame" THEN Stashed(m) ELSE pending
     /\ task' = IF m.kind \in {"ack", "close"} THEN "idle" ELSE "ack"
     /\ answered' = IF m.kind = "ack" THEN answered \cup {<<request, m.n>>} ELSE answered
  /\ UNCHANGED <<clock, server, up, open, request, last_ping, batches, drops>>

(* next_batch: the stash, then a ping if one is due, then the socket.      *)
NextBatch ==
  /\ task = "idle"
  /\ task' = "loop"
  /\ UNCHANGED <<clock, server, up, down, open, request, pending, last_ping, seen, drops>>

Handed(m) == IF m.ok THEN Append(batches, m) ELSE batches

ReadStash ==
  /\ task = "loop" /\ pending # <<>>
  /\ pending' = Tail(pending)
  /\ batches' = Handed(Head(pending))
  /\ task' = IF Head(pending).ok THEN "idle" ELSE "loop"
  /\ UNCHANGED <<clock, server, up, down, open, request, last_ping, answered, drops>>

PingDue == clock - last_ping >= Keepalive

PingIfDue ==
  /\ task = "loop" /\ pending = <<>>
  /\ last_ping' = IF PingDue THEN clock ELSE last_ping
  /\ task' = "read"
  /\ UNCHANGED <<clock, server, up, down, open, request, pending, seen, drops>>

(* A Text is ignored, a malformed frame skipped; both go round the loop.   *)
ReadSocket ==
  /\ task = "read" /\ (down # <<>> \/ Over)
  /\ LET m == IF Over THEN Close ELSE Head(down) IN
     /\ down' = IF Over THEN down ELSE Tail(down)
     /\ batches' = IF m.kind = "frame" THEN Handed(m) ELSE batches
     /\ task' = IF m.kind = "close" \/ (m.kind = "frame" /\ m.ok) THEN "idle" ELSE "loop"
  /\ UNCHANGED <<clock, server, up, open, request, pending, last_ping, answered, drops>>

(* The caller drops the future: a timeout, a select, a cancelled task.     *)
DropFuture ==
  /\ task \in {"ack", "read"} /\ drops < MaxDrops
  /\ task' = "idle" /\ drops' = drops + 1
  /\ UNCHANGED <<clock, server, up, down, open, request, pending, last_ping, seen>>

WsTick ==
  /\ clock < MaxTime
  /\ task # "loop" /\ (task \in {"ack", "read"} => down = <<>>)
  /\ Silence > 0 => clock < spoken + Silence
  /\ clock' = clock + 1
  /\ UNCHANGED <<server, up, down, open, client, seen, drops>>

InitPingDue ==
  /\ clock = 0 /\ spoken = 0 /\ up = <<>> /\ down = <<>> /\ open = TRUE
  /\ task = "idle" /\ request = 0 /\ pending = <<>> /\ last_ping = clock - Keepalive
  /\ frames = <<>> /\ batches = <<>> /\ answered = {} /\ drops = 0
WsInit ==
  /\ clock = 0 /\ spoken = 0 /\ up = <<>> /\ down = <<>> /\ open = TRUE
  /\ task = "idle" /\ request = 0 /\ pending = <<>> /\ last_ping = 0
  /\ frames = <<>> /\ batches = <<>> /\ answered = {} /\ drops = 0

WsNext ==
  \/ \E ok \in BOOLEAN : SendFrame(ok)
  \/ Answer \/ ServerPing \/ ServerClose
  \/ Request \/ AwaitAck
  \/ NextBatch \/ ReadStash \/ PingIfDue \/ ReadSocket
  \/ DropFuture \/ WsTick

WsSpec == WsInit /\ [][WsNext]_wsVars

-----------------------------------------------------------------------------
WsTypeOK ==
  /\ {clock, spoken, last_ping} \subseteq 0 .. MaxTime
  /\ up \in Seq(1 .. MaxReqs) /\ down \in Seq(Messages) /\ open \in BOOLEAN
  /\ task \in {"idle", "ack", "loop", "read"}
  /\ request \in 0 .. MaxReqs /\ drops \in 0 .. MaxDrops
  /\ {pending, frames, batches} \subseteq Seq(Messages)
  /\ answered \subseteq (1 .. MaxReqs) \X (1 .. MaxReqs)

(* ws_client.rs:128: subscribing mid-stream never drops a tick.  At every  *)
(* moment what was handed out, what is stashed and what is on the wire are *)
(* the well-formed frames of the server, each once and in its order,       *)
(* however requests, refusals, pings and dropped futures are mixed.        *)
NoTickDropped ==
  batches \o WellFormed(pending) \o WellFormed(down) = WellFormed(frames)

(* ws_client.rs:252: a request returns the ids the server accepted: its    *)
(* ack is the answer to it.  A request whose future is dropped leaves its  *)
(* ack on the socket, where the next one takes it for its own.             *)
AckIsMine == drops = 0 => \A a \in answered : a[1] = a[2]

(* ws_client.rs:41: ping every Keepalive so that a firewall keeps the      *)
(* connection open.  While the caller waits in next_batch, no longer than  *)
(* that has passed since the last ping.                                    *)
KeptOpen == (open /\ task = "read") => clock - last_ping <= Keepalive

(* What the code does guarantee: the ping is late by no more than the      *)
(* server's longest silence.                                               *)
KeptOpenBySpeech ==
  (open /\ task = "read" /\ Silence > 0) => clock - last_ping < Keepalive + Silence

(* On the socket of the Rust client an ack answers its own request, and    *)
(* pings go out as often as the server's silence allows.                   *)
RustSocket == AckIsMine /\ KeptOpenBySpeech

(* Its inductive invariant.  Nothing follows a close; and as long as no    *)
(* future was dropped, a request or its ack is under way only while the    *)
(* client waits for that ack, and never more than one of them.             *)
Acks == {i \in DOMAIN down : down[i].kind = "ack"}
AckInv ==
  /\ \A i \in DOMAIN down : down[i].kind = "close" => ~open /\ i = Len(down)
  /\ \A i \in Acks : down[i].n \in 1 .. MaxReqs
  /\ task = "ack" => request > 0
  /\ drops = 0 =>
       /\ open => up = <<>> \/ (task = "ack" /\ up = <<request>>)
       /\ \A i \in Acks : task = "ack" /\ down[i].n = request /\ (open => up = <<>>)
       /\ \A i, j \in Acks : i = j

(* The client began to wait with a ping that was not overdue, and as long  *)
(* as it waits the server has not spoken since.                            *)
PingInv ==
  /\ spoken <= clock /\ last_ping <= clock
  /\ Silence > 0 => clock <= spoken + Silence
  /\ task = "read" /\ down = <<>> => spoken - last_ping < Keepalive
  /\ task = "read" /\ Silence > 0 => clock - last_ping < Keepalive + Silence

WsInv == WsTypeOK /\ AckInv /\ PingInv /\ RustSocket

(* The inductive invariant of NoTickDropped: the stash holds nothing but   *)
(* frames, and the client reads the socket only when it is empty.          *)
TickInv ==
  /\ request \in Nat /\ up \in Seq(Nat)
  /\ down \in Seq(Messages) /\ frames \in Seq(Messages) /\ batches \in Seq(Messages)
  /\ pending \in Seq([kind : {"frame"}, n : Nat, ok : BOOLEAN])
  /\ task = "read" => pending = <<>>
  /\ NoTickDropped
=============================================================================

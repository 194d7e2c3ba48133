---------------------------- MODULE ClientProofs -----------------------------
(***************************************************************************)
(* Proofs about the client libraries, for every value of their constants:  *)
(* the acks, pings and ticks of the Rust socket, the sockets and timers of *)
(* the TypeScript client, the listing that the clones of a Rust REST       *)
(* client share and the records of its streams, the catalogues and handles *)
(* of the script clients, and the publisher at the other end of the wire.  *)
(***************************************************************************)
EXTENDS MCFeed, Induction

-----------------------------------------------------------------------------
(* Sequences that grow at one end and shrink at the other.                 *)

LEMMA Appended ==
  ASSUME NEW S, NEW s \in Seq(S), NEW m \in S
  PROVE  /\ Append(s, m) \in Seq(S) /\ Len(Append(s, m)) = Len(s) + 1 /\ Len(s) \in Nat
         /\ \A i \in DOMAIN Append(s, m) :
              \/ i \in DOMAIN s /\ Append(s, m)[i] = s[i]
              \/ i = Len(s) + 1 /\ Append(s, m)[i] = m
<1>1. Append(s, m) \in Seq(S) /\ Len(Append(s, m)) = Len(s) + 1 /\ Len(s) \in Nat
  OBVIOUS
<1>2. ASSUME NEW i \in DOMAIN Append(s, m)
      PROVE  \/ i \in DOMAIN s /\ Append(s, m)[i] = s[i]
             \/ i = Len(s) + 1 /\ Append(s, m)[i] = m
  <2>1. i \in 1 .. Len(s) + 1
    BY <1>1
  <2>2. CASE i = Len(s) + 1
    BY <1>1, <2>2
  <2>3. CASE i # Len(s) + 1
    BY <1>1, <2>1, <2>3
  <2>4. QED BY <2>2, <2>3
<1>3. QED BY <1>1, <1>2

LEMMA Shortened ==
  ASSUME NEW S, NEW s \in Seq(S), s # <<>>
  PROVE  /\ Head(s) \in S /\ Head(s) = s[1] /\ 1 \in DOMAIN s
         /\ Tail(s) \in Seq(S) /\ Len(Tail(s)) = Len(s) - 1 /\ Len(s) \in Nat \ {0}
         /\ \A i \in DOMAIN Tail(s) : i \in Nat /\ i + 1 \in DOMAIN s /\ Tail(s)[i] = s[i + 1]
<1>1. Len(s) \in Nat \ {0} /\ DOMAIN s = 1 .. Len(s)
  OBVIOUS
<1>2. Head(s) \in S /\ Head(s) = s[1] /\ 1 \in DOMAIN s
  BY <1>1
<1>3. Tail(s) \in Seq(S) /\ Len(Tail(s)) = Len(s) - 1
  BY <1>1
<1>4. \A i \in DOMAIN Tail(s) : i \in Nat /\ i + 1 \in DOMAIN s /\ Tail(s)[i] = s[i + 1]
  BY <1>1, <1>3
<1>5. QED BY <1>1, <1>2, <1>3, <1>4

-----------------------------------------------------------------------------
(* The Rust socket (WsClient).                                             *)

LEMMA WsTypes ==
  ASSUME WsTypeOK
  PROVE  /\ clock \in 0 .. MaxTime /\ spoken \in 0 .. MaxTime /\ last_ping \in 0 .. MaxTime
         /\ clock \in Nat /\ spoken \in Nat /\ last_ping \in Nat
         /\ Keepalive \in Nat /\ Silence \in Nat /\ MaxTime \in Nat /\ MaxReqs \in Nat
         /\ request \in Nat /\ drops \in Nat
         /\ up \in Seq(1 .. MaxReqs) /\ down \in Seq(Messages)
         /\ pending \in Seq(Messages) /\ frames \in Seq(Messages) /\ batches \in Seq(Messages)
         /\ task \in {"idle", "ack", "loop", "read"}
<1>1. Keepalive \in Nat /\ Silence \in Nat /\ MaxTime \in Nat /\ MaxReqs \in Nat /\ MaxDrops \in Nat
  BY WsAssumption
<1>2. clock \in 0 .. MaxTime /\ spoken \in 0 .. MaxTime /\ last_ping \in 0 .. MaxTime
  BY DEF WsTypeOK
<1>3. pending \in Seq(Messages) /\ frames \in Seq(Messages) /\ batches \in Seq(Messages)
  BY DEF WsTypeOK
<1>4. /\ request \in 0 .. MaxReqs /\ drops \in 0 .. MaxDrops /\ task \in {"idle", "ack", "loop", "read"}
      /\ up \in Seq(1 .. MaxReqs) /\ down \in Seq(Messages)
  BY DEF WsTypeOK
<1>5. QED BY <1>1, <1>2, <1>3, <1>4

LEMMA MessageTypes ==
  /\ \A n \in Nat, ok \in BOOLEAN : Frame(n, ok) \in Messages
  /\ \A n \in Nat : Ack(n) \in Messages
  /\ WsPing \in Messages /\ Close \in Messages
  BY DEF Frame, Ack, WsPing, Close, Messages

(* Packs the type of a state from that of its fields.                      *)
LEMMA WsTyped ==
  ASSUME clock' \in 0 .. MaxTime, spoken' \in 0 .. MaxTime, last_ping' \in 0 .. MaxTime,
         up' \in Seq(1 .. MaxReqs), down' \in Seq(Messages), open' \in BOOLEAN,
         task' \in {"idle", "ack", "loop", "read"},
         request' \in 0 .. MaxReqs, drops' \in 0 .. MaxDrops,
         pending' \in Seq(Messages), frames' \in Seq(Messages), batches' \in Seq(Messages),
         answered' \subseteq (1 .. MaxReqs) \X (1 .. MaxReqs)
  PROVE  WsTypeOK'
  BY DEF WsTypeOK

(* A step that brings no ack and no close, and leaves the request alone;   *)
(* it may take k messages off the wire.                                    *)
LEMMA NoNewAck ==
  ASSUME WsInv, NEW k \in {0, 1},
         UNCHANGED <<up, open, request, drops, answered>>, task' = "ack" <=> task = "ack",
         down' \in Seq(Messages), open \/ Len(down') = Len(down) - k,
         \A i \in DOMAIN down' : \/ i + k \in DOMAIN down /\ down'[i] = down[i + k]
                                 \/ down'[i].kind \notin {"ack", "close"}
  PROVE  AckInv' /\ AckIsMine'
<1>1. DOMAIN down' \subseteq Nat /\ k \in Nat
  OBVIOUS
<1>2. AckInv /\ AckIsMine
  BY DEF WsInv, RustSocket
<1>3. \A i \in DOMAIN down' : down'[i].kind = "close" => ~open' /\ i = Len(down')
  <2> SUFFICES ASSUME NEW i \in DOMAIN down', down'[i].kind = "close"
               PROVE  ~open' /\ i = Len(down')
    OBVIOUS
  <2>1. i + k \in DOMAIN down /\ down[i + k].kind = "close"
    OBVIOUS
  <2>2. ~open /\ i + k = Len(down)
    BY <2>1, <1>2 DEF AckInv
  <2>3. QED BY <2>2, <1>1
<1>4. \A i \in Acks' : i + k \in Acks /\ down'[i] = down[i + k] /\ i \in Nat
  BY <1>1 DEF Acks
<1>5. \A i, j \in Acks' : i + k = j + k => i = j
  BY <1>4, <1>1
<1>6. /\ \A i \in Acks' : down'[i].n \in 1 .. MaxReqs
      /\ task' = "ack" => request' > 0
      /\ AckIsMine'
  BY <1>2, <1>4 DEF AckInv, AckIsMine
<1>7. drops' = 0 =>
        /\ open' => up' = <<>> \/ (task' = "ack" /\ up' = <<request'>>)
        /\ \A i \in Acks' : task' = "ack" /\ down'[i].n = request' /\ (open' => up' = <<>>)
        /\ \A i, j \in Acks' : i = j
  BY <1>2, <1>4, <1>5 DEF AckInv
<1>8. QED BY <1>3, <1>6, <1>7 DEF AckInv

(* Pings, when the server speaks, and when the client is not waiting.      *)
LEMMA SpeechPing ==
  ASSUME WsInv, UNCHANGED <<clock, last_ping, task>>, spoken' = clock, down' # <<>>
  PROVE  PingInv'
<1>1. PingInv /\ clock \in Nat /\ spoken \in Nat /\ last_ping \in Nat /\ Silence \in Nat /\ Keepalive \in Nat
  BY WsTypes DEF WsInv
<1>2. QED BY <1>1 DEF PingInv

LEMMA AtWorkPing ==
  ASSUME WsInv, UNCHANGED <<clock, last_ping, spoken>>, task' # "read"
  PROVE  PingInv'
<1>1. PingInv
  BY DEF WsInv
<1>2. QED BY <1>1 DEF PingInv

LEMMA WsPack ==
  ASSUME WsTypeOK', AckInv', AckIsMine', PingInv'
  PROVE  WsInv'
<1>1. KeptOpenBySpeech'
  BY DEF PingInv, KeptOpenBySpeech
<1>2. QED BY <1>1 DEF WsInv, RustSocket

LEMMA WsInitInv == Keepalive > 0 /\ WsInit => WsInv
<1> SUFFICES ASSUME Keepalive > 0, WsInit PROVE WsInv
  OBVIOUS
<1>1. Keepalive \in Nat /\ Silence \in Nat /\ MaxTime \in Nat /\ MaxReqs \in Nat /\ MaxDrops \in Nat
  BY WsAssumption
<1>2. WsTypeOK
  BY <1>1 DEF WsInit, WsTypeOK
<1>3. AckInv /\ AckIsMine
  BY DEF WsInit, AckInv, Acks, AckIsMine
<1>4. PingInv /\ KeptOpenBySpeech
  BY <1>1 DEF WsInit, PingInv, KeptOpenBySpeech
<1>5. QED BY <1>2, <1>3, <1>4 DEF WsInv, RustSocket

(* The server.  A frame or a ping is neither an ack nor a close.           *)
LEMMA NewsInv ==
  ASSUME WsInv, NEW m \in Messages, m.kind \notin {"ack", "close"}, open,
         down' = Append(down, m), spoken' = clock, frames' \in Seq(Messages),
         UNCHANGED <<clock, up, open, client, seen, drops>>
  PROVE  WsInv'
<1>1. UNCHANGED <<task, request, pending, last_ping, batches, answered>>
  BY DEF client, seen
<1>2. WsTypeOK /\ down \in Seq(Messages) /\ clock \in 0 .. MaxTime
  BY WsTypes DEF WsInv
<1>3. /\ down' \in Seq(Messages) /\ down' # <<>>
      /\ \A i \in DOMAIN down' : \/ i \in Nat /\ i \in DOMAIN down /\ down'[i] = down[i]
                                 \/ down'[i].kind \notin {"ack", "close"}
  <2>1. /\ Append(down, m) \in Seq(Messages) /\ Append(down, m) # <<>>
        /\ \A i \in DOMAIN Append(down, m) :
              \/ i \in Nat /\ i \in DOMAIN down /\ Append(down, m)[i] = down[i]
              \/ Append(down, m)[i].kind \notin {"ack", "close"}
    <3>1. Append(down, m) # <<>>
      BY <1>2, Appended
    <3>2. QED BY <1>2, <3>1, Appended
  <2>2. QED BY <2>1
<1>4. WsTypeOK'
  BY <1>1, <1>2, <1>3 DEF WsTypeOK
<1>5. AckInv' /\ AckIsMine'
  <2>1. \A i \in DOMAIN down' : \/ i + 0 \in DOMAIN down /\ down'[i] = down[i + 0]
                                \/ down'[i].kind \notin {"ack", "close"}
    BY <1>3
  <2>2. QED BY <1>1, <1>3, <2>1, NoNewAck
<1>6. PingInv'
  BY <1>1, <1>3, SpeechPing
<1>7. QED BY <1>4, <1>5, <1>6, WsPack

LEMMA SendFrameInv ==
  ASSUME WsInv, NEW ok \in BOOLEAN, SendFrame(ok)
  PROVE  WsInv'
<1> DEFINE m == Frame(Len(frames) + 1, ok)
<1>1. frames \in Seq(Messages)
  BY WsTypes DEF WsInv
<1>2. m \in Messages /\ m.kind = "frame"
  BY <1>1, MessageTypes DEF Frame
<1> HIDE DEF m
<1>3. Append(frames, m) \in Seq(Messages) /\ Last(Append(frames, m)) = m
  BY <1>1, <1>2 DEF Last
<1>4. /\ open /\ frames' = Append(frames, m) /\ down' = Append(down, Last(frames')) /\ spoken' = clock
      /\ UNCHANGED <<clock, up, open, client, seen, drops>>
  BY DEF SendFrame, m
<1>5. down' = Append(down, m)
  BY <1>3, <1>4
<1>6. QED BY <1>2, <1>3, <1>4, <1>5, NewsInv

LEMMA ServerPingInv ==
  ASSUME WsInv, ServerPing
  PROVE  WsInv'
<1>1. WsPing \in Messages /\ WsPing.kind = "ping"
  BY MessageTypes DEF WsPing
<1>2. /\ open /\ down' = Append(down, WsPing) /\ spoken' = clock
      /\ UNCHANGED <<clock, up, open, frames, client, seen, drops>>
  BY DEF ServerPing
<1>3. frames' \in Seq(Messages)
  BY <1>2, WsTypes DEF WsInv
<1>4. QED BY <1>1, <1>2, <1>3, NewsInv

LEMMA AnswerInv ==
  ASSUME WsInv, Answer
  PROVE  WsInv'
<1> DEFINE m == Ack(Head(up))
<1>1. /\ open /\ up # <<>> /\ down' = Append(down, m) /\ up' = Tail(up) /\ spoken' = clock
      /\ UNCHANGED <<clock, open, frames, task, request, pending, last_ping, batches, answered, drops>>
  BY DEF Answer, client, seen
<1>2. /\ WsTypeOK /\ down \in Seq(Messages) /\ up \in Seq(1 .. MaxReqs) /\ clock \in 0 .. MaxTime
      /\ AckInv /\ AckIsMine
  BY WsTypes DEF WsInv, RustSocket
<1>3. Head(up) \in 1 .. MaxReqs /\ up' \in Seq(1 .. MaxReqs)
  BY <1>1, <1>2, Shortened
<1>4. m \in Messages /\ m.kind = "ack" /\ m.n = Head(up)
  BY <1>3, MessageTypes DEF Ack
<1> HIDE DEF m
<1>5. /\ down' \in Seq(Messages) /\ down' # <<>> /\ Len(down') = Len(down) + 1
      /\ \A i \in DOMAIN down' : \/ i \in DOMAIN down /\ down'[i] = down[i]
                                 \/ i = Len(down) + 1 /\ down'[i] = m
  <2>1. /\ Append(down, m) \in Seq(Messages) /\ Append(down, m) # <<>> /\ Len(Append(down, m)) = Len(down) + 1
        /\ \A i \in DOMAIN Append(down, m) : \/ i \in DOMAIN down /\ Append(down, m)[i] = down[i]
                                             \/ i = Len(down) + 1 /\ Append(down, m)[i] = m
    <3>1. Append(down, m) # <<>>
      BY <1>2, Appended
    <3>2. QED BY <1>2, <1>4, <3>1, Appended
  <2>2. QED BY <1>1, <2>1
<1>6. WsTypeOK'
  BY <1>1, <1>2, <1>3, <1>5 DEF WsTypeOK
<1>7. \A i \in DOMAIN down' : down'[i].kind # "close"
  BY <1>1, <1>2, <1>4, <1>5 DEF AckInv
<1>8. ASSUME drops' = 0
      PROVE  /\ up' = <<>> /\ task' = "ack" /\ m.n = request /\ Acks = {}
  <2>1. task = "ack" /\ up = <<request>>
    BY <1>1, <1>2, <1>8 DEF AckInv
  <2>2. Head(up) = request /\ Tail(up) = <<>>
    BY <2>1
  <2>3. Acks = {}
    BY <1>1, <1>2, <1>8 DEF AckInv
  <2>4. QED BY <1>1, <1>4, <2>1, <2>2, <2>3
<1>9. \A i \in Acks' : \/ i \in Acks /\ down'[i] = down[i]
                       \/ i = Len(down) + 1 /\ down'[i] = m
  <2> TAKE i \in Acks'
  <2>1. i \in DOMAIN down' /\ down'[i].kind = "ack"
    BY DEF Acks
  <2>2. CASE i \in DOMAIN down /\ down'[i] = down[i]
    BY <2>1, <2>2 DEF Acks
  <2>3. QED BY <1>5, <2>1, <2>2
<1>10. AckInv'
  <2>1. \A i \in Acks' : down'[i].n \in 1 .. MaxReqs
    BY <1>2, <1>3, <1>4, <1>9 DEF AckInv
  <2>2. task' = "ack" => request' > 0
    BY <1>1, <1>2 DEF AckInv
  <2>3. drops' = 0 => /\ \A i \in Acks' : i = Len(down) + 1 /\ down'[i] = m
                      /\ up' = <<>> /\ task' = "ack" /\ m.n = request'
    BY <1>1, <1>8, <1>9
  <2>4. QED BY <1>7, <2>1, <2>2, <2>3 DEF AckInv
<1>11. AckIsMine' /\ PingInv'
  BY <1>1, <1>2, <1>5, SpeechPing DEF AckIsMine
<1>12. QED BY <1>6, <1>10, <1>11, WsPack

LEMMA ServerCloseInv ==
  ASSUME WsInv, ServerClose
  PROVE  WsInv'
<1>1. /\ open /\ open' = FALSE /\ down' = Append(down, Close) /\ spoken' = clock
      /\ UNCHANGED <<clock, up, frames, task, request, pending, last_ping, batches, answered, drops>>
  BY DEF ServerClose, client, seen
<1>2. /\ WsTypeOK /\ down \in Seq(Messages) /\ clock \in 0 .. MaxTime /\ AckInv /\ AckIsMine
  BY WsTypes DEF WsInv, RustSocket
<1>3. /\ down' \in Seq(Messages) /\ down' # <<>> /\ Len(down') = Len(down) + 1
      /\ \A i \in DOMAIN down' : \/ i \in DOMAIN down /\ down'[i] = down[i]
                                 \/ i = Len(down) + 1 /\ down'[i].kind = "close"
  <2>1. Close \in Messages /\ Close.kind = "close"
    BY MessageTypes DEF Close
  <2>2. Append(down, Close) # <<>>
    BY <1>2, <2>1, Appended
  <2>3. /\ Append(down, Close) \in Seq(Messages) /\ Len(Append(down, Close)) = Len(down) + 1
        /\ \A i \in DOMAIN Append(down, Close) :
             \/ i \in DOMAIN down /\ Append(down, Close)[i] = down[i]
             \/ i = Len(down) + 1 /\ Append(down, Close)[i] = Close
    BY <1>2, <2>1, Appended
  <2>4. QED BY <1>1, <2>1, <2>2, <2>3
<1>4. WsTypeOK'
  BY <1>1, <1>2, <1>3 DEF WsTypeOK
<1>5. \A i \in DOMAIN down' : down'[i].kind = "close" => i = Len(down')
  BY <1>1, <1>2, <1>3 DEF AckInv
<1>6. \A i \in Acks' : i \in Acks /\ down'[i] = down[i]
  BY <1>3 DEF Acks
<1>7. AckInv'
  BY <1>1, <1>2, <1>5, <1>6 DEF AckInv
<1>8. AckIsMine' /\ PingInv'
  BY <1>1, <1>2, <1>3, SpeechPing DEF AckIsMine
<1>9. QED BY <1>4, <1>7, <1>8, WsPack

(* The client.  A request goes out only when no ack is under way.          *)
LEMMA RequestInv ==
  ASSUME WsInv, Request
  PROVE  WsInv'
<1>1. /\ task = "idle" /\ request < MaxReqs /\ request' = request + 1
      /\ up' = IF open THEN Append(up, request') ELSE up
      /\ task' = IF Over THEN "idle" ELSE "ack"
      /\ UNCHANGED <<clock, spoken, frames, down, open, pending, last_ping, batches, answered, drops>>
  BY DEF Request, server, seen
<1>2. /\ WsTypeOK /\ up \in Seq(1 .. MaxReqs) /\ request \in Nat /\ MaxReqs \in Nat
      /\ AckInv /\ AckIsMine
  BY WsTypes DEF WsInv, RustSocket
<1>3. request' \in 1 .. MaxReqs /\ up' \in Seq(1 .. MaxReqs)
  <2>1. request + 1 \in 1 .. MaxReqs
    BY <1>1, <1>2
  <2>2. Append(up, request + 1) \in Seq(1 .. MaxReqs)
    BY <1>2, <2>1, Appended
  <2>3. QED BY <1>1, <1>2, <2>1, <2>2
<1>4. WsTypeOK'
  BY <1>1, <1>2, <1>3 DEF WsTypeOK
<1>5. Acks' = Acks /\ (drops = 0 => Acks = {})
  BY <1>1, <1>2 DEF Acks, AckInv
<1>6. drops = 0 /\ open => up' = <<request'>> /\ task' = "ack"
  <2>1. drops = 0 /\ open => up = <<>> /\ ~Over
    BY <1>1, <1>2 DEF AckInv, Over
  <2>2. up = <<>> => Append(up, request') = <<request'>>
    OBVIOUS
  <2>3. QED BY <1>1, <2>1, <2>2
<1>7. AckInv'
  <2>1. \A i \in DOMAIN down' : down'[i].kind = "close" => ~open' /\ i = Len(down')
    BY <1>1, <1>2 DEF AckInv
  <2>2. \A i \in Acks' : down'[i].n \in 1 .. MaxReqs
    BY <1>1, <1>2, <1>5 DEF AckInv
  <2>3. QED BY <1>1, <1>3, <1>5, <1>6, <2>1, <2>2 DEF AckInv
<1>8. AckIsMine' /\ PingInv'
  BY <1>1, <1>2, AtWorkPing DEF AckIsMine
<1>9. QED BY <1>4, <1>7, <1>8, WsPack

(* A step within the client that takes at most one message, which is not   *)
(* an ack nor the close that ends the call.                                *)
LEMMA ClientStep ==
  ASSUME WsInv, UNCHANGED <<clock, server, up, open, request, drops, answered>>,
         down' = down \/ (down # <<>> /\ down' = Tail(down)),
         pending' \in Seq(Messages), batches' \in Seq(Messages),
         task' \in {"idle", "ack", "loop", "read"}, task' = "ack" <=> task = "ack",
         last_ping' \in 0 .. MaxTime, PingInv'
  PROVE  WsInv'
<1>1. WsTypeOK /\ down \in Seq(Messages)
  BY WsTypes DEF WsInv
<1>2. UNCHANGED <<spoken, frames>>
  BY DEF server
<1>3. down' \in Seq(Messages)
  BY <1>1, Shortened
<1>4. WsTypeOK'
  BY <1>1, <1>2, <1>3 DEF WsTypeOK
<1>5. CASE down' = down
  <2>1. /\ \A i \in DOMAIN down' : i + 0 \in DOMAIN down /\ down'[i] = down[i + 0]
        /\ Len(down') = Len(down) - 0
    BY <1>1, <1>5
  <2>2. AckInv' /\ AckIsMine'
    BY <1>3, <2>1, NoNewAck
  <2>3. QED BY <1>4, <2>2, WsPack
<1>6. CASE down # <<>> /\ down' = Tail(down)
  <2>1. /\ \A i \in DOMAIN down' : i + 1 \in DOMAIN down /\ down'[i] = down[i + 1]
        /\ Len(down') = Len(down) - 1
    BY <1>1, <1>6, Shortened
  <2>2. AckInv' /\ AckIsMine'
    BY <1>3, <2>1, NoNewAck
  <2>3. QED BY <1>4, <2>2, WsPack
<1>7. QED BY <1>5, <1>6

LEMMA HandedType ==
  ASSUME WsTypeOK, NEW m \in Messages
  PROVE  Handed(m) \in Seq(Messages)
<1>1. batches \in Seq(Messages)
  BY WsTypes
<1>2. QED BY <1>1, Appended DEF Handed

LEMMA NextBatchInv == ASSUME WsInv, NextBatch PROVE WsInv'
<1>1. task = "idle" /\ task' = "loop"
      /\ UNCHANGED <<clock, server, up, down, open, request, pending, last_ping, batches, answered, drops>>
  BY DEF NextBatch, seen
<1>2. WsTypeOK /\ pending \in Seq(Messages) /\ batches \in Seq(Messages) /\ last_ping \in 0 .. MaxTime
  BY WsTypes DEF WsInv
<1>3. PingInv'
  BY <1>1, AtWorkPing DEF server
<1>4. QED BY <1>1, <1>2, <1>3, ClientStep

LEMMA ReadStashInv == ASSUME WsInv, ReadStash PROVE WsInv'
<1>1. /\ task = "loop" /\ pending # <<>> /\ pending' = Tail(pending) /\ batches' = Handed(Head(pending))
      /\ task' \in {"idle", "loop"}
      /\ UNCHANGED <<clock, server, up, down, open, request, last_ping, answered, drops>>
  BY DEF ReadStash
<1>2. WsTypeOK /\ pending \in Seq(Messages) /\ last_ping \in 0 .. MaxTime
  BY WsTypes DEF WsInv
<1>3. pending' \in Seq(Messages) /\ batches' \in Seq(Messages)
  BY <1>1, <1>2, Shortened, HandedType
<1>4. PingInv'
  BY <1>1, AtWorkPing DEF server
<1>5. task' \in {"idle", "ack", "loop", "read"} /\ (task' = "ack" <=> task = "ack")
  BY <1>1
<1>6. QED BY <1>1, <1>2, <1>3, <1>4, <1>5, ClientStep

LEMMA PingIfDueInv ==
  ASSUME WsInv, PingIfDue, Keepalive > 0
  PROVE  WsInv'
<1>1. /\ task = "loop" /\ task' = "read" /\ last_ping' = IF PingDue THEN clock ELSE last_ping
      /\ UNCHANGED <<clock, server, up, down, open, request, pending, batches, answered, drops>>
  BY DEF PingIfDue, seen
<1>2. /\ WsTypeOK /\ pending \in Seq(Messages) /\ batches \in Seq(Messages)
      /\ last_ping \in 0 .. MaxTime /\ clock \in 0 .. MaxTime
      /\ clock \in Nat /\ last_ping \in Nat /\ spoken \in Nat /\ Keepalive \in Nat /\ Silence \in Nat
      /\ spoken <= clock /\ last_ping <= clock /\ (Silence > 0 => clock <= spoken + Silence)
  BY WsTypes DEF WsInv, PingInv
<1>3. last_ping' \in 0 .. MaxTime /\ clock - last_ping' < Keepalive /\ last_ping' <= clock
  BY <1>1, <1>2 DEF PingDue
<1>4. PingInv'
  BY <1>1, <1>2, <1>3 DEF PingInv, server
<1>5. QED BY <1>1, <1>2, <1>3, <1>4, ClientStep

LEMMA ReadSocketInv == ASSUME WsInv, ReadSocket PROVE WsInv'
<1> DEFINE m == IF Over THEN Close ELSE Head(down)
<1>1. /\ task = "read" /\ (down # <<>> \/ Over)
      /\ down' = IF Over THEN down ELSE Tail(down)
      /\ batches' = IF m.kind = "frame" THEN Handed(m) ELSE batches
      /\ task' \in {"idle", "loop"}
      /\ UNCHANGED <<clock, server, up, open, request, pending, last_ping, answered, drops>>
  BY DEF ReadSocket
<1>2. /\ WsTypeOK /\ pending \in Seq(Messages) /\ batches \in Seq(Messages) /\ down \in Seq(Messages)
      /\ last_ping \in 0 .. MaxTime
  BY WsTypes DEF WsInv
<1>3. m \in Messages
  BY <1>1, <1>2, Shortened, MessageTypes
<1> HIDE DEF m
<1>4. batches' \in Seq(Messages)
  BY <1>1, <1>2, <1>3, HandedType
<1>5. down' = down \/ (down # <<>> /\ down' = Tail(down))
  BY <1>1 DEF Over
<1>6. PingInv'
  BY <1>1, AtWorkPing DEF server
<1>7. task' \in {"idle", "ack", "loop", "read"} /\ (task' = "ack" <=> task = "ack")
  BY <1>1
<1>8. QED BY <1>1, <1>2, <1>4, <1>5, <1>6, <1>7, ClientStep

(* The ack that ends a call is the only one, and answers it.               *)
LEMMA AwaitAckInv == ASSUME WsInv, AwaitAck PROVE WsInv'
<1> DEFINE m == Head(down)
<1>1. /\ task = "ack" /\ down # <<>> /\ down' = Tail(down)
      /\ pending' = IF m.kind = "frame" THEN Append(pending, m) ELSE pending
      /\ task' = IF m.kind \in {"ack", "close"} THEN "idle" ELSE "ack"
      /\ answered' = IF m.kind = "ack" THEN answered \cup {<<request, m.n>>} ELSE answered
      /\ UNCHANGED <<clock, server, up, open, request, last_ping, batches, drops>>
  BY DEF AwaitAck, Rest, Stashed
<1>2. /\ WsTypeOK /\ pending \in Seq(Messages) /\ batches \in Seq(Messages) /\ down \in Seq(Messages)
      /\ last_ping \in 0 .. MaxTime /\ request \in 0 .. MaxReqs /\ MaxReqs \in Nat
      /\ AckInv /\ AckIsMine
  BY WsTypes DEF WsInv, RustSocket, WsTypeOK
<1>3. /\ m \in Messages /\ m = down[1] /\ 1 \in DOMAIN down /\ Len(down) \in Nat
      /\ down' \in Seq(Messages) /\ Len(down') = Len(down) - 1
      /\ \A i \in DOMAIN down' : i \in Nat /\ i + 1 \in DOMAIN down /\ down'[i] = down[i + 1]
                                 /\ i \in 1 .. Len(down')
  BY <1>1, <1>2, Shortened
<1> HIDE DEF m
<1>4. UNCHANGED <<spoken, frames>> /\ PingInv'
  BY <1>1, AtWorkPing DEF server
<1>5. pending' \in Seq(Messages)
  BY <1>1, <1>2, <1>3, Appended
<1>6. CASE m.kind \notin {"ack", "close"}
  <2>1. task' = "ack" /\ answered' = answered
    BY <1>1, <1>6
  <2>2. QED BY <1>1, <1>2, <1>4, <1>5, <2>1, ClientStep
<1>7. \A i \in Acks' : i + 1 \in Acks /\ i \in Nat /\ i + 1 # 1 /\ down'[i] = down[i + 1]
  BY <1>3 DEF Acks
<1>8. ASSUME m.kind \in {"ack", "close"}, answered' \subseteq (1 .. MaxReqs) \X (1 .. MaxReqs),
             AckIsMine', drops = 0 => Acks' = {} /\ (open => up = <<>>)
      PROVE  WsInv'
  <2>1. task' = "idle"
    BY <1>1, <1>8
  <2>2. WsTypeOK'
    BY <1>1, <1>2, <1>3, <1>4, <1>5, <1>8, <2>1 DEF WsTypeOK
  <2>3. \A i \in DOMAIN down' : down'[i].kind = "close" => ~open' /\ i = Len(down')
    <3> SUFFICES ASSUME NEW i \in DOMAIN down', down'[i].kind = "close"
                 PROVE  ~open' /\ i = Len(down')
      OBVIOUS
    <3>1. i + 1 \in DOMAIN down /\ down[i + 1].kind = "close" /\ i \in Nat
      BY <1>3
    <3>2. ~open /\ i + 1 = Len(down)
      BY <1>2, <3>1 DEF AckInv
    <3>3. QED BY <1>1, <1>3, <3>1, <3>2
  <2>4. \A i \in Acks' : down'[i].n \in 1 .. MaxReqs
    BY <1>2, <1>7 DEF AckInv
  <2>5. AckInv'
    BY <1>1, <1>8, <2>1, <2>3, <2>4 DEF AckInv
  <2>6. QED BY <1>4, <1>8, <2>2, <2>5, WsPack
<1>9. CASE m.kind = "ack"
  <2>1. 1 \in Acks /\ m.n \in 1 .. MaxReqs /\ request \in 1 .. MaxReqs
    BY <1>1, <1>2, <1>3, <1>9 DEF Acks, AckInv
  <2>2. answered' = answered \cup {<<request, m.n>>}
    BY <1>1, <1>9
  <2>3. answered' \subseteq (1 .. MaxReqs) \X (1 .. MaxReqs)
    BY <1>2, <2>1, <2>2 DEF WsTypeOK
  <2>4. drops = 0 => m.n = request /\ Acks' = {} /\ (open => up = <<>>)
    <3> SUFFICES ASSUME drops = 0 PROVE m.n = request /\ Acks' = {} /\ (open => up = <<>>)
      OBVIOUS
    <3>1. m.n = request /\ (open => up = <<>>)
      BY <1>2, <1>3, <2>1 DEF AckInv
    <3>2. Acks' = {}
      <4> SUFFICES ASSUME NEW i \in Acks' PROVE FALSE
        OBVIOUS
      <4>1. i + 1 \in Acks /\ i + 1 # 1
        BY <1>7
      <4>2. i + 1 = 1
        BY <1>2, <2>1, <4>1 DEF AckInv
      <4>3. QED BY <4>1, <4>2
    <3>3. QED BY <3>1, <3>2
  <2>5. AckIsMine'
    BY <1>1, <1>2, <2>2, <2>4 DEF AckIsMine
  <2>6. QED BY <1>8, <1>9, <2>3, <2>4, <2>5
<1>10. CASE m.kind = "close"
  <2>1. ~open /\ Len(down) = 1
    BY <1>2, <1>3, <1>10 DEF AckInv
  <2>2. Acks' = {}
    BY <1>3, <2>1 DEF Acks
  <2>3. answered' = answered
    BY <1>1, <1>10
  <2>4. AckIsMine' /\ answered' \subseteq (1 .. MaxReqs) \X (1 .. MaxReqs)
    BY <1>1, <1>2, <2>3 DEF AckIsMine, WsTypeOK
  <2>5. QED BY <1>8, <1>10, <2>1, <2>2, <2>4
<1>11. QED BY <1>6, <1>9, <1>10

LEMMA DropFutureInv == ASSUME WsInv, DropFuture PROVE WsInv'
<1>1. /\ task' = "idle" /\ drops < MaxDrops /\ drops' = drops + 1
      /\ UNCHANGED <<clock, spoken, frames, up, down, open, request, pending, last_ping, batches, answered>>
  BY DEF DropFuture, server, seen
<1>2. WsTypeOK /\ AckInv /\ drops \in Nat /\ MaxDrops \in Nat
  BY WsTypes, WsAssumption DEF WsInv
<1>3. drops' \in 0 .. MaxDrops /\ drops' # 0
  BY <1>1, <1>2
<1>4. WsTypeOK'
  BY <1>1, <1>2, <1>3 DEF WsTypeOK
<1>5. Acks' = Acks
  BY <1>1 DEF Acks
<1>6. AckInv' /\ AckIsMine'
  BY <1>1, <1>2, <1>3, <1>5 DEF AckInv, AckIsMine
<1>7. PingInv'
  BY <1>1, AtWorkPing
<1>8. QED BY <1>4, <1>6, <1>7, WsPack

(* Time passes for a waiting client only while nothing has arrived since   *)
(* it looked at the age of its ping.                                       *)
LEMMA WsTickInv == ASSUME WsInv, WsTick PROVE WsInv'
<1>1. /\ clock < MaxTime /\ clock' = clock + 1 /\ (task = "read" => down = <<>>)
      /\ (Silence > 0 => clock < spoken + Silence)
      /\ UNCHANGED <<spoken, frames, up, down, open, task, request, pending, last_ping, batches, answered, drops>>
  BY DEF WsTick, server, client, seen
<1>2. /\ WsTypeOK /\ AckInv /\ AckIsMine /\ PingInv
      /\ clock \in Nat /\ spoken \in Nat /\ last_ping \in Nat
      /\ Keepalive \in Nat /\ Silence \in Nat /\ MaxTime \in Nat
  BY WsTypes DEF WsInv, RustSocket
<1>3. clock' \in 0 .. MaxTime
  BY <1>1, <1>2
<1>4. WsTypeOK'
  BY <1>1, <1>2, <1>3 DEF WsTypeOK
<1>5. Acks' = Acks
  BY <1>1 DEF Acks
<1>6. AckInv' /\ AckIsMine'
  BY <1>1, <1>2, <1>5 DEF AckInv, AckIsMine
<1>7. PingInv'
  BY <1>1, <1>2 DEF PingInv
<1>8. QED BY <1>4, <1>6, <1>7, WsPack

LEMMA WsNextInv == Keepalive > 0 /\ WsInv /\ [WsNext]_wsVars => WsInv'
<1> SUFFICES ASSUME Keepalive > 0, WsInv, [WsNext]_wsVars
             PROVE  WsInv'
  OBVIOUS
<1>1. CASE UNCHANGED wsVars
  BY <1>1 DEF wsVars, server, client, seen, WsInv, WsTypeOK, AckInv, Acks, PingInv,
              RustSocket, AckIsMine, KeptOpenBySpeech
<1>2. CASE WsNext
  BY <1>2, SendFrameInv, AnswerInv, ServerPingInv, ServerCloseInv, RequestInv, AwaitAckInv,
     NextBatchInv, ReadStashInv, PingIfDueInv, ReadSocketInv, DropFutureInv, WsTickInv DEF WsNext
<1>3. QED BY <1>1, <1>2

(* ws_client.rs:252 and 41: for any number of requests, frames and dropped *)
(* futures the ack of a request answers that request, unless a future was  *)
(* dropped; and a client that waits is never later with its ping than the  *)
(* longest silence of the server.  A keepalive of zero has no interval to  *)
(* be late for: it pings at every turn of the loop.                        *)
THEOREM SocketIsSound ==
  ASSUME Keepalive > 0
  PROVE  WsSpec => []RustSocket
<1>1. WsInv => RustSocket
  BY DEF WsInv
<1>2. WsInit => WsInv
  BY WsInitInv
<1>3. WsInv /\ [WsNext]_wsVars => WsInv'
  BY WsNextInv
<1>4. QED BY <1>1, <1>2, <1>3, PTL DEF WsSpec

-----------------------------------------------------------------------------
(* What is handed out, stashed and under way are the frames of the server. *)

LEMMA WellFormedEnds ==
  ASSUME NEW s \in Seq(Messages)
  PROVE  /\ WellFormed(s) \in Seq(Messages)
         /\ \A m \in Messages : WellFormed(Append(s, m)) =
              IF m \in Ticks THEN Append(WellFormed(s), m) ELSE WellFormed(s)
         /\ s # <<>> => /\ Head(s) \in Messages /\ Tail(s) \in Seq(Messages)
                        /\ WellFormed(s) = IF Head(s) \in Ticks THEN <<Head(s)>> \o WellFormed(Tail(s))
                                           ELSE WellFormed(Tail(s))
<1>1. WellFormed(s) = Only(s, Ticks) /\ WellFormed(Tail(s)) = Only(Tail(s), Ticks)
      /\ \A m \in Messages : WellFormed(Append(s, m)) = Only(Append(s, m), Ticks)
  BY DEF WellFormed, Only
<1>2. Only(s, Ticks) \in Seq(Messages) /\ EndingStep(Messages, s, Ticks) /\ LeadingStep(Messages, s, Ticks)
  BY OnlyEnds
<1>3. QED BY <1>1, <1>2 DEF EndingStep, LeadingStep

LEMMA MessagePasses ==
  \A b, p, d \in Seq(Messages) : \A m \in Messages : PassesOn(b, p, d, m)
  BY Passed

LEMMA WellFormedNone == WellFormed(<<>>) = <<>>
<1>1. WellFormed(<<>>) = Only(<<>>, Ticks)
  BY DEF WellFormed, Only
<1>2. QED BY <1>1, OnlyOne

Frames == [kind : {"frame"}, n : Nat, ok : BOOLEAN]
LEMMA FrameTypes ==
  /\ \A m \in Frames : m \in Messages /\ (m \in Ticks <=> m.ok)
  /\ \A m \in Messages : m.kind = "frame" <=> m \in Frames
  /\ \A m \in Messages : m.kind # "frame" => m \notin Ticks
  /\ \A n \in Nat : \A ok \in BOOLEAN : Frame(n, ok) \in Frames
  /\ \A n \in Nat : Ack(n) \in Messages /\ Ack(n).kind # "frame"
  /\ WsPing \in Messages /\ Close \in Messages /\ WsPing.kind # "frame" /\ Close.kind # "frame"
  /\ \A s \in Seq(Frames) : s \in Seq(Messages)
<1>1. \A m \in Frames : m \in Messages /\ (m \in Ticks <=> m.ok)
  BY DEF Frames, Messages, Ticks
<1>2. \A m \in Messages : m.kind = "frame" <=> m \in Frames
  BY DEF Frames, Messages
<1>3. \A s \in Seq(Frames) : s \in Seq(Messages)
  BY <1>1
<1>4. QED BY <1>1, <1>2, <1>3 DEF Messages, Ticks, Frame, Ack, WsPing, Close, Frames

LEMMA TickTypes ==
  ASSUME TickInv
  PROVE  /\ request \in Nat /\ up \in Seq(Nat)
         /\ down \in Seq(Messages) /\ frames \in Seq(Messages) /\ batches \in Seq(Messages)
         /\ pending \in Seq(Messages) /\ pending \in Seq(Frames)
         /\ task = "read" => pending = <<>>
         /\ batches \o WellFormed(pending) \o WellFormed(down) = WellFormed(frames)
         /\ WellFormed(pending) \in Seq(Messages) /\ WellFormed(down) \in Seq(Messages)
         /\ WellFormed(frames) \in Seq(Messages)
<1>1. pending \in Seq(Frames)
  BY DEF TickInv, Frames
<1>2. pending \in Seq(Messages)
  BY <1>1, FrameTypes
<1>3. QED BY <1>1, <1>2, WellFormedEnds DEF TickInv, NoTickDropped

LEMMA TickPack ==
  ASSUME request' \in Nat, up' \in Seq(Nat), down' \in Seq(Messages), frames' \in Seq(Messages),
         batches' \in Seq(Messages), pending' \in Seq(Frames), task' = "read" => pending' = <<>>,
         batches' \o WellFormed(pending') \o WellFormed(down') = WellFormed(frames')
  PROVE  TickInv'
  BY DEF TickInv, NoTickDropped, Frames

LEMMA TickInit == WsInit => TickInv
<1> SUFFICES ASSUME WsInit PROVE TickInv
  OBVIOUS
<1>1. \A S : <<>> \in Seq(S)
  OBVIOUS
<1>2. <<>> \o <<>> \o <<>> = <<>>
  OBVIOUS
<1>3. QED BY <1>1, <1>2, WellFormedNone DEF WsInit, TickInv, NoTickDropped

(* A message of the server joins what is under way.                        *)
LEMMA SaidTick ==
  ASSUME TickInv, NEW m \in Messages, down' = Append(down, m),
         up' \in Seq(Nat), UNCHANGED client, UNCHANGED seen,
         \/ m \notin Ticks /\ UNCHANGED frames
         \/ frames' = Append(frames, m)
  PROVE  TickInv'
<1>1. down' \in Seq(Messages) /\ frames' \in Seq(Messages)
  <2>1. \A s \in Seq(Messages) : Append(s, m) \in Seq(Messages)
    OBVIOUS
  <2>2. QED BY <2>1, TickTypes
<1>2. /\ UNCHANGED <<request, task, pending, batches>>
      /\ WellFormed(pending') = WellFormed(pending)
  BY DEF client, seen
<1>3. WellFormed(down') = IF m \in Ticks THEN Append(WellFormed(down), m) ELSE WellFormed(down)
  BY TickTypes, WellFormedEnds
<1>4. batches' \o WellFormed(pending') \o WellFormed(down') = WellFormed(frames')
  <2>1. CASE m \in Ticks
    <3>1. WellFormed(frames') = Append(WellFormed(frames), m)
      BY <2>1, TickTypes, WellFormedEnds
    <3>2. PassesOn(batches, WellFormed(pending), WellFormed(down), m)
      BY TickTypes, MessagePasses
    <3>3. QED BY <1>2, <1>3, <2>1, <3>1, <3>2, TickTypes DEF PassesOn
  <2>2. CASE m \notin Ticks
    <3>1. WellFormed(frames') = WellFormed(frames)
      BY <2>2, TickTypes, WellFormedEnds
    <3>2. QED BY <1>2, <1>3, <2>2, <3>1, TickTypes
  <2>3. QED BY <2>1, <2>2
<1>5. request' \in Nat /\ pending' \in Seq(Frames) /\ (task' = "read" => pending' = <<>>)
      /\ batches' \in Seq(Messages)
  BY <1>2, TickTypes
<1>6. QED BY <1>1, <1>4, <1>5, TickPack

LEMMA ServerTick ==
  ASSUME TickInv, \/ \E ok \in BOOLEAN : SendFrame(ok)
                  \/ Answer \/ ServerPing \/ ServerClose
  PROVE  TickInv'
<1>1. ASSUME NEW ok \in BOOLEAN, SendFrame(ok)
      PROVE  TickInv'
  <2>1. Len(frames) + 1 \in Nat
    BY TickTypes
  <2> DEFINE f == Frame(Len(frames) + 1, ok)
  <2>2. f \in Messages
    BY <2>1, FrameTypes
  <2>3. frames' = Append(frames, f) /\ down' = Append(down, Last(frames')) /\ UNCHANGED <<up, client, seen>>
    BY <1>1 DEF SendFrame
  <2> HIDE DEF f
  <2>4. Last(Append(frames, f)) = f
    BY <2>2, TickTypes DEF Last
  <2>5. down' = Append(down, f) /\ up' \in Seq(Nat) /\ UNCHANGED client /\ UNCHANGED seen
    BY <2>3, <2>4, TickTypes
  <2>6. QED BY <2>2, <2>3, <2>5, SaidTick
<1>2. CASE Answer
  <2>1. Head(up) \in Nat /\ Tail(up) \in Seq(Nat)
    BY <1>2, TickTypes DEF Answer
  <2> DEFINE m == Ack(Head(up))
  <2>2. m \in Messages /\ m \notin Ticks
    BY <2>1, FrameTypes
  <2>3. down' = Append(down, m) /\ up' = Tail(up) /\ UNCHANGED frames /\ UNCHANGED client /\ UNCHANGED seen
    BY <1>2 DEF Answer
  <2> HIDE DEF m
  <2>4. QED BY <2>1, <2>2, <2>3, SaidTick
<1>3. CASE ServerPing
  <2>1. /\ down' = Append(down, WsPing) /\ UNCHANGED up /\ UNCHANGED frames
        /\ UNCHANGED client /\ UNCHANGED seen
    BY <1>3 DEF ServerPing
  <2>2. WsPing \in Messages /\ WsPing \notin Ticks
    BY FrameTypes
  <2>3. QED BY <2>1, <2>2, TickTypes, SaidTick
<1>4. CASE ServerClose
  <2>1. /\ down' = Append(down, Close) /\ UNCHANGED up /\ UNCHANGED frames
        /\ UNCHANGED client /\ UNCHANGED seen
    BY <1>4 DEF ServerClose
  <2>2. Close \in Messages /\ Close \notin Ticks
    BY FrameTypes
  <2>3. QED BY <2>1, <2>2, TickTypes, SaidTick
<1>5. QED BY <1>1, <1>2, <1>3, <1>4

(* What neither hands out nor stashes.                                     *)
LEMMA QuietTick ==
  ASSUME TickInv, UNCHANGED <<down, frames, batches, pending>>, request' \in Nat, up' \in Seq(Nat),
         task' = "read" => task = "read" \/ pending = <<>>
  PROVE  TickInv'
<1>1. /\ WellFormed(pending') = WellFormed(pending) /\ WellFormed(down') = WellFormed(down)
      /\ WellFormed(frames') = WellFormed(frames)
  OBVIOUS
<1>2. batches' \o WellFormed(pending') \o WellFormed(down') = WellFormed(frames')
  BY <1>1, TickTypes
<1>3. QED BY <1>2, TickTypes, TickPack

LEMMA AwaitAckTick == ASSUME TickInv, AwaitAck PROVE TickInv'
<1> DEFINE m == Head(down)
<1>1. /\ down # <<>> /\ m \in Messages /\ Tail(down) \in Seq(Messages)
      /\ WellFormed(down) = IF m \in Ticks THEN <<m>> \o WellFormed(Tail(down)) ELSE WellFormed(Tail(down))
      /\ WellFormed(Tail(down)) \in Seq(Messages)
  BY TickTypes, WellFormedEnds DEF AwaitAck
<1>2. /\ down' = Tail(down) /\ UNCHANGED <<request, up, frames, batches>>
      /\ pending' = IF m.kind = "frame" THEN Append(pending, m) ELSE pending
      /\ task' # "read"
  BY DEF AwaitAck, server, Rest, Stashed
<1> HIDE DEF m
<1>3. WellFormed(frames') = WellFormed(frames) /\ WellFormed(down') = WellFormed(Tail(down))
  BY <1>2
<1>4. CASE m \in Ticks
  <2>1. m.kind = "frame" /\ m \in Frames
    BY <1>1, <1>4, FrameTypes
  <2>2. pending' \in Seq(Frames) /\ WellFormed(pending') = Append(WellFormed(pending), m)
    <3>1. pending' = Append(pending, m) /\ Append(pending, m) \in Seq(Frames)
      BY <1>2, <2>1, TickTypes
    <3>2. WellFormed(Append(pending, m)) = Append(WellFormed(pending), m)
      BY <1>1, <1>4, TickTypes, WellFormedEnds
    <3>3. QED BY <3>1, <3>2
  <2>3. PassesOn(batches, WellFormed(pending), WellFormed(Tail(down)), m)
    BY <1>1, TickTypes, MessagePasses
  <2>4. batches' \o WellFormed(pending') \o WellFormed(down') = WellFormed(frames')
    BY <1>1, <1>2, <1>3, <1>4, <2>2, <2>3, TickTypes DEF PassesOn
  <2>5. QED BY <1>1, <1>2, <2>2, <2>4, TickTypes, TickPack
<1>5. CASE m \notin Ticks
  <2>1. pending' \in Seq(Frames) /\ WellFormed(pending') = WellFormed(pending)
    <3>1. CASE m.kind = "frame"
      <4>1. m \in Frames
        BY <1>1, <3>1, FrameTypes
      <4>2. pending' = Append(pending, m) /\ Append(pending, m) \in Seq(Frames)
        BY <1>2, <3>1, <4>1, TickTypes
      <4>3. WellFormed(Append(pending, m)) = WellFormed(pending)
        BY <1>1, <1>5, TickTypes, WellFormedEnds
      <4>4. QED BY <4>2, <4>3
    <3>2. CASE m.kind # "frame"
      BY <1>2, <3>2, TickTypes
    <3>3. QED BY <3>1, <3>2
  <2>2. batches' \o WellFormed(pending') \o WellFormed(down') = WellFormed(frames')
    BY <1>1, <1>2, <1>3, <1>5, <2>1, TickTypes
  <2>3. QED BY <1>1, <1>2, <2>1, <2>2, TickTypes, TickPack
<1>6. QED BY <1>4, <1>5

LEMMA ReadStashTick == ASSUME TickInv, ReadStash PROVE TickInv'
<1> DEFINE m == Head(pending)
<1>1. /\ pending # <<>> /\ m \in Messages /\ m \in Frames /\ Tail(pending) \in Seq(Frames)
      /\ WellFormed(pending) = IF m \in Ticks THEN <<m>> \o WellFormed(Tail(pending))
                               ELSE WellFormed(Tail(pending))
      /\ WellFormed(Tail(pending)) \in Seq(Messages)
  <2>1. pending # <<>> /\ m \in Frames /\ Tail(pending) \in Seq(Frames)
    BY TickTypes DEF ReadStash
  <2>2. QED BY <2>1, TickTypes, WellFormedEnds
<1>2. /\ pending' = Tail(pending) /\ UNCHANGED <<request, up, frames, down>>
      /\ batches' = IF m.ok THEN Append(batches, m) ELSE batches
      /\ task' # "read"
  BY DEF ReadStash, Handed, server
<1> HIDE DEF m
<1>3. WellFormed(frames') = WellFormed(frames) /\ WellFormed(down') = WellFormed(down)
      /\ WellFormed(pending') = WellFormed(Tail(pending)) /\ (m \in Ticks <=> m.ok)
  BY <1>1, <1>2, FrameTypes
<1>4. batches' \in Seq(Messages)
  BY <1>1, <1>2, TickTypes
<1>5. batches' \o WellFormed(pending') \o WellFormed(down') = WellFormed(frames')
  <2>1. CASE m.ok
    <3>1. PassesOn(batches, WellFormed(Tail(pending)), WellFormed(down), m)
      BY <1>1, TickTypes, MessagePasses
    <3>2. QED BY <1>1, <1>2, <1>3, <2>1, <3>1, TickTypes DEF PassesOn
  <2>2. CASE ~m.ok
    BY <1>1, <1>2, <1>3, <2>2, TickTypes
  <2>3. QED BY <2>1, <2>2
<1>6. QED BY <1>1, <1>2, <1>4, <1>5, TickTypes, TickPack

LEMMA ReadSocketTick == ASSUME TickInv, ReadSocket PROVE TickInv'
<1>1. /\ pending = <<>> /\ UNCHANGED <<pending, request, up, frames>> /\ task' # "read"
  BY TickTypes DEF ReadSocket, server
<1>2. CASE Over
  <2>1. down' = down /\ batches' = batches
    BY <1>2 DEF ReadSocket, Close
  <2>2. QED BY <1>1, <2>1, TickTypes, QuietTick
<1>3. CASE ~Over
  <2> DEFINE m == Head(down)
  <2>1. /\ down # <<>> /\ m \in Messages /\ Tail(down) \in Seq(Messages)
        /\ WellFormed(down) = IF m \in Ticks THEN <<m>> \o WellFormed(Tail(down))
                              ELSE WellFormed(Tail(down))
        /\ WellFormed(Tail(down)) \in Seq(Messages)
    BY <1>3, TickTypes, WellFormedEnds DEF ReadSocket
  <2>2. down' = Tail(down) /\ batches' = IF m.kind = "frame" /\ m.ok THEN Append(batches, m) ELSE batches
    BY <1>3 DEF ReadSocket, Handed
  <2> HIDE DEF m
  <2>3. (m.kind = "frame" /\ m.ok) <=> m \in Ticks
    BY <2>1, FrameTypes
  <2>4. batches' \in Seq(Messages)
    BY <2>1, <2>2, TickTypes
  <2>5. WellFormed(pending') = <<>> /\ WellFormed(pending) = <<>> /\ WellFormed(frames') = WellFormed(frames)
        /\ WellFormed(down') = WellFormed(Tail(down))
    BY <1>1, <2>2, WellFormedNone
  <2>6. batches' \o <<>> = batches' /\ batches \o <<>> = batches
    BY <2>4, TickTypes
  <2>7. batches' \o WellFormed(Tail(down)) = batches \o WellFormed(down)
    <3>1. CASE m \in Ticks
      <4>1. PassesOn(batches, <<>>, WellFormed(Tail(down)), m)
        BY <2>1, <2>5, TickTypes, MessagePasses
      <4>2. QED BY <2>1, <2>2, <2>3, <3>1, <4>1 DEF PassesOn
    <3>2. CASE m \notin Ticks
      BY <2>1, <2>2, <2>3, <3>2
    <3>3. QED BY <3>1, <3>2
  <2>8. batches' \o WellFormed(pending') \o WellFormed(down') = WellFormed(frames')
    BY <2>5, <2>6, <2>7, TickTypes
  <2>9. QED BY <1>1, <2>1, <2>2, <2>4, <2>8, TickTypes, TickPack
<1>4. QED BY <1>2, <1>3

LEMMA TickNext == TickInv /\ [WsNext]_wsVars => TickInv'
<1> SUFFICES ASSUME TickInv, [WsNext]_wsVars PROVE TickInv'
  OBVIOUS
<1>1. CASE \/ UNCHANGED wsVars \/ DropFuture \/ WsTick \/ NextBatch \/ PingIfDue
  <2>1. UNCHANGED <<down, frames, batches, pending, request, up>>
    BY <1>1 DEF wsVars, server, client, seen, DropFuture, WsTick, NextBatch, PingIfDue
  <2>2. task' = "read" => task = "read" \/ pending = <<>>
    BY <1>1 DEF wsVars, client, DropFuture, WsTick, NextBatch, PingIfDue
  <2>3. QED BY <2>1, <2>2, TickTypes, QuietTick
<1>2. CASE Request
  <2>1. UNCHANGED <<down, frames, batches, pending>> /\ request' = request + 1 /\ task' # "read"
        /\ up' = IF open THEN Append(up, request') ELSE up
    BY <1>2 DEF Request, server, seen
  <2>2. request' \in Nat /\ up' \in Seq(Nat)
    BY <2>1, TickTypes
  <2>3. QED BY <2>1, <2>2, QuietTick
<1>3. CASE WsNext
  BY <1>1, <1>2, <1>3, ServerTick, AwaitAckTick, ReadStashTick, ReadSocketTick DEF WsNext
<1>4. QED BY <1>1, <1>3

(* ws_client.rs:128: for any number of frames, requests and dropped        *)
(* futures, what was handed out, stashed and is under way are the          *)
(* well-formed frames of the server, each once and in order.               *)
THEOREM TicksArrive == WsSpec => []NoTickDropped
<1>1. TickInv => NoTickDropped
  BY DEF TickInv
<1>2. QED BY <1>1, TickInit, TickNext, PTL DEF WsSpec

-----------------------------------------------------------------------------
(* The sockets of the TypeScript client (NxrClient).                       *)

LEMMA TsTypes ==
  ASSUME TsTypeOK
  PROVE  /\ phase \in [Sockets -> {"unborn", "connecting", "open", "closing", "closed"}]
         /\ ws \in Sockets \cup {NoSocket} /\ handle \in Sockets \cup {NoSocket}
         /\ timers \subseteq Sockets
         /\ wire \in [Sockets -> Seq(1 .. MaxBatches)] /\ got \in Seq(1 .. MaxBatches)
         /\ sent \in Nat /\ calls \in Nat /\ MaxBatches \in Nat /\ MaxCalls \in Nat
         /\ Sockets \subseteq Nat \ {0}
<1>1. MaxBatches \in Nat /\ MaxCalls \in Nat /\ MaxSockets \in Nat
  BY TsAssumption
<1>2. Sockets \subseteq Nat \ {0}
  BY <1>1 DEF Sockets
<1>3. ws \in Sockets \cup {NoSocket} /\ handle \in Sockets \cup {NoSocket}
  BY DEF TsTypeOK
<1>4. sent \in 0 .. MaxBatches /\ calls \in 0 .. MaxCalls
  BY DEF TsTypeOK
<1>5. QED BY <1>1, <1>2, <1>3, <1>4 DEF TsTypeOK

LEMMA TsTyped ==
  ASSUME phase' \in [Sockets -> {"unborn", "connecting", "open", "closing", "closed"}],
         ws' \in Sockets \cup {NoSocket}, handle' \in Sockets \cup {NoSocket},
         timers' \subseteq Sockets,
         wsState' \in {"disconnected", "connecting", "connected", "error"},
         wire' \in [Sockets -> Seq(1 .. MaxBatches)], got' \in Seq(1 .. MaxBatches),
         sent' \in 0 .. MaxBatches, calls' \in 0 .. MaxCalls, wanted' \in BOOLEAN
  PROVE  TsTypeOK'
<1>1. {ws', handle'} \subseteq Sockets \cup {NoSocket}
  OBVIOUS
<1>2. QED BY <1>1, Zenon DEF TsTypeOK

LEMMA TsPack ==
  ASSUME TsTypeOK', NeverStuck', Untouched', OnlySent', OneLife'
  PROVE  TsInv'
  BY DEF TsInv

(* Increasing sequences at both ends.                                      *)
LEMMA OrderedAppend ==
  ASSUME NEW s \in Seq(Nat), NEW m \in Nat, Ordered(s), \A i \in 1 .. Len(s) : s[i] < m
  PROVE  Ordered(Append(s, m))
<1> DEFINE t == Append(s, m)
<1>1. /\ Len(t) = Len(s) + 1 /\ Len(s) \in Nat /\ t[Len(s) + 1] = m
      /\ \A i \in 1 .. Len(s) : t[i] = s[i]
  OBVIOUS
<1>2. ASSUME NEW i \in 1 .. Len(t), NEW j \in 1 .. Len(t), i < j
      PROVE  t[i] < t[j]
  <2>1. i \in 1 .. Len(s) /\ t[i] = s[i]
    BY <1>1, <1>2
  <2>2. CASE j = Len(s) + 1
    BY <1>1, <2>1, <2>2
  <2>3. CASE j # Len(s) + 1
    <3>1. j \in 1 .. Len(s) /\ t[j] = s[j]
      BY <1>1, <2>3
    <3>2. QED BY <1>2, <2>1, <3>1 DEF Ordered
  <2>4. QED BY <2>2, <2>3
<1>3. QED BY <1>2 DEF Ordered

LEMMA OrderedTail ==
  ASSUME NEW s \in Seq(Nat), s # <<>>, Ordered(s)
  PROVE  /\ Ordered(Tail(s))
         /\ \A i \in 1 .. Len(Tail(s)) : Head(s) < Tail(s)[i]
<1>1. /\ Len(s) \in Nat \ {0} /\ Len(Tail(s)) = Len(s) - 1 /\ Head(s) = s[1]
      /\ \A i \in 1 .. Len(Tail(s)) : i + 1 \in 1 .. Len(s) /\ 1 < i + 1 /\ Tail(s)[i] = s[i + 1]
  OBVIOUS
<1>2. 1 \in 1 .. Len(s)
  BY <1>1
<1>3. \A i \in 1 .. Len(Tail(s)) : Head(s) < Tail(s)[i]
  BY <1>1, <1>2 DEF Ordered
<1>4. ASSUME NEW i \in 1 .. Len(Tail(s)), NEW j \in 1 .. Len(Tail(s)), i < j
      PROVE  Tail(s)[i] < Tail(s)[j]
  <2>1. i + 1 < j + 1 /\ i + 1 \in 1 .. Len(s) /\ j + 1 \in 1 .. Len(s)
    BY <1>1, <1>4
  <2>2. QED BY <1>1, <2>1 DEF Ordered
<1>5. QED BY <1>3, <1>4 DEF Ordered

LEMMA TsInitInv == TsInit => TsInv
<1> SUFFICES ASSUME TsInit PROVE TsInv
  OBVIOUS
<1>1. MaxBatches \in Nat /\ MaxCalls \in Nat
  BY TsAssumption
<1>2. /\ wire = [s \in Sockets |-> <<>>] /\ wire \in [Sockets -> Seq(1 .. MaxBatches)]
      /\ phase \in [Sockets -> {"unborn", "connecting", "open", "closing", "closed"}]
  BY DEF TsInit
<1>3. TsTypeOK
  <2>1. /\ sent \in 0 .. MaxBatches /\ calls \in 0 .. MaxCalls /\ got \in Seq(1 .. MaxBatches)
        /\ {ws, handle} \subseteq Sockets \cup {NoSocket} /\ timers \subseteq Sockets
        /\ wsState = "disconnected"
    BY <1>1 DEF TsInit
  <2>2. wanted \in BOOLEAN
    BY DEF TsInit
  <2>3. QED BY <1>2, <2>1, <2>2 DEF TsTypeOK
<1>4. NeverStuck /\ Untouched /\ OneLife
  BY <1>2 DEF TsInit, NeverStuck, Untouched, OneLife
<1>5. OnlySent
  BY <1>2 DEF TsInit, OnlySent
<1>6. QED BY <1>3, <1>4, <1>5 DEF TsInv

(* doConnect makes one socket, and lets go of the one it had.              *)
LEMMA Connecting ==
  ASSUME TsTypeOK, NEW left \in SUBSET Sockets, DoConnect(left)
  PROVE  \E new \in Sockets :
           /\ phase[new] = "unborn" /\ phase'[new] = "connecting"
           /\ \A s \in Sockets \ {new} :
                phase'[s] = phase[s] \/ (phase[s] \in {"connecting", "open"} /\ phase'[s] = "closing")
           /\ phase' \in [Sockets -> {"unborn", "connecting", "open", "closing", "closed"}]
           /\ ws' = new /\ timers' = left \ {handle} /\ handle' = NoSocket /\ wsState' = "connecting"
<1> DEFINE new == CHOOSE s \in Unborn : TRUE
<1>1. /\ Unborn # {} /\ phase' = [Closing(phase, ws) EXCEPT ![new] = "connecting"]
      /\ ws' = new /\ timers' = left \ {handle} /\ handle' = NoSocket /\ wsState' = "connecting"
  BY DEF DoConnect
<1>2. new \in Unborn
  BY <1>1
<1> HIDE DEF new
<1>3. new \in Sockets /\ phase[new] = "unborn"
  BY <1>2 DEF Unborn, Is
<1>4. /\ Closing(phase, ws) \in [Sockets -> {"unborn", "connecting", "open", "closing", "closed"}]
      /\ \A s \in Sockets : \/ Closing(phase, ws)[s] = phase[s]
                            \/ phase[s] \in {"connecting", "open"} /\ Closing(phase, ws)[s] = "closing"
  BY TsTypes DEF Closing
<1>5. QED BY <1>1, <1>3, <1>4

LEMMA ConnectInv == ASSUME TsInv, Connect PROVE TsInv'
<1>1. /\ calls < MaxCalls /\ calls' = calls + 1 /\ wanted' = TRUE /\ DoConnect(timers)
      /\ UNCHANGED <<wire, sent, got>>
  BY DEF Connect
<1>2. TsTypeOK /\ Untouched /\ OnlySent /\ timers \in SUBSET Sockets /\ calls \in Nat /\ MaxCalls \in Nat
  BY TsTypes DEF TsInv
<1>3. PICK new \in Sockets :
           /\ phase[new] = "unborn" /\ phase'[new] = "connecting"
           /\ \A s \in Sockets \ {new} :
                phase'[s] = phase[s] \/ (phase[s] \in {"connecting", "open"} /\ phase'[s] = "closing")
           /\ phase' \in [Sockets -> {"unborn", "connecting", "open", "closing", "closed"}]
           /\ ws' = new /\ timers' = timers \ {handle} /\ handle' = NoSocket /\ wsState' = "connecting"
  BY <1>1, <1>2, Connecting
<1>4. calls' \in 0 .. MaxCalls /\ calls' # 0
  BY <1>1, <1>2
<1>5. TsTypeOK'
  BY <1>1, <1>2, <1>3, <1>4, TsTyped DEF TsTypeOK
<1>6. NeverStuck' /\ Untouched' /\ OnlySent'
  <2>1. new \in Alive'
    BY <1>3 DEF Alive, Is
  <2>2. NeverStuck' /\ Untouched'
    BY <1>4, <2>1 DEF NeverStuck, Untouched
  <2>3. OnlySent'
    BY <1>1, <1>2 DEF OnlySent
  <2>4. QED BY <2>2, <2>3
<1>7. OneLife'
  <2> SUFFICES ASSUME calls' = 1
               PROVE  /\ \A s, t \in Running' : s = t
                      /\ \A s, t \in timers' : s = t
                      /\ Running' = {} \/ timers' = {}
                      /\ \A s \in Sockets \ Running' : wire'[s] = <<>>
                      /\ Ordered(got') /\ \A s \in Sockets : InOrder(s)'
                      /\ wsState' = "connected" => Is("open")' # {}
    BY DEF OneLife
  <2>1. /\ timers = {} /\ got = <<>>
        /\ \A s \in Sockets : phase[s] = "unborn" /\ wire[s] = <<>>
    BY <1>1, <1>2 DEF Untouched
  <2>2. Running' = {new} /\ timers' = {}
    BY <1>3, <2>1 DEF Running, Alive, Is
  <2>3. Ordered(got') /\ \A s \in Sockets : InOrder(s)'
    BY <1>1, <2>1 DEF Ordered, InOrder
  <2>4. QED BY <1>1, <1>3, <2>1, <2>2, <2>3
<1>8. QED BY <1>5, <1>6, <1>7, TsPack

LEMMA DisconnectInv == ASSUME TsInv, Disconnect PROVE TsInv'
<1>1. /\ calls < MaxCalls /\ calls' = calls + 1 /\ wanted' = FALSE
      /\ timers' = timers \ {handle} /\ handle' = NoSocket
      /\ phase' = Closing(phase, ws) /\ ws' = NoSocket /\ wsState' = "disconnected"
      /\ UNCHANGED <<wire, sent, got>>
  BY DEF Disconnect
<1>2. TsTypeOK /\ OnlySent /\ calls \in Nat /\ MaxCalls \in Nat
  BY TsTypes DEF TsInv
<1>3. phase' \in [Sockets -> {"unborn", "connecting", "open", "closing", "closed"}]
  BY <1>1, <1>2, TsTypes DEF Closing
<1>4. calls' \in 0 .. MaxCalls /\ calls' # 0
  BY <1>1, <1>2
<1>5. TsTypeOK'
  BY <1>1, <1>2, <1>3, <1>4, TsTyped DEF TsTypeOK
<1>6. NeverStuck' /\ Untouched' /\ OneLife'
  BY <1>1, <1>4 DEF NeverStuck, Untouched, OneLife
<1>7. OnlySent'
  BY <1>1, <1>2 DEF OnlySent
<1>8. QED BY <1>5, <1>6, <1>7, TsPack

(* A timer fires only when its client has no socket left.                  *)
LEMMA TimerFiresInv ==
  ASSUME TsInv, NEW t \in Sockets, TimerFires(t)
  PROVE  TsInv'
<1>1. t \in timers /\ DoConnect(timers \ {t}) /\ UNCHANGED <<wire, sent, got, calls, wanted>>
  BY DEF TimerFires
<1>2. TsTypeOK /\ Untouched /\ OnlySent /\ OneLife /\ timers \ {t} \in SUBSET Sockets
  BY TsTypes DEF TsInv
<1>3. PICK new \in Sockets :
           /\ phase[new] = "unborn" /\ phase'[new] = "connecting"
           /\ \A s \in Sockets \ {new} :
                phase'[s] = phase[s] \/ (phase[s] \in {"connecting", "open"} /\ phase'[s] = "closing")
           /\ phase' \in [Sockets -> {"unborn", "connecting", "open", "closing", "closed"}]
           /\ ws' = new /\ timers' = (timers \ {t}) \ {handle} /\ handle' = NoSocket
           /\ wsState' = "connecting"
  BY <1>1, <1>2, Connecting
<1>4. TsTypeOK'
  BY <1>1, <1>2, <1>3, TsTyped DEF TsTypeOK
<1>5. calls' # 0
  BY <1>1, <1>2 DEF Untouched
<1>6. NeverStuck' /\ Untouched' /\ OnlySent'
  <2>1. new \in Alive'
    BY <1>3 DEF Alive, Is
  <2>2. NeverStuck' /\ Untouched'
    BY <1>5, <2>1 DEF NeverStuck, Untouched
  <2>3. OnlySent'
    BY <1>1, <1>2 DEF OnlySent
  <2>4. QED BY <2>2, <2>3
<1>7. OneLife'
  <2> SUFFICES ASSUME calls' = 1 /\ wanted'
               PROVE  /\ \A s, u \in Running' : s = u
                      /\ \A s, u \in timers' : s = u
                      /\ Running' = {} \/ timers' = {}
                      /\ \A s \in Sockets \ Running' : wire'[s] = <<>>
                      /\ Ordered(got') /\ \A s \in Sockets : InOrder(s)'
                      /\ wsState' = "connected" => Is("open")' # {}
    BY DEF OneLife
  <2>1. /\ \A s, u \in timers : s = u
        /\ Running = {} \/ timers = {}
        /\ \A s \in Sockets \ Running : wire[s] = <<>>
        /\ Ordered(got) /\ \A s \in Sockets : InOrder(s)
    BY <1>1, <1>2 DEF OneLife
  <2>2. timers' = {} /\ Running = {}
    BY <1>1, <1>3, <2>1
  <2>3. Running' = {new}
    BY <1>3, <2>2 DEF Running, Alive, Is
  <2>4. Ordered(got') /\ \A s \in Sockets : InOrder(s)'
    BY <1>1, <2>1 DEF InOrder
  <2>5. \A s \in Sockets : wire'[s] = <<>>
    BY <1>1, <2>1, <2>2
  <2>6. QED BY <1>3, <2>2, <2>3, <2>4, <2>5
<1>8. QED BY <1>4, <1>6, <1>7, TsPack

(* A socket that goes on living: its phase changes, nothing else does.     *)
LEMMA PhaseInv ==
  ASSUME TsInv, NEW s \in Running, NEW p \in {"open", "closing"},
         phase' = [phase EXCEPT ![s] = p],
         wsState' \in {"connected", "error"}, wsState' = "connected" => p = "open",
         UNCHANGED <<wire, ws, timers, handle, sent, got, calls, wanted>>
  PROVE  TsInv'
<1>1. TsTypeOK /\ NeverStuck /\ Untouched /\ OnlySent /\ OneLife
  BY DEF TsInv
<1>2. s \in Sockets /\ phase \in [Sockets -> {"unborn", "connecting", "open", "closing", "closed"}]
  BY <1>1, TsTypes DEF Running, Alive, Is
<1>3. /\ phase' \in [Sockets -> {"unborn", "connecting", "open", "closing", "closed"}]
      /\ phase'[s] = p /\ \A t \in Sockets \ {s} : phase'[t] = phase[t]
  BY <1>2
<1>4. TsTypeOK'
  BY <1>1, <1>3, TsTyped, TsTypes DEF TsTypeOK
<1>5. Running' = Running
  BY <1>2, <1>3 DEF Running, Alive, Is
<1>6. NeverStuck'
  BY <1>2, <1>3 DEF NeverStuck, Alive, Is
<1>7. Untouched'
  BY <1>1, <1>2 DEF Untouched, Running, Alive, Is
<1>8. OnlySent'
  BY <1>1 DEF OnlySent
<1>9. OneLife'
  <2>1. wsState' = "connected" => Is("open")' # {}
    BY <1>2, <1>3 DEF Is
  <2>2. \A t \in Sockets : InOrder(t)' <=> InOrder(t)
    BY DEF InOrder
  <2>3. QED BY <1>1, <1>5, <2>1, <2>2 DEF OneLife
<1>10. QED BY <1>4, <1>6, <1>7, <1>8, <1>9, TsPack

LEMMA OpenedInv == ASSUME TsInv, NEW s \in Sockets, Opened(s) PROVE TsInv'
<1>1. s \in Running
  BY DEF Opened, Running, Alive, Is
<1>2. QED BY <1>1, PhaseInv DEF Opened

LEMMA ErrorInv == ASSUME TsInv, NEW s \in Sockets, Error(s) PROVE TsInv'
<1>1. s \in Running
  BY DEF Error, Running
<1>2. QED BY <1>1, PhaseInv DEF Error

(* The close event takes the socket away and leaves a timer.               *)
LEMMA ClosedInv == ASSUME TsInv, NEW s \in Sockets, Closed(s) PROVE TsInv'
<1>1. /\ s \in Running /\ phase' = [phase EXCEPT ![s] = "closed"]
      /\ wire' = [wire EXCEPT ![s] = <<>>] /\ ws' = NoSocket /\ wsState' = "error"
      /\ timers' = timers \cup {s} /\ handle' = s /\ UNCHANGED <<sent, got, calls, wanted>>
  BY DEF Closed, Retries, Running
<1>2. /\ TsTypeOK /\ Untouched /\ OnlySent /\ OneLife
      /\ phase \in [Sockets -> {"unborn", "connecting", "open", "closing", "closed"}]
      /\ wire \in [Sockets -> Seq(1 .. MaxBatches)] /\ timers \subseteq Sockets
  BY TsTypes DEF TsInv
<1>3. /\ phase' \in [Sockets -> {"unborn", "connecting", "open", "closing", "closed"}]
      /\ phase'[s] = "closed" /\ \A t \in Sockets \ {s} : phase'[t] = phase[t]
      /\ wire' \in [Sockets -> Seq(1 .. MaxBatches)]
      /\ wire'[s] = <<>> /\ \A t \in Sockets \ {s} : wire'[t] = wire[t]
  BY <1>1, <1>2
<1>4. TsTypeOK'
  <2>1. timers' \subseteq Sockets /\ ws' \in Sockets \cup {NoSocket} /\ handle' \in Sockets \cup {NoSocket}
    BY <1>1, <1>2
  <2>2. QED BY <1>1, <1>2, <1>3, <2>1, TsTyped DEF TsTypeOK
<1>5. NeverStuck'
  BY <1>1 DEF NeverStuck
<1>6. Untouched'
  BY <1>1, <1>2 DEF Untouched, Running, Alive, Is
<1>7. OnlySent'
  <2>1. ASSUME NEW t \in Sockets
        PROVE  \A i \in 1 .. Len(wire'[t]) : wire'[t][i] <= sent
    <3>1. CASE t = s
      BY <1>3, <3>1
    <3>2. CASE t # s
      BY <1>2, <1>3, <3>2 DEF OnlySent
    <3>3. QED BY <3>1, <3>2
  <2>2. QED BY <1>1, <1>2, <2>1 DEF OnlySent
<1>8. OneLife'
  <2> SUFFICES ASSUME calls' = 1 /\ wanted'
               PROVE  /\ \A t, u \in Running' : t = u
                      /\ \A t, u \in timers' : t = u
                      /\ Running' = {} \/ timers' = {}
                      /\ \A t \in Sockets \ Running' : wire'[t] = <<>>
                      /\ Ordered(got') /\ \A t \in Sockets : InOrder(t)'
    BY <1>1 DEF OneLife
  <2>1. /\ \A t, u \in Running : t = u
        /\ Running = {} \/ timers = {}
        /\ \A t \in Sockets \ Running : wire[t] = <<>>
        /\ Ordered(got)
    BY <1>1, <1>2 DEF OneLife
  <2>2. Running = {s} /\ timers' = {s}
    BY <1>1, <2>1
  <2>3. Running' = {}
    BY <1>3, <2>2 DEF Running, Alive, Is
  <2>4. \A t \in Sockets : wire'[t] = <<>>
    BY <1>3, <2>1, <2>2
  <2>5. \A t \in Sockets : InOrder(t)'
    BY <2>4 DEF InOrder, Ordered
  <2>6. QED BY <1>1, <2>1, <2>2, <2>3, <2>4, <2>5
<1>9. QED BY <1>4, <1>5, <1>6, <1>7, <1>8, TsPack

(* A broadcast is newer than whatever was sent before.                     *)
LEMMA BroadcastInv == ASSUME TsInv, Broadcast PROVE TsInv'
<1>1. /\ sent < MaxBatches /\ sent' = sent + 1
      /\ wire' = [s \in Sockets |-> IF phase[s] = "open" THEN Append(wire[s], sent') ELSE wire[s]]
      /\ UNCHANGED <<phase, ws, timers, handle, wsState, got, calls, wanted>>
  BY DEF Broadcast
<1>2. /\ TsTypeOK /\ NeverStuck /\ Untouched /\ OnlySent /\ OneLife
      /\ wire \in [Sockets -> Seq(1 .. MaxBatches)] /\ got \in Seq(1 .. MaxBatches)
      /\ sent \in Nat /\ MaxBatches \in Nat
  BY TsTypes DEF TsInv
<1>3. sent' \in 1 .. MaxBatches /\ sent' \in 0 .. MaxBatches
  BY <1>1, <1>2
<1>4. ASSUME NEW s \in Sockets
      PROVE  /\ wire'[s] \in Seq(1 .. MaxBatches) /\ wire[s] \in Seq(1 .. MaxBatches)
             /\ \/ wire'[s] = wire[s]
                \/ phase[s] = "open" /\ wire'[s] = Append(wire[s], sent')
  BY <1>1, <1>2, <1>3, Appended
<1>5. wire' \in [Sockets -> Seq(1 .. MaxBatches)]
  BY <1>1, <1>4
<1>6. TsTypeOK'
  BY <1>1, <1>2, <1>3, <1>5, TsTyped, TsTypes DEF TsTypeOK
<1>7. NeverStuck'
  BY <1>1, <1>2 DEF NeverStuck, Alive, Is
<1>8. Untouched'
  BY <1>1, <1>2, <1>4 DEF Untouched
<1>9. ASSUME NEW s \in Sockets, NEW j \in 1 .. Len(wire'[s])
      PROVE  \/ j \in 1 .. Len(wire[s]) /\ wire'[s][j] = wire[s][j]
             \/ wire'[s][j] = sent'
  <2>1. CASE wire'[s] = wire[s]
    BY <2>1
  <2>2. CASE wire'[s] = Append(wire[s], sent')
    <3> DEFINE t == Append(wire[s], sent')
    <3>1. \A i \in DOMAIN t : \/ i \in DOMAIN wire[s] /\ t[i] = wire[s][i]
                              \/ i = Len(wire[s]) + 1 /\ t[i] = sent'
      BY <1>3, <1>4, Appended
    <3>2. DOMAIN wire[s] = 1 .. Len(wire[s]) /\ DOMAIN t = 1 .. Len(t)
      BY <1>3, <1>4
    <3>3. QED BY <2>2, <3>1, <3>2
  <2>3. QED BY <1>4, <2>1, <2>2
<1>10. OnlySent'
  <2>1. \A i \in 1 .. Len(got') : got'[i] <= sent'
    <3>1. got \in Seq(Nat) /\ \A i \in 1 .. Len(got) : got[i] \in Nat /\ got[i] <= sent
      BY <1>2 DEF OnlySent
    <3>2. QED BY <1>1, <1>2, <3>1
  <2>2. ASSUME NEW s \in Sockets, NEW j \in 1 .. Len(wire'[s])
        PROVE  wire'[s][j] <= sent'
    <3>1. CASE wire'[s][j] = sent'
      BY <1>3, <3>1
    <3>2. CASE j \in 1 .. Len(wire[s]) /\ wire'[s][j] = wire[s][j]
      <4>1. wire[s][j] \in Nat /\ wire[s][j] <= sent
        BY <1>2, <1>4, <3>2 DEF OnlySent
      <4>2. QED BY <1>1, <1>2, <3>2, <4>1
    <3>3. QED BY <1>9, <3>1, <3>2
  <2>3. QED BY <2>1, <2>2 DEF OnlySent
<1>11. OneLife'
  <2> SUFFICES ASSUME calls' = 1 /\ wanted'
               PROVE  /\ \A s \in Sockets \ Running' : wire'[s] = <<>>
                      /\ \A s \in Sockets : InOrder(s)'
    <3>1. Running' = Running /\ Is("open")' = Is("open")
      BY <1>1 DEF Running, Alive, Is
    <3>2. QED BY <1>1, <1>2, <3>1 DEF OneLife
  <2>1. /\ \A s \in Sockets \ Running : wire[s] = <<>>
        /\ \A s \in Sockets : InOrder(s)
    BY <1>1, <1>2 DEF OneLife
  <2>2. ASSUME NEW s \in Sockets \ Running'
        PROVE  wire'[s] = <<>>
    <3>1. phase[s] # "open" /\ s \in Sockets \ Running
      BY <1>1 DEF Running, Alive, Is
    <3>2. QED BY <1>4, <2>1, <3>1
  <2>3. ASSUME NEW s \in Sockets
        PROVE  InOrder(s)'
    <3>1. /\ Ordered(wire[s]) /\ wire[s] \in Seq(Nat)
          /\ \A i \in 1 .. Len(got), j \in 1 .. Len(wire[s]) : got[i] < wire[s][j]
      BY <1>2, <1>4, <2>1 DEF InOrder
    <3>2. \A i \in 1 .. Len(wire[s]) : wire[s][i] < sent'
      <4>1. \A i \in 1 .. Len(wire[s]) : wire[s][i] \in Nat /\ wire[s][i] <= sent
        BY <1>2, <3>1 DEF OnlySent
      <4>2. QED BY <1>1, <1>2, <4>1
    <3>3. Ordered(wire'[s])
      <4>1. Ordered(Append(wire[s], sent'))
        BY <1>3, <3>1, <3>2, OrderedAppend
      <4>2. QED BY <1>4, <3>1, <4>1
    <3>4. \A i \in 1 .. Len(got) : got[i] < sent'
      <4>1. \A i \in 1 .. Len(got) : got[i] \in Nat /\ got[i] <= sent
        BY <1>2 DEF OnlySent
      <4>2. QED BY <1>1, <1>2, <4>1
    <3>5. \A i \in 1 .. Len(got), j \in 1 .. Len(wire'[s]) : got[i] < wire'[s][j]
      BY <1>9, <3>1, <3>4
    <3>6. QED BY <1>1, <3>3, <3>5 DEF InOrder
  <2>4. QED BY <2>2, <2>3
<1>12. QED BY <1>6, <1>7, <1>8, <1>10, <1>11, TsPack

LEMMA DispatchInv == ASSUME TsInv, NEW s \in Sockets, Dispatch(s) PROVE TsInv'
<1> DEFINE b == Head(wire[s])
<1>1. /\ phase[s] \in {"open", "closing"} /\ wire[s] # <<>>
      /\ got' = Append(got, b) /\ wire' = [wire EXCEPT ![s] = Tail(@)]
      /\ UNCHANGED <<phase, ws, timers, handle, wsState, sent, calls, wanted>>
  BY DEF Dispatch
<1>2. /\ TsTypeOK /\ NeverStuck /\ Untouched /\ OnlySent /\ OneLife
      /\ wire \in [Sockets -> Seq(1 .. MaxBatches)] /\ got \in Seq(1 .. MaxBatches)
      /\ sent \in Nat /\ MaxBatches \in Nat
  BY TsTypes DEF TsInv
<1>3. /\ b \in 1 .. MaxBatches /\ b = wire[s][1] /\ 1 \in 1 .. Len(wire[s])
      /\ Tail(wire[s]) \in Seq(1 .. MaxBatches)
      /\ \A i \in 1 .. Len(Tail(wire[s])) :
           i \in Nat /\ i + 1 \in 1 .. Len(wire[s]) /\ Tail(wire[s])[i] = wire[s][i + 1]
  <2>1. wire[s] \in Seq(1 .. MaxBatches)
    BY <1>2
  <2>2. DOMAIN wire[s] = 1 .. Len(wire[s]) /\ DOMAIN Tail(wire[s]) = 1 .. Len(Tail(wire[s]))
    BY <1>1, <2>1
  <2>3. QED BY <1>1, <2>1, <2>2, Shortened
<1>4. /\ wire' \in [Sockets -> Seq(1 .. MaxBatches)] /\ wire'[s] = Tail(wire[s])
      /\ \A t \in Sockets \ {s} : wire'[t] = wire[t]
  BY <1>1, <1>2, <1>3
<1> HIDE DEF b
<1>5. got' \in Seq(1 .. MaxBatches)
  BY <1>1, <1>2, <1>3, Appended
<1>6. TsTypeOK'
  BY <1>1, <1>2, <1>4, <1>5, TsTyped, TsTypes DEF TsTypeOK
<1>7. NeverStuck'
  BY <1>1, <1>2 DEF NeverStuck, Alive, Is
<1>8. Untouched'
  BY <1>1, <1>2 DEF Untouched
<1>9. \A i \in 1 .. Len(got') : \/ i \in 1 .. Len(got) /\ got'[i] = got[i]
                                \/ got'[i] = b
  <2>1. \A i \in DOMAIN Append(got, b) : \/ i \in DOMAIN got /\ Append(got, b)[i] = got[i]
                                         \/ i = Len(got) + 1 /\ Append(got, b)[i] = b
    BY <1>2, <1>3, Appended
  <2>2. DOMAIN got = 1 .. Len(got) /\ DOMAIN got' = 1 .. Len(got')
    BY <1>2, <1>5
  <2>3. QED BY <1>1, <2>1, <2>2
<1>10. OnlySent'
  <2>1. b <= sent
    BY <1>2, <1>3 DEF OnlySent
  <2>2. \A i \in 1 .. Len(got') : got'[i] <= sent
    BY <1>2, <1>9, <2>1 DEF OnlySent
  <2>3. ASSUME NEW t \in Sockets, NEW j \in 1 .. Len(wire'[t])
        PROVE  wire'[t][j] <= sent
    <3>1. CASE t = s
      BY <1>2, <1>3, <1>4, <3>1 DEF OnlySent
    <3>2. CASE t # s
      BY <1>2, <1>4, <3>2 DEF OnlySent
    <3>3. QED BY <3>1, <3>2
  <2>4. QED BY <1>1, <2>2, <2>3 DEF OnlySent
<1>11. OneLife'
  <2> SUFFICES ASSUME calls' = 1 /\ wanted'
               PROVE  /\ \A t \in Sockets \ Running' : wire'[t] = <<>>
                      /\ Ordered(got') /\ \A t \in Sockets : InOrder(t)'
    <3>1. Running' = Running /\ Is("open")' = Is("open")
      BY <1>1 DEF Running, Alive, Is
    <3>2. QED BY <1>1, <1>2, <3>1 DEF OneLife
  <2>1. /\ \A t, u \in Running : t = u
        /\ \A t \in Sockets \ Running : wire[t] = <<>>
        /\ Ordered(got) /\ InOrder(s)
    BY <1>1, <1>2 DEF OneLife
  <2>2. s \in Running /\ Running' = Running
    BY <1>1 DEF Running, Alive, Is
  <2>3. \A t \in Sockets \ {s} : wire'[t] = <<>>
    BY <1>4, <2>1, <2>2
  <2>4. /\ wire[s] \in Seq(Nat) /\ got \in Seq(Nat) /\ b \in Nat /\ Ordered(wire[s])
        /\ \A i \in 1 .. Len(got), j \in 1 .. Len(wire[s]) : got[i] < wire[s][j]
    BY <1>2, <1>3, <2>1 DEF InOrder
  <2>5. /\ Ordered(Tail(wire[s]))
        /\ \A i \in 1 .. Len(Tail(wire[s])) : b < Tail(wire[s])[i]
    BY <1>1, <2>4, OrderedTail DEF b
  <2>6. Ordered(got')
    <3>1. \A i \in 1 .. Len(got) : got[i] < b
      BY <1>3, <2>4
    <3>2. QED BY <1>1, <2>1, <2>4, <3>1, OrderedAppend
  <2>7. InOrder(s)'
    <3>1. ASSUME NEW i \in 1 .. Len(got'), NEW j \in 1 .. Len(wire'[s])
          PROVE  got'[i] < wire'[s][j]
      <4>1. CASE got'[i] = b
        BY <1>4, <2>5, <4>1
      <4>2. CASE i \in 1 .. Len(got) /\ got'[i] = got[i]
        BY <1>3, <1>4, <2>4, <4>2
      <4>3. QED BY <1>9, <4>1, <4>2
    <3>2. QED BY <1>4, <2>5, <3>1 DEF InOrder
  <2>8. ASSUME NEW t \in Sockets
        PROVE  InOrder(t)'
    <3>1. CASE t = s
      BY <2>7, <3>1
    <3>2. CASE t # s
      BY <2>3, <3>2 DEF InOrder, Ordered
    <3>3. QED BY <3>1, <3>2
  <2>9. QED BY <2>2, <2>3, <2>6, <2>8
<1>12. QED BY <1>6, <1>7, <1>8, <1>10, <1>11, TsPack

LEMMA TsNextInv == TsInv /\ [TsNext]_tsVars => TsInv'
<1> SUFFICES ASSUME TsInv, [TsNext]_tsVars PROVE TsInv'
  OBVIOUS
<1>1. CASE UNCHANGED tsVars
  BY <1>1 DEF tsVars, socket, TsInv, TsTypeOK, NeverStuck, Untouched, OnlySent, OneLife, InOrder,
              Running, Alive, Is
<1>2. CASE TsNext
  BY <1>2, ConnectInv, DisconnectInv, BroadcastInv, TimerFiresInv, OpenedInv, ErrorInv,
     ClosedInv, DispatchInv DEF TsNext
<1>3. QED BY <1>1, <1>2

(* client.ts:679-790: for any number of sockets, calls and batches, the    *)
(* client that wants to be connected always has a socket or a timer, and   *)
(* one that was connected by a single call hears each batch once, in order.*)
THEOREM OneStreamHeard == TsSpec => []TsStreams
<1>1. ASSUME TsInv
      PROVE  TsStreams
  <2> SUFFICES ASSUME calls = 1 /\ wanted
               PROVE  /\ \A i \in 1 .. Len(got) - 1 : got[i] < got[i + 1]
                      /\ Cardinality(Alive) <= 1
                      /\ wsState = "connected" => Is("open") # {}
    BY <1>1 DEF TsInv, TsStreams, OneStream
  <2>1. /\ Ordered(got) /\ \A s, t \in Running : s = t
        /\ wsState = "connected" => Is("open") # {}
    BY <1>1 DEF TsInv, OneLife
  <2>2. \A i \in 1 .. Len(got) - 1 : got[i] < got[i + 1]
    <3>1. Len(got) \in Nat
      BY <1>1, TsTypes DEF TsInv
    <3>2. \A i \in 1 .. Len(got) - 1 : i \in 1 .. Len(got) /\ i + 1 \in 1 .. Len(got) /\ i < i + 1
      BY <3>1
    <3>3. QED BY <2>1, <3>2 DEF Ordered
  <2>3. Cardinality(Alive) <= 1
    <3>1. \A s, t \in Alive : s = t
      BY <2>1 DEF Running
    <3>2. CASE Alive = {}
      BY <3>2, FS_EmptySet
    <3>3. CASE Alive # {}
      <4>1. PICK s \in Alive : TRUE
        BY <3>3
      <4>2. Alive = {s}
        BY <3>1
      <4>3. Cardinality({s}) = 1
        BY FS_Singleton
      <4>4. QED BY <4>2, <4>3
    <3>4. QED BY <3>2, <3>3
  <2>4. QED BY <2>1, <2>2, <2>3
<1>2. TsInv => TsStreams
  BY <1>1
<1>3. QED BY <1>2, TsInitInv, TsNextInv, PTL DEF TsSpec

-----------------------------------------------------------------------------
(* The listing that the clones of a Rust client share (RestClient).        *)

LEMMA CallTypes ==
  ASSUME CallsInv
  PROVE  /\ listed \in Nat /\ detail \in Nat /\ 1 <= listed
         /\ where \in [Tasks -> {"idle", "cleared", "asked", "answered", "cached", "resolving"}]
         /\ reply \in [Tasks -> Nat] /\ alone \in [Tasks -> Nat]
<1>1. {listed, detail} \subseteq Nat /\ {reply, alone} \subseteq [Tasks -> Nat]
  BY DEF CallsInv
<1>2. QED BY <1>1 DEF CallsInv

LEMMA CallPack ==
  ASSUME listed' \in Nat, 1 <= listed', detail' \in Nat,
         where' \in [Tasks -> {"idle", "cleared", "asked", "answered", "cached", "resolving"}],
         reply' \in [Tasks -> Nat], alone' \in [Tasks -> Nat],
         \A t \in Tasks : Storing(t)' => reply'[t] \in 1 .. listed',
         \A t \in Tasks : alone'[t] # 0 =>
           /\ alone'[t] <= listed'
           /\ detail' # NoListing => alone'[t] <= detail'
           /\ \A u \in Tasks : Storing(u)' => alone'[t] <= reply'[u]
           /\ where'[t] \notin {"cleared", "asked"} /\ reply'[t] # NoListing => alone'[t] <= reply'[t]
  PROVE  CallsInv'
<1>1. {listed', detail'} \subseteq Nat /\ {reply', alone'} \subseteq [Tasks -> Nat]
  OBVIOUS
<1>2. QED BY <1>1 DEF CallsInv

(* The three parts of OneListing, by what they depend on.                  *)
MapIsListed == symbolIds = {} \/ \E n \in 1 .. listed : symbolIds = {p \in Rows(n) : p[2] # 0}
FilterIsListed ==
  filter # <<>> /\ filter.on =>
    \E n \in 1 .. listed : filter.ids = {TickerId[s] : s \in Listings[n] \cap chosen} \ {0}
RefreshIsNew ==
  \A t \in Tasks : where[t] = "idle" /\ alone[t] # 0 /\ reply[t] # NoListing => reply[t] >= alone[t]

LEMMA ListingParts == ListingInv <=> CallsInv /\ MapIsListed /\ FilterIsListed /\ RefreshIsNew
  BY DEF ListingInv, OneListing, MapIsListed, FilterIsListed, RefreshIsNew

LEMMA CallsSayNew == CallsInv => RefreshIsNew
<1> SUFFICES ASSUME CallsInv, NEW t \in Tasks, where[t] = "idle", alone[t] # 0, reply[t] # NoListing
             PROVE  reply[t] >= alone[t]
  BY DEF RefreshIsNew
<1>1. alone[t] <= reply[t] /\ alone[t] \in Nat /\ reply[t] \in Nat
  BY CallTypes DEF CallsInv
<1>2. QED BY <1>1

LEMMA ListingPack ==
  ASSUME CallsInv', MapIsListed', FilterIsListed'
  PROVE  ListingInv'
<1>1. RefreshIsNew'
  <2> SUFFICES ASSUME NEW t \in Tasks, where'[t] = "idle", alone'[t] # 0, reply'[t] # NoListing
               PROVE  reply'[t] >= alone'[t]
    BY DEF RefreshIsNew
  <2>1. alone'[t] <= reply'[t]
    BY DEF CallsInv
  <2>2. reply' \in [Tasks -> Nat] /\ alone' \in [Tasks -> Nat]
    BY DEF CallsInv
  <2>3. alone'[t] \in Nat /\ reply'[t] \in Nat
    BY <2>2
  <2>4. QED BY <2>1, <2>3
<1>2. QED BY <1>1 DEF ListingInv, OneListing, MapIsListed, FilterIsListed, RefreshIsNew

(* Steps that leave the map and the stream alone; the listing may grow.    *)
LEMMA SameMap ==
  ASSUME ListingInv, listed' \in Nat, listed <= listed', symbolIds' = symbolIds
  PROVE  MapIsListed'
<1>1. MapIsListed /\ listed \in Nat
  BY ListingParts, CallTypes
<1>2. \A n \in 1 .. listed : n \in 1 .. listed'
  BY <1>1
<1>3. QED BY <1>1, <1>2 DEF MapIsListed, Rows

LEMMA SameStream ==
  ASSUME ListingInv, listed' \in Nat, listed <= listed', filter' = filter, chosen' = chosen
  PROVE  FilterIsListed'
<1>1. FilterIsListed /\ listed \in Nat
  BY ListingParts, CallTypes
<1>2. \A n \in 1 .. listed : n \in 1 .. listed'
  BY <1>1
<1>3. QED BY <1>1, <1>2 DEF FilterIsListed

LEMMA RestInitInv == RestInit => ListingInv
<1> SUFFICES ASSUME RestInit PROVE ListingInv
  OBVIOUS
<1>1. {listed, detail} \subseteq Nat /\ {reply, alone} \subseteq [Tasks -> Nat]
  BY DEF RestInit, NoListing
<1>2. where \in [Tasks -> {"idle", "cleared", "asked", "answered", "cached", "resolving"}]
  BY DEF RestInit
<1>3. CallsInv
  BY <1>1, <1>2 DEF RestInit, CallsInv, Storing
<1>4. MapIsListed /\ FilterIsListed /\ RefreshIsNew
  BY DEF RestInit, MapIsListed, FilterIsListed, RefreshIsNew
<1>5. QED BY <1>3, <1>4, ListingParts

LEMMA RelistInv == ASSUME ListingInv, Relist PROVE ListingInv'
<1>1. /\ listed' = listed + 1
      /\ UNCHANGED <<detail, symbolIds, where, reply, alone, filter, chosen>>
  BY DEF Relist, streamVars
<1>2. CallsInv /\ listed \in Nat /\ reply \in [Tasks -> Nat] /\ alone \in [Tasks -> Nat]
  BY CallTypes, ListingParts
<1>3. listed' \in Nat /\ listed <= listed'
  BY <1>1, <1>2
<1>4. CallsInv'
  BY <1>1, <1>2, <1>3 DEF CallsInv, Storing
<1>5. QED BY <1>1, <1>3, <1>4, SameMap, SameStream, ListingPack

(* A call that asks: what it finds in the cache is no older than any       *)
(* refresh that is still undisturbed.                                      *)
LEMMA LookCalls ==
  ASSUME CallsInv, NEW t \in Tasks, NEW then \in {"idle", "resolving"},
         where[t] \in {"idle", "cleared"}, Look(t, detail, then),
         listed' = listed, detail' = detail, alone' \in [Tasks -> Nat],
         \A u \in Tasks : alone'[u] # 0 => alone'[u] = alone[u]
  PROVE  CallsInv'
<1>1. /\ listed \in Nat /\ detail \in Nat /\ reply \in [Tasks -> Nat] /\ alone \in [Tasks -> Nat]
      /\ where \in [Tasks -> {"idle", "cleared", "asked", "answered", "cached", "resolving"}]
  BY CallTypes
<1>2. CASE detail # NoListing
  <2>1. where' = [where EXCEPT ![t] = then] /\ reply' = [reply EXCEPT ![t] = detail]
    BY <1>2 DEF Look
  <2>2. /\ where' \in [Tasks -> {"idle", "cleared", "asked", "answered", "cached", "resolving"}]
        /\ reply' \in [Tasks -> Nat]
    BY <1>1, <2>1
  <2>3. \A u \in Tasks : Storing(u)' => Storing(u) /\ reply'[u] = reply[u]
    BY <1>1, <2>1 DEF Storing
  <2>4. \A u \in Tasks : \/ u = t /\ reply'[u] = detail
                         \/ where'[u] = where[u] /\ reply'[u] = reply[u]
    BY <1>1, <2>1
  <2>5. QED BY <1>1, <2>2, <2>3, <2>4, <1>2, CallPack DEF CallsInv
<1>3. CASE detail = NoListing
  <2>1. where' = [where EXCEPT ![t] = "asked"] /\ reply' = reply
    BY <1>3 DEF Look
  <2>2. where' \in [Tasks -> {"idle", "cleared", "asked", "answered", "cached", "resolving"}]
    BY <1>1, <2>1
  <2>3. \A u \in Tasks : Storing(u)' => Storing(u)
    BY <1>1, <2>1 DEF Storing
  <2>4. \A u \in Tasks : where'[u] = "asked" \/ where'[u] = where[u]
    BY <1>1, <2>1
  <2>5. QED BY <1>1, <2>1, <2>2, <2>3, <2>4, <1>3, CallPack DEF CallsInv
<1>4. QED BY <1>2, <1>3

LEMMA CallDetailInv == ASSUME ListingInv, NEW t \in Tasks, CallDetail(t) PROVE ListingInv'
<1>1. /\ where[t] = "idle" /\ alone' = [Disturbed(t) EXCEPT ![t] = 0] /\ Look(t, detail, "idle")
      /\ UNCHANGED <<listed, detail, symbolIds, filter, chosen>>
  BY DEF CallDetail, streamVars
<1>2. CallsInv /\ listed \in Nat
  BY CallTypes, ListingParts
<1>3. alone' \in [Tasks -> Nat] /\ \A u \in Tasks : alone'[u] = 0
  BY <1>1 DEF Disturbed
<1>4. CallsInv'
  BY <1>1, <1>2, <1>3, LookCalls
<1>5. listed' \in Nat /\ listed <= listed'
  BY <1>1, <1>2
<1>6. QED BY <1>1, <1>4, <1>5, SameMap, SameStream, ListingPack

LEMMA RefreshLooksInv == ASSUME ListingInv, NEW t \in Tasks, RefreshLooks(t) PROVE ListingInv'
<1>1. /\ where[t] = "cleared" /\ Look(t, detail, "idle")
      /\ UNCHANGED <<listed, detail, symbolIds, alone, filter, chosen>>
  BY DEF RefreshLooks, streamVars
<1>2. CallsInv /\ listed \in Nat /\ alone \in [Tasks -> Nat]
  BY CallTypes, ListingParts
<1>3. CallsInv'
  BY <1>1, <1>2, LookCalls
<1>4. listed' \in Nat /\ listed <= listed'
  BY <1>1, <1>2
<1>5. QED BY <1>1, <1>3, <1>4, SameMap, SameStream, ListingPack

(* A refresh starts the count of what may no longer be handed out.         *)
LEMMA CallRefreshInv == ASSUME ListingInv, NEW t \in Tasks, CallRefresh(t) PROVE ListingInv'
<1>1. /\ where[t] = "idle" /\ detail' = NoListing /\ where' = [where EXCEPT ![t] = "cleared"]
      /\ alone' = [Disturbed(t) EXCEPT ![t] = IF Asking = {} THEN listed ELSE 0]
      /\ UNCHANGED <<listed, symbolIds, reply, filter, chosen>>
  BY DEF CallRefresh, streamVars
<1>2. /\ CallsInv /\ listed \in Nat /\ 1 <= listed /\ detail \in Nat
      /\ reply \in [Tasks -> Nat] /\ alone \in [Tasks -> Nat]
      /\ where \in [Tasks -> {"idle", "cleared", "asked", "answered", "cached", "resolving"}]
  BY CallTypes, ListingParts
<1>3. /\ alone' \in [Tasks -> Nat] /\ \A u \in Tasks \ {t} : alone'[u] = 0
      /\ alone'[t] = 0 \/ (Asking = {} /\ alone'[t] = listed)
  BY <1>1, <1>2 DEF Disturbed
<1>4. where' \in [Tasks -> {"idle", "cleared", "asked", "answered", "cached", "resolving"}]
  BY <1>1, <1>2
<1>5. \A u \in Tasks : Storing(u)' => Storing(u) /\ u \in Asking
  BY <1>1, <1>2 DEF Storing, Asking
<1>6. where'[t] = "cleared" /\ detail' \in Nat
  BY <1>1, <1>2 DEF NoListing
<1>7. \A u \in Tasks : Storing(u)' => reply'[u] \in 1 .. listed'
  BY <1>1, <1>2, <1>5 DEF CallsInv
<1>8. \A u \in Tasks : alone'[u] # 0 => u = t /\ Asking = {} /\ alone'[u] = listed'
  BY <1>1, <1>3
<1>9. CallsInv'
  <2>1. listed' \in Nat /\ 1 <= listed' /\ reply' \in [Tasks -> Nat] /\ listed' <= listed'
    BY <1>1, <1>2
  <2>2. \A u \in Tasks : alone'[u] # 0 =>
           /\ alone'[u] <= listed'
           /\ detail' # NoListing => alone'[u] <= detail'
           /\ \A v \in Tasks : Storing(v)' => alone'[u] <= reply'[v]
           /\ where'[u] \notin {"cleared", "asked"} /\ reply'[u] # NoListing => alone'[u] <= reply'[u]
    BY <1>1, <1>5, <1>6, <1>8, <2>1
  <2>3. QED BY <1>3, <1>4, <1>6, <1>7, <2>1, <2>2, CallPack
<1>10. listed' \in Nat /\ listed <= listed'
  BY <1>1, <1>2
<1>11. QED BY <1>1, <1>9, <1>10, SameMap, SameStream, ListingPack

(* What the server answers now is as new as any refresh.                   *)
LEMMA RepliedInv == ASSUME ListingInv, NEW t \in Tasks, Replied(t) PROVE ListingInv'
<1>1. /\ where[t] = "asked" /\ where' = [where EXCEPT ![t] = "answered"]
      /\ reply' = [reply EXCEPT ![t] = listed]
      /\ UNCHANGED <<listed, detail, symbolIds, alone, filter, chosen>>
  BY DEF Replied, streamVars
<1>2. /\ CallsInv /\ listed \in Nat /\ 1 <= listed /\ detail \in Nat
      /\ reply \in [Tasks -> Nat] /\ alone \in [Tasks -> Nat]
      /\ where \in [Tasks -> {"idle", "cleared", "asked", "answered", "cached", "resolving"}]
      /\ MapIsListed
  BY CallTypes, ListingParts
<1>3. /\ where' \in [Tasks -> {"idle", "cleared", "asked", "answered", "cached", "resolving"}]
      /\ reply' \in [Tasks -> Nat]
      /\ reply'[t] = listed /\ where'[t] = "answered"
      /\ \A u \in Tasks \ {t} : reply'[u] = reply[u] /\ where'[u] = where[u]
  BY <1>1, <1>2
<1>4. listed \in 1 .. listed
  BY <1>2 DEF CallsInv
<1>5. \A u \in Tasks : Storing(u)' => reply'[u] \in 1 .. listed'
  BY <1>1, <1>2, <1>3, <1>4 DEF CallsInv, Storing
<1>6. \A u \in Tasks : alone'[u] # 0 =>
           /\ alone'[u] <= listed'
           /\ detail' # NoListing => alone'[u] <= detail'
           /\ \A v \in Tasks : Storing(v)' => alone'[u] <= reply'[v]
           /\ where'[u] \notin {"cleared", "asked"} /\ reply'[u] # NoListing => alone'[u] <= reply'[u]
  BY <1>1, <1>2, <1>3 DEF CallsInv, Storing
<1>7. CallsInv'
  BY <1>1, <1>2, <1>3, <1>5, <1>6, CallPack
<1>8. listed' \in Nat /\ listed <= listed'
  BY <1>1, <1>2
<1>9. QED BY <1>1, <1>7, <1>8, SameMap, SameStream, ListingPack

LEMMA FailInv == ASSUME ListingInv, NEW t \in Tasks, Fail(t) PROVE ListingInv'
<1>1. /\ where[t] = "asked" /\ where' = [where EXCEPT ![t] = Resume(t)]
      /\ reply' = [reply EXCEPT ![t] = NoListing]
      /\ UNCHANGED <<listed, detail, symbolIds, alone, filter, chosen>>
  BY DEF Fail, streamVars
<1>2. /\ CallsInv /\ listed \in Nat /\ 1 <= listed /\ detail \in Nat
      /\ reply \in [Tasks -> Nat] /\ alone \in [Tasks -> Nat]
      /\ where \in [Tasks -> {"idle", "cleared", "asked", "answered", "cached", "resolving"}]
  BY CallTypes, ListingParts
<1>3. Resume(t) \in {"idle", "resolving"}
  BY DEF Resume
<1>4. /\ where' \in [Tasks -> {"idle", "cleared", "asked", "answered", "cached", "resolving"}]
      /\ reply' \in [Tasks -> Nat]
      /\ reply'[t] = NoListing /\ where'[t] \in {"idle", "resolving"}
      /\ \A u \in Tasks \ {t} : reply'[u] = reply[u] /\ where'[u] = where[u]
  BY <1>1, <1>2, <1>3 DEF NoListing
<1>5. \A u \in Tasks : Storing(u)' => Storing(u) /\ reply'[u] = reply[u]
  BY <1>4 DEF Storing
<1>6. CallsInv'
  BY <1>1, <1>2, <1>4, <1>5, CallPack DEF CallsInv
<1>7. listed' \in Nat /\ listed <= listed'
  BY <1>1, <1>2
<1>8. QED BY <1>1, <1>6, <1>7, SameMap, SameStream, ListingPack

LEMMA StoreCacheInv == ASSUME ListingInv, NEW t \in Tasks, StoreCache(t) PROVE ListingInv'
<1>1. /\ where[t] = "answered" /\ where' = [where EXCEPT ![t] = "cached"] /\ detail' = reply[t]
      /\ UNCHANGED <<listed, symbolIds, reply, alone, filter, chosen>>
  BY DEF StoreCache, streamVars
<1>2. /\ CallsInv /\ listed \in Nat /\ 1 <= listed /\ reply \in [Tasks -> Nat] /\ alone \in [Tasks -> Nat]
      /\ where \in [Tasks -> {"idle", "cleared", "asked", "answered", "cached", "resolving"}]
  BY CallTypes, ListingParts
<1>3. /\ where' \in [Tasks -> {"idle", "cleared", "asked", "answered", "cached", "resolving"}]
      /\ detail' \in Nat /\ where'[t] = "cached" /\ \A u \in Tasks \ {t} : where'[u] = where[u]
  BY <1>1, <1>2
<1>4. Storing(t) /\ \A u \in Tasks : Storing(u)' <=> Storing(u)
  BY <1>1, <1>3 DEF Storing
<1>5. \A u \in Tasks : alone'[u] # 0 =>
           /\ alone'[u] <= listed'
           /\ detail' # NoListing => alone'[u] <= detail'
           /\ \A v \in Tasks : Storing(v)' => alone'[u] <= reply'[v]
           /\ where'[u] \notin {"cleared", "asked"} /\ reply'[u] # NoListing => alone'[u] <= reply'[u]
  BY <1>1, <1>2, <1>3, <1>4 DEF CallsInv
<1>6. \A u \in Tasks : Storing(u)' => reply'[u] \in 1 .. listed'
  BY <1>1, <1>2, <1>4 DEF CallsInv
<1>7. CallsInv'
  BY <1>1, <1>2, <1>3, <1>5, <1>6, CallPack
<1>8. listed' \in Nat /\ listed <= listed'
  BY <1>1, <1>2
<1>9. QED BY <1>1, <1>7, <1>8, SameMap, SameStream, ListingPack

(* Whichever answer is stored last, the map is that listing, and no other. *)
LEMMA StoreMapInv == ASSUME ListingInv, NEW t \in Tasks, StoreMap(t) PROVE ListingInv'
<1>1. /\ where[t] = "cached" /\ where' = [where EXCEPT ![t] = Resume(t)]
      /\ symbolIds' = {p \in Rows(reply[t]) : p[2] # 0}
      /\ UNCHANGED <<listed, detail, reply, alone, filter, chosen>>
  BY DEF StoreMap, NewMap, streamVars
<1>2. /\ CallsInv /\ listed \in Nat /\ 1 <= listed /\ detail \in Nat
      /\ reply \in [Tasks -> Nat] /\ alone \in [Tasks -> Nat]
      /\ where \in [Tasks -> {"idle", "cleared", "asked", "answered", "cached", "resolving"}]
  BY CallTypes, ListingParts
<1>3. Resume(t) \in {"idle", "resolving"}
  BY DEF Resume
<1>4. /\ where' \in [Tasks -> {"idle", "cleared", "asked", "answered", "cached", "resolving"}]
      /\ where'[t] \in {"idle", "resolving"} /\ \A u \in Tasks \ {t} : where'[u] = where[u]
  BY <1>1, <1>2, <1>3
<1>5. \A u \in Tasks : Storing(u)' => Storing(u)
  BY <1>4 DEF Storing
<1>6. Storing(t) /\ reply[t] \in 1 .. listed
  BY <1>1, <1>2 DEF Storing, CallsInv
<1>7. \A u \in Tasks : alone'[u] # 0 =>
           /\ alone'[u] <= listed'
           /\ detail' # NoListing => alone'[u] <= detail'
           /\ \A v \in Tasks : Storing(v)' => alone'[u] <= reply'[v]
           /\ where'[u] \notin {"cleared", "asked"} /\ reply'[u] # NoListing => alone'[u] <= reply'[u]
  BY <1>1, <1>2, <1>4, <1>5, <1>6 DEF CallsInv
<1>8. CallsInv'
  BY <1>1, <1>2, <1>4, <1>5, <1>7, CallPack DEF CallsInv
<1>9. MapIsListed'
  BY <1>1, <1>6 DEF MapIsListed, Rows
<1>10. listed' \in Nat /\ listed <= listed'
  BY <1>1, <1>2
<1>11. QED BY <1>1, <1>8, <1>9, <1>10, SameStream, ListingPack

LEMMA SubscribeInv ==
  ASSUME ListingInv, NEW t \in Tasks, NEW ns, Subscribe(t, ns)
  PROVE  ListingInv'
<1>1. /\ where[t] = "idle" /\ alone' = Disturbed(t) /\ UNCHANGED <<listed, detail, symbolIds>>
      /\ \/ filter' = [on |-> FALSE, ids |-> {}] /\ UNCHANGED <<where, reply>>
         \/ Look(t, detail, "resolving") /\ UNCHANGED <<filter, chosen>>
         \/ /\ where' = [where EXCEPT ![t] = "resolving"]
            /\ UNCHANGED <<reply, filter, chosen>>
  BY DEF Subscribe, StreamOpened, streamVars
<1>2. /\ CallsInv /\ listed \in Nat /\ 1 <= listed /\ detail \in Nat
      /\ reply \in [Tasks -> Nat] /\ alone \in [Tasks -> Nat]
      /\ where \in [Tasks -> {"idle", "cleared", "asked", "answered", "cached", "resolving"}]
  BY CallTypes, ListingParts
<1>3. /\ alone' \in [Tasks -> Nat] /\ \A u \in Tasks : alone'[u] # 0 => alone'[u] = alone[u]
      /\ listed' \in Nat /\ listed <= listed'
  BY <1>1, <1>2 DEF Disturbed
<1>4. MapIsListed'
  BY <1>1, <1>3, SameMap
<1>5. CASE Look(t, detail, "resolving") /\ UNCHANGED <<filter, chosen>>
  <2>1. CallsInv'
    BY <1>1, <1>2, <1>3, <1>5, LookCalls
  <2>2. QED BY <1>3, <1>4, <1>5, <2>1, SameStream, ListingPack
<1>6. ASSUME reply' = reply, where' \in [Tasks -> {"idle", "cleared", "asked", "answered", "cached", "resolving"}],
             \A u \in Tasks : where'[u] = where[u] \/ (where[u] = "idle" /\ where'[u] = "resolving")
      PROVE  CallsInv'
  <2>1. \A u \in Tasks : Storing(u)' => Storing(u)
    BY <1>6 DEF Storing
  <2>2. \A u \in Tasks : alone'[u] # 0 =>
           /\ alone'[u] <= listed'
           /\ detail' # NoListing => alone'[u] <= detail'
           /\ \A v \in Tasks : Storing(v)' => alone'[u] <= reply'[v]
           /\ where'[u] \notin {"cleared", "asked"} /\ reply'[u] # NoListing => alone'[u] <= reply'[u]
    BY <1>1, <1>2, <1>3, <1>6, <2>1 DEF CallsInv
  <2>3. QED BY <1>1, <1>2, <1>3, <1>6, <2>1, <2>2, CallPack DEF CallsInv
<1>7. CASE filter' = [on |-> FALSE, ids |-> {}] /\ UNCHANGED <<where, reply>>
  <2>1. CallsInv'
    BY <1>2, <1>6, <1>7
  <2>2. FilterIsListed'
    BY <1>7 DEF FilterIsListed
  <2>3. QED BY <1>4, <2>1, <2>2, ListingPack
<1>8. CASE where' = [where EXCEPT ![t] = "resolving"] /\ UNCHANGED <<reply, filter, chosen>>
  <2>1. CallsInv'
    BY <1>1, <1>2, <1>6, <1>8
  <2>2. QED BY <1>3, <1>4, <1>8, <2>1, SameStream, ListingPack
<1>9. QED BY <1>1, <1>5, <1>7, <1>8

(* The ids of a filter are looked up in one state of the map.              *)
LEMMA ResolveInv == ASSUME ListingInv, NEW t \in Tasks, Resolve(t) PROVE ListingInv'
<1>1. /\ where[t] = "resolving" /\ where' = [where EXCEPT ![t] = "idle"]
      /\ filter' = Allowed(wants[t]) /\ chosen' = wants[t]
      /\ UNCHANGED <<listed, detail, symbolIds, reply, alone>>
  BY DEF Resolve, StreamOpened
<1>2. /\ CallsInv /\ listed \in Nat /\ 1 <= listed /\ detail \in Nat
      /\ reply \in [Tasks -> Nat] /\ alone \in [Tasks -> Nat]
      /\ where \in [Tasks -> {"idle", "cleared", "asked", "answered", "cached", "resolving"}]
      /\ MapIsListed
  BY CallTypes, ListingParts
<1>3. /\ where' \in [Tasks -> {"idle", "cleared", "asked", "answered", "cached", "resolving"}]
      /\ where'[t] = "idle" /\ \A u \in Tasks \ {t} : where'[u] = where[u]
  BY <1>1, <1>2
<1>4. \A u \in Tasks : Storing(u)' => Storing(u)
  BY <1>3 DEF Storing
<1>5. \A u \in Tasks : alone'[u] # 0 =>
           /\ alone'[u] <= listed'
           /\ detail' # NoListing => alone'[u] <= detail'
           /\ \A v \in Tasks : Storing(v)' => alone'[u] <= reply'[v]
           /\ where'[u] \notin {"cleared", "asked"} /\ reply'[u] # NoListing => alone'[u] <= reply'[u]
  BY <1>1, <1>2, <1>3, <1>4 DEF CallsInv
<1>6. CallsInv'
  BY <1>1, <1>2, <1>3, <1>4, <1>5, CallPack DEF CallsInv
<1>7. FilterIsListed'
  <2> DEFINE found == {p[2] : p \in {q \in symbolIds : q[1] \in wants[t]}}
  <2> SUFFICES ASSUME found # {}
               PROVE  \E n \in 1 .. listed :
                        found = {TickerId[s] : s \in Listings[n] \cap wants[t]} \ {0}
    BY <1>1 DEF FilterIsListed, Allowed
  <2>1. PICK n \in 1 .. listed : symbolIds = {p \in Rows(n) : p[2] # 0}
    BY <1>2 DEF MapIsListed
  <2>2. ASSUME NEW id
        PROVE  id \in found <=> id \in {TickerId[s] : s \in Listings[n] \cap wants[t]} \ {0}
    <3>1. ASSUME id \in found
          PROVE  id \in {TickerId[s] : s \in Listings[n] \cap wants[t]} \ {0}
      <4>1. PICK p \in symbolIds : p[1] \in wants[t] /\ p[2] = id
        BY <3>1
      <4>2. PICK s \in Listings[n] : p = <<s, TickerId[s]>>
        BY <2>1 DEF Rows
      <4>3. p[2] # 0 /\ p[1] = s /\ p[2] = TickerId[s]
        BY <2>1, <4>2
      <4>4. QED BY <4>1, <4>3
    <3>2. ASSUME NEW s \in Listings[n] \cap wants[t], id = TickerId[s], id # 0
          PROVE  id \in found
      <4>1. <<s, TickerId[s]>> \in symbolIds
        BY <2>1, <3>2 DEF Rows
      <4>2. QED BY <3>2, <4>1
    <3>3. QED BY <3>1, <3>2
  <2>3. QED BY <2>2
<1>8. MapIsListed'
  BY <1>1, <1>2 DEF MapIsListed, Rows
<1>9. QED BY <1>6, <1>7, <1>8, ListingPack

LEMMA RestNextInv == ListingInv /\ [RestNext]_restVars => ListingInv'
<1> SUFFICES ASSUME ListingInv, [RestNext]_restVars PROVE ListingInv'
  OBVIOUS
<1>1. CASE /\ UNCHANGED <<listed, detail, symbolIds, where, reply, alone>>
           /\ UNCHANGED <<filter, chosen>>
  <2>1. CallsInv /\ MapIsListed /\ FilterIsListed
    BY ListingParts
  <2>2. CallsInv' /\ MapIsListed' /\ FilterIsListed'
    BY <1>1, <2>1 DEF CallsInv, Storing, MapIsListed, FilterIsListed, Rows
  <2>3. QED BY <2>2, ListingPack
<1>2. CASE UNCHANGED restVars
  BY <1>1, <1>2 DEF restVars, callVars, streamVars
<1>3. CASE Pop
  BY <1>1, <1>3 DEF Pop, callVars
<1>4. ASSUME NEW batch, ReadBatch(batch)
      PROVE  ListingInv'
  BY <1>1, <1>4 DEF ReadBatch, callVars
<1>5. CASE RestNext
  BY <1>3, <1>4, <1>5, RelistInv, CallDetailInv, CallRefreshInv, RefreshLooksInv, RepliedInv, FailInv,
     StoreCacheInv, StoreMapInv, ResolveInv, SubscribeInv DEF RestNext
<1>6. QED BY <1>2, <1>5

(* client.rs:428-452 and 620-643: for any number of tasks, listings and    *)
(* calls the map is one listing of the server, a filter holds the ids of   *)
(* its tickers in one, and an undisturbed refresh hands out nothing older  *)
(* than what the server listed when it began.                              *)
THEOREM OneListingAtATime == RestSpec => []OneListing
<1>1. ListingInv => OneListing
  BY DEF ListingInv
<1>2. QED BY <1>1, RestInitInv, RestNextInv, PTL DEF RestSpec
-----------------------------------------------------------------------------
(* What a record stream hands out (RestClient).                            *)

LEMMA SiftOnly == \A ids, batch : Sift(ids, batch) = Only(batch, ids)
  BY DEF Sift, Only

LEMMA KeptSplits ==
  /\ \A s, t \in Seq(FeedIds) : /\ Kept(s) \in Seq(FeedIds) /\ Kept(t) \in Seq(FeedIds)
                                /\ Kept(s \o t) = Kept(s) \o Kept(t)
  /\ Kept(<<>>) = <<>>
<1>1. ASSUME NEW s \in Seq(FeedIds), NEW t \in Seq(FeedIds)
      PROVE  /\ Kept(s) \in Seq(FeedIds) /\ Kept(t) \in Seq(FeedIds)
             /\ Kept(s \o t) = Kept(s) \o Kept(t)
  <2>1. Splits(FeedIds, s, t, Passing)
    BY OnlyConcat
  <2>2. Kept(s) = Only(s, Passing) /\ Kept(t) = Only(t, Passing) /\ Kept(s \o t) = Only(s \o t, Passing)
    BY SiftOnly DEF Kept
  <2>3. QED BY <2>1, <2>2 DEF Splits
<1>2. Kept(<<>>) = Only(<<>>, Passing)
  BY SiftOnly DEF Kept
<1>3. QED BY <1>1, <1>2, OnlyOne

LEMMA StreamTypes ==
  ASSUME StreamInv
  PROVE  /\ buffer \in Seq(FeedIds) /\ fed \in Seq(FeedIds) /\ handed \in Seq(FeedIds)
         /\ filter # <<>> => handed \o Reverse(buffer) = Kept(fed)
         /\ FromBehind(FeedIds, buffer)
  BY Reversed DEF StreamInv, StreamExact

LEMMA StreamPack ==
  ASSUME buffer' \in Seq(FeedIds), fed' \in Seq(FeedIds), handed' \in Seq(FeedIds),
         filter' # <<>> => handed' \o Reverse(buffer') = Kept(fed)'
  PROVE  StreamInv'
  BY DEF StreamInv, StreamExact, FeedIds

(* A filter that stays lets through what it did.                           *)
LEMMA KeptLater == ASSUME UNCHANGED filter PROVE Kept(fed)' = Kept(fed')
<1>1. Passing' = Passing
  BY DEF Passing, FeedIds
<1>2. QED BY <1>1 DEF Kept

LEMMA EmptyStream ==
  ASSUME buffer' = <<>>, fed' = <<>>, handed' = <<>>
  PROVE  StreamInv'
<1>1. Kept(fed)' = <<>>
  <2>1. Kept(fed)' = Only(<<>>, Passing')
    BY SiftOnly DEF Kept
  <2>2. QED BY <2>1, OnlyOne
<1>2. <<>> \in Seq(FeedIds) /\ Reverse(<<>>) = <<>> /\ <<>> \o <<>> = <<>>
  BY DEF Reverse
<1>3. QED BY <1>1, <1>2, StreamPack

LEMMA StreamInit == RestInit => StreamInv
<1>1. Kept(<<>>) = <<>> /\ <<>> \in Seq(FeedIds) /\ Reverse(<<>>) = <<>> /\ <<>> \o <<>> = <<>>
  BY KeptSplits DEF Reverse
<1>2. QED BY <1>1 DEF RestInit, StreamInv, StreamExact

LEMMA PopStream == ASSUME StreamInv, Pop PROVE StreamInv'
<1>1. /\ filter # <<>> /\ buffer # <<>> /\ handed' = Append(handed, Last(buffer))
      /\ buffer' = Front(buffer) /\ UNCHANGED <<filter, fed>>
  BY DEF Pop
<1>2. /\ Last(buffer) \in FeedIds /\ Front(buffer) \in Seq(FeedIds)
      /\ Reverse(buffer) = <<Last(buffer)>> \o Reverse(Front(buffer))
      /\ Reverse(Front(buffer)) \in Seq(FeedIds)
  BY <1>1, StreamTypes, Reversed DEF FromBehind
<1>3. PassesOn(handed, <<>>, Reverse(Front(buffer)), Last(buffer))
  <2>1. <<>> \in Seq(FeedIds)
    OBVIOUS
  <2>2. QED BY <1>2, <2>1, StreamTypes, Passed
<1>4. handed' \o Reverse(buffer') = Kept(fed)
  BY <1>1, <1>2, <1>3, StreamTypes DEF PassesOn
<1>5. Kept(fed)' = Kept(fed)
  BY <1>1, KeptLater
<1>6. handed' \in Seq(FeedIds)
  BY <1>1, <1>2, StreamTypes
<1>7. QED BY <1>1, <1>2, <1>4, <1>5, <1>6, StreamTypes, StreamPack

LEMMA ReadBatchStream ==
  ASSUME StreamInv, NEW batch \in Seq(FeedIds), ReadBatch(batch)
  PROVE  StreamInv'
<1>1. /\ filter # <<>> /\ buffer = <<>> /\ fed' = fed \o batch
      /\ buffer' = Reverse(Kept(batch)) /\ UNCHANGED <<filter, handed>>
  BY DEF ReadBatch, Stacked
<1>2. Kept(batch) \in Seq(FeedIds) /\ Kept(fed) \in Seq(FeedIds) /\ Kept(fed \o batch) = Kept(fed) \o Kept(batch)
  BY StreamTypes, KeptSplits
<1>3. FromBehind(FeedIds, Kept(batch))
  BY <1>2, Reversed
<1>4. Reverse(<<>>) = <<>>
  BY DEF Reverse
<1>5. handed = Kept(fed)
  <2>1. handed \o <<>> = Kept(fed)
    BY <1>1, <1>4, StreamTypes
  <2>2. handed \o <<>> = handed
    BY StreamTypes
  <2>3. QED BY <2>1, <2>2
<1>6. Kept(fed)' = Kept(fed \o batch)
  BY <1>1, KeptLater
<1>7. fed' \in Seq(FeedIds)
  BY <1>1, StreamTypes
<1>8. QED BY <1>1, <1>2, <1>3, <1>5, <1>6, <1>7, StreamTypes, StreamPack DEF FromBehind

LEMMA StreamNext == StreamInv /\ [RestNext]_restVars => StreamInv'
<1> SUFFICES ASSUME StreamInv, [RestNext]_restVars PROVE StreamInv'
  OBVIOUS
<1>1. CASE UNCHANGED streamVars
  <2>1. UNCHANGED <<filter, buffer, fed, handed>>
    BY <1>1 DEF streamVars
  <2>2. Kept(fed)' = Kept(fed)
    BY <2>1, KeptLater
  <2>3. QED BY <2>1, <2>2, StreamTypes, StreamPack
<1>2. CASE UNCHANGED restVars \/ Relist
  BY <1>1, <1>2 DEF restVars, Relist
<1>3. ASSUME NEW t \in Tasks, \/ CallDetail(t) \/ CallRefresh(t) \/ RefreshLooks(t) \/ Replied(t)
                              \/ Fail(t) \/ StoreCache(t) \/ StoreMap(t)
      PROVE  StreamInv'
  BY <1>1, <1>3 DEF CallDetail, CallRefresh, RefreshLooks, Replied, Fail, StoreCache, StoreMap
<1>4. ASSUME NEW t \in Tasks, Resolve(t)
      PROVE  StreamInv'
  BY <1>4, EmptyStream DEF Resolve, StreamOpened
<1>5. ASSUME NEW t \in Tasks, NEW n \in Wanted, Subscribe(t, n)
      PROVE  StreamInv'
  BY <1>1, <1>5, EmptyStream DEF Subscribe, StreamOpened
<1>6. ASSUME NEW a \in FeedIds, NEW b \in FeedIds, ReadBatch(<<a>>) \/ ReadBatch(<<a, b>>)
      PROVE  StreamInv'
  <2>1. <<a>> \in Seq(FeedIds) /\ <<a, b>> \in Seq(FeedIds)
    OBVIOUS
  <2>2. QED BY <1>6, <2>1, ReadBatchStream
<1>7. CASE RestNext
  BY <1>2, <1>3, <1>4, <1>5, <1>6, <1>7, PopStream DEF RestNext
<1>8. QED BY <1>2, <1>7

(* client.rs:829-852: for any feed and any filter, next hands out every    *)
(* record that the filter lets through, once and in the order of the feed. *)
THEOREM EveryRecordOnce == RestSpec => []StreamExact
<1>1. StreamInv => StreamExact
  BY DEF StreamInv
<1>2. QED BY <1>1, StreamInit, StreamNext, PTL DEF RestSpec

-----------------------------------------------------------------------------
(* The streams of the other two libraries (ScriptClients).                 *)

Sent == Ids(DOMAIN IdOf) \ {0}
Sayings == [ack : BOOLEAN, recs : Seq(Sent), bad : SUBSET DOMAIN IdOf]

(* The records of the first k messages.                                    *)
Recs(p, s) ==
  /\ p \in [0 .. Len(s) -> Seq(Sent)] /\ p[0] = <<>>
  /\ \A k \in 1 .. Len(s) : p[k] = p[k - 1] \o s[k].recs

LEMMA RecordsKeep ==
  ASSUME NEW s \in Seq(Sayings)
  PROVE  \E p : Recs(p, s) /\ Records(s) = p[Len(s)]
<1> DEFINE D == 1 .. Len(s)
           Fold(g) == [t \in SUBSET D |-> IF t = {} THEN <<>> ELSE g[t \ {Max(t)}] \o s[Max(t)].recs]
           iter == CHOOSE g : g = Fold(g)
<1>1. Len(s) \in Nat /\ DOMAIN s = D /\ \A i \in D : s[i].recs \in Seq(Sent)
  <2>1. \A m \in Sayings : m.recs \in Seq(Sent)
    BY DEF Sayings
  <2>2. Len(s) \in Nat /\ DOMAIN s = D /\ \A i \in D : s[i] \in Sayings
    OBVIOUS
  <2>3. QED BY <2>1, <2>2
<1>2. Records(s) = iter[D]
  BY <1>1 DEF Records, FoldLeft, MapThenFoldSet
<1>3. PICK g \in [SUBSET D -> Seq(Sent)] :
        /\ g[{}] = <<>>
        /\ \A t \in SUBSET D : t # {} => g[t] = g[t \ {Max(t)}] \o s[Max(t)].recs
  <2> DEFINE step == [i \in D |-> [v \in Seq(Sent) |-> v \o s[i].recs]]
  <2>1. step \in Steps(D, Seq(Sent)) /\ <<>> \in Seq(Sent)
    BY <1>1 DEF Steps
  <2> HIDE DEF step
  <2>2. PICK g : FoldOf(g, D, Seq(Sent), <<>>, MaxOf(D), step)
    BY <1>1, <2>1, MaxIterates
  <2>3. /\ g \in [SUBSET D -> Seq(Sent)] /\ g[{}] = <<>>
        /\ \A t \in SUBSET D : t # {} => g[t] = step[Max(t)][g[t \ {Max(t)}]]
    BY <2>2 DEF FoldOf, MaxOf
  <2>4. ASSUME NEW t \in SUBSET D, t # {}
        PROVE  g[t] = g[t \ {Max(t)}] \o s[Max(t)].recs
    <3>1. Max(t) \in D
      BY <1>1, <2>4, HasMax
    <3>2. g[t \ {Max(t)}] \in Seq(Sent)
      BY <2>3
    <3>3. step[Max(t)][g[t \ {Max(t)}]] = g[t \ {Max(t)}] \o s[Max(t)].recs
      BY <3>1, <3>2 DEF step
    <3>4. QED BY <2>3, <2>4, <3>3
  <2>5. QED BY <2>3, <2>4
<1>4. g = Fold(g)
  BY <1>3
<1>5. iter = Fold(iter)
  BY <1>4
<1> HIDE DEF iter
<1> DEFINE p == [k \in 0 .. Len(s) |-> iter[1 .. k]]
<1>6. iter[{}] = <<>> /\ 1 .. 0 = {} /\ 0 \in 0 .. Len(s)
  BY <1>1, <1>5
<1>7. \A k \in 1 .. Len(s) : p[k] = p[k - 1] \o s[k].recs
  <2>1. TAKE k \in 1 .. Len(s)
  <2>2. k \in Nat \ {0} /\ k \in 1 .. k /\ k \in 0 .. Len(s) /\ k - 1 \in 0 .. Len(s)
    BY <1>1
  <2>3. Max(1 .. k) = k /\ (1 .. k) \ {Max(1 .. k)} = 1 .. k - 1
    BY <2>2, MaxUpto
  <2>4. 1 .. k \in SUBSET D /\ 1 .. k # {}
    <3>1. Len(s) \in Nat /\ k <= Len(s)
      BY <1>1
    <3>2. \A i \in 1 .. k : i \in D
      BY <2>2, <3>1
    <3>3. QED BY <2>2, <3>2
  <2>5. iter[1 .. k] = iter[1 .. k - 1] \o s[k].recs
    BY <1>5, <2>3, <2>4
  <2>6. QED BY <2>2, <2>5
<1>8. p[0] = <<>>
  BY <1>6
<1>9. Records(s) = p[Len(s)]
  BY <1>1, <1>2
<1>10. p = [k \in 0 .. Len(s) |-> p[k]]
  OBVIOUS
<1> HIDE DEF p
<1>11. \A k \in Nat : k <= Len(s) => p[k] \in Seq(Sent)
  <2> DEFINE T == {k \in Nat : k <= Len(s) => p[k] \in Seq(Sent)}
  <2>1. 0 \in T
    <3>1. <<>> \in Seq(Sent)
      OBVIOUS
    <3>2. QED BY <1>8, <3>1
  <2>2. ASSUME NEW k \in Nat, k \in T
        PROVE  k + 1 \in T
    <3> SUFFICES ASSUME k + 1 <= Len(s)
                 PROVE  p[k + 1] \in Seq(Sent)
      OBVIOUS
    <3>1. k + 1 \in D /\ (k + 1) - 1 = k
      BY <1>1
    <3>2. k <= Len(s)
      BY <1>1
    <3>3. p[k] \in Seq(Sent)
      BY <2>2, <3>2
    <3>4. s[k + 1].recs \in Seq(Sent) /\ p[k + 1] = p[k] \o s[k + 1].recs
      BY <1>1, <1>7, <3>1
    <3>5. QED BY <3>3, <3>4
  <2> HIDE DEF T
  <2>3. \A k \in Nat : k \in T
    BY <2>1, <2>2, Inductively
  <2>4. QED BY <2>3 DEF T
<1>12. p \in [0 .. Len(s) -> Seq(Sent)]
  BY <1>1, <1>10, <1>11
<1>13. QED BY <1>7, <1>8, <1>9, <1>12 DEF Recs

LEMMA RecsType ==
  ASSUME NEW s \in Seq(Sayings), NEW p, Recs(p, s), NEW k \in 0 .. Len(s)
  PROVE  p[k] \in Seq(Sent)
<1>1. p \in [0 .. Len(s) -> Seq(Sent)]
  BY DEF Recs
<1>2. QED BY <1>1

LEMMA RecordsAppend ==
  ASSUME NEW s \in Seq(Sayings), NEW m \in Sayings
  PROVE  Records(s) \in Seq(Sent) /\ Records(Append(s, m)) = Records(s) \o m.recs
<1> DEFINE u == Append(s, m)
<1>1. PICK n \in Nat : n = Len(s)
  OBVIOUS
<1>2. u \in Seq(Sayings) /\ Len(u) = n + 1 /\ u[n + 1] = m /\ \A i \in 1 .. n : u[i] = s[i]
  BY <1>1
<1> HIDE DEF u
<1>3. PICK p : Recs(p, s) /\ Records(s) = p[n]
  BY <1>1, RecordsKeep
<1>4. PICK r : Recs(r, u) /\ Records(u) = r[n + 1]
  BY <1>2, RecordsKeep
<1>5. p[0] = <<>> /\ \A k \in 1 .. n : p[k] = p[k - 1] \o s[k].recs
  BY <1>1, <1>3 DEF Recs
<1>6. r[0] = <<>> /\ \A k \in 1 .. n + 1 : r[k] = r[k - 1] \o u[k].recs
  BY <1>2, <1>4 DEF Recs
<1>7. \A k \in Nat : k <= n => r[k] = p[k]
  <2> DEFINE T == {k \in Nat : k <= n => r[k] = p[k]}
  <2>1. 0 \in T
    BY <1>5, <1>6
  <2>2. ASSUME NEW k \in Nat, k \in T
        PROVE  k + 1 \in T
    <3> SUFFICES ASSUME k + 1 <= n
                 PROVE  r[k + 1] = p[k + 1]
      OBVIOUS
    <3>1. k + 1 \in 1 .. n /\ k + 1 \in 1 .. n + 1 /\ (k + 1) - 1 = k /\ r[k] = p[k]
      BY <1>1, <2>2
    <3>2. u[k + 1] = s[k + 1]
      BY <1>2, <3>1
    <3>3. QED BY <1>5, <1>6, <3>1, <3>2
  <2> HIDE DEF T
  <2>3. \A k \in Nat : k \in T
    BY <2>1, <2>2, Inductively
  <2>4. QED BY <2>3 DEF T
<1>8. r[n + 1] = p[n] \o m.recs
  <2>1. n + 1 \in 1 .. n + 1 /\ (n + 1) - 1 = n /\ n <= n
    BY <1>1
  <2>2. QED BY <1>1, <1>2, <1>6, <1>7, <2>1
<1>9. p[n] \in Seq(Sent)
  <2>1. n \in 0 .. Len(s)
    BY <1>1
  <2>2. QED BY <1>3, <2>1, RecsType
<1>10. QED BY <1>3, <1>4, <1>8, <1>9 DEF u

LEMMA RecordsNone == Records(<<>>) = <<>>
<1>1. <<>> \in Seq(Sayings) /\ Len(<<>>) = 0
  OBVIOUS
<1>2. PICK p : Recs(p, <<>>) /\ Records(<<>>) = p[Len(<<>>)]
  BY <1>1, RecordsKeep
<1>3. QED BY <1>1, <1>2 DEF Recs

LEMMA RecordsTail ==
  ASSUME NEW s \in Seq(Sayings), s # <<>>
  PROVE  /\ Head(s) \in Sayings /\ Head(s).recs \in Seq(Sent) /\ Tail(s) \in Seq(Sayings)
         /\ Records(Tail(s)) \in Seq(Sent) /\ Records(s) = Head(s).recs \o Records(Tail(s))
<1>1. \A m \in Sayings : m.recs \in Seq(Sent)
  BY DEF Sayings
<1> DEFINE T == {t \in Seq(Sayings) : \A h \in Sayings : Records(<<h>> \o t) = h.recs \o Records(t)}
<1>2. <<>> \in T
  <2>1. ASSUME NEW h \in Sayings
        PROVE  Records(<<h>> \o <<>>) = h.recs \o <<>>
    <3>1. <<>> \in Seq(Sayings) /\ <<h>> \o <<>> = Append(<<>>, h)
      OBVIOUS
    <3>2. Records(Append(<<>>, h)) = Records(<<>>) \o h.recs
      BY <3>1, RecordsAppend
    <3>3. <<>> \o h.recs = h.recs \o <<>>
      BY <1>1
    <3>4. QED BY <3>1, <3>2, <3>3, RecordsNone
  <2>2. \A h \in Sayings : Records(<<h>> \o <<>>) = h.recs \o Records(<<>>)
    <3> DEFINE e == Records(<<>>)
    <3>1. e = <<>>
      BY RecordsNone
    <3>2. QED BY <2>1, <3>1
  <2>3. <<>> \in Seq(Sayings)
    OBVIOUS
  <2>4. QED BY <2>2, <2>3
<1>3. ASSUME NEW t \in Seq(Sayings), NEW m \in Sayings, t \in T
      PROVE  Append(t, m) \in T
  <2>1. ASSUME NEW h \in Sayings
        PROVE  Records(<<h>> \o Append(t, m)) = h.recs \o Records(Append(t, m))
    <3> DEFINE ht == <<h>> \o t
    <3>1. ht \in Seq(Sayings) /\ <<h>> \o Append(t, m) = Append(ht, m)
      OBVIOUS
    <3>2. Records(ht) = h.recs \o Records(t)
      BY <1>3
    <3> HIDE DEF ht
    <3>3. Records(Append(ht, m)) = Records(ht) \o m.recs
      BY <3>1, RecordsAppend
    <3>4. Records(t) \in Seq(Sent) /\ Records(Append(t, m)) = Records(t) \o m.recs
      BY RecordsAppend
    <3>5. (h.recs \o Records(t)) \o m.recs = h.recs \o (Records(t) \o m.recs)
      <4>1. \A a, b, c \in Seq(Sent) : (a \o b) \o c = a \o (b \o c)
        BY ConcatAssociative
      <4>2. QED BY <1>1, <3>4, <4>1
    <3>6. QED BY <3>1, <3>2, <3>3, <3>4, <3>5
  <2>2. Append(t, m) \in Seq(Sayings)
    OBVIOUS
  <2>3. QED BY <2>1, <2>2
<1> HIDE DEF T
<1>4. \A t \in Seq(Sayings) : t \in T
  BY <1>2, <1>3, SeqInductively
<1>5. Head(s) \in Sayings /\ Tail(s) \in Seq(Sayings) /\ s = <<Head(s)>> \o Tail(s)
  OBVIOUS
<1>6. Records(Tail(s)) \in Seq(Sent)
  BY <1>5, RecordsAppend
<1>7. QED BY <1>1, <1>4, <1>5, <1>6 DEF T

LEMMA PickedOnly == \A ids, recs : Picked(ids, recs) = Only(recs, ids)
  BY DEF Picked, Only

(* The messages under way, as a predicate on them.                         *)
AckIn(w, i) == \E j \in DOMAIN w : j <= i /\ w[j].ack
OfThem(m, symbols) == \A k \in DOMAIN m.recs : m.recs[k] \in Ids(symbols)
Wire(w, nm, al, sv, st, la) ==
  /\ nm \in SUBSET DOMAIN IdOf /\ sv \in BOOLEAN /\ st \in BOOLEAN
  /\ al \in [on : BOOLEAN, ids : SUBSET Ids(DOMAIN IdOf)]
  /\ w \in Seq(Sayings)
  /\ al.on => /\ nm # {} /\ al.ids \subseteq Ids(nm)
              /\ (Ids(nm) \cap Ids(Listed)) \ {0} \subseteq al.ids
  /\ st => nm # {}
  /\ ~sv => /\ \A i \in DOMAIN w : ~w[i].ack /\ OfThem(w[i], Listed)
            /\ st => al.on
  /\ sv => nm # {} /\ la = "ts"
  /\ sv /\ nm \cap (Listed \cup Routable) # {} => ~al.on \/ AckIn(w, Len(w))
  /\ \A i \in DOMAIN w : OfThem(w[i], Listed) \/ ~al.on \/ AckIn(w, i - 1)
  /\ st => \A i \in DOMAIN w : OfThem(w[i], nm) \/ (al.on /\ ~AckIn(w, i))

LEMMA WireIs ==
  /\ WireInv <=> Wire(onWay, names, allow, serves, strict, lang)
  /\ WireInv' <=> Wire(onWay', names', allow', serves', strict', lang')
<1>1. WireInv <=> Wire(onWay, names, allow, serves, strict, lang)
  BY DEF WireInv, Wire, AckBefore, AckIn, Of, OfThem, Sayings, Sent
<1>2. WireInv' <=> Wire(onWay', names', allow', serves', strict', lang')
  BY DEF WireInv, Wire, AckBefore, AckIn, Of, OfThem, Sayings, Sent, Ids
<1>3. QED BY <1>1, <1>2

(* The answer to the subscription, or records.                             *)
Said(m, nm, sv, sw, la) ==
  \/ /\ ~sv /\ sw /\ nm # {} /\ la = "ts" /\ m.recs = <<>>
     /\ m.ack = (nm \cap (Listed \cup Routable) # {})
  \/ /\ sw = sv /\ ~m.ack
     /\ OfThem(m, IF sv THEN nm \cap (Listed \cup Routable) ELSE Listed)

LEMMA WireAppend ==
  ASSUME NEW w, NEW nm, NEW al, NEW sv, NEW st, NEW la, Wire(w, nm, al, sv, st, la),
         NEW m \in Sayings, NEW sw \in BOOLEAN, Said(m, nm, sv, sw, la)
  PROVE  Wire(Append(w, m), nm, al, sw, st, la)
<1>1. PICK n \in Nat : n = Len(w) /\ DOMAIN w = 1 .. n
  BY DEF Wire
<1> DEFINE u == Append(w, m)
<1>2. /\ u \in Seq(Sayings) /\ Len(u) = n + 1 /\ DOMAIN u = 1 .. n + 1
      /\ \A i \in 1 .. n : u[i] = w[i]
      /\ u[n + 1] = m /\ m.ack \in BOOLEAN
  <2>1. m.ack \in BOOLEAN
    BY DEF Sayings
  <2>2. QED BY <1>1, <2>1 DEF Wire
<1> HIDE DEF u
<1>3. \A i \in 1 .. n : AckIn(u, i) <=> AckIn(w, i)
  BY <1>1, <1>2 DEF AckIn
<1>4. AckIn(w, n) => AckIn(u, n) /\ AckIn(u, n + 1)
  BY <1>1, <1>2 DEF AckIn
<1>5. m.ack => AckIn(u, n + 1)
  BY <1>1, <1>2 DEF AckIn
<1>6. sv => sw
  BY DEF Said
<1>7. \A i \in 1 .. n : AckIn(w, i - 1) => AckIn(u, i - 1)
  BY <1>1, <1>2 DEF AckIn
<1>8. \A i \in 1 .. n + 1 : i \in 1 .. n \/ (i = n + 1 /\ i - 1 = n)
  BY <1>1
<1>9. m.recs = <<>> => \A y : OfThem(m, y)
  BY DEF OfThem
<1>10. /\ OfThem(m, nm \cap (Listed \cup Routable)) => OfThem(m, nm)
       /\ nm \cap (Listed \cup Routable) = {} /\ OfThem(m, nm \cap (Listed \cup Routable)) => OfThem(m, Listed)
  BY DEF OfThem, Ids
<1>11. CASE ~sv /\ sw /\ nm # {} /\ la = "ts" /\ m.recs = <<>> /\ m.ack = (nm \cap (Listed \cup Routable) # {})
  <2>1. \A i \in 1 .. n : ~w[i].ack /\ OfThem(w[i], Listed)
    BY <1>1, <1>11 DEF Wire
  <2>2. \A i \in 1 .. n : ~AckIn(u, i)
    BY <1>1, <1>2, <1>3, <2>1 DEF AckIn
  <2>3. \A i \in 1 .. n + 1 : OfThem(u[i], Listed)
    BY <1>2, <1>8, <1>9, <1>11, <2>1
  <2>4. st => al.on
    BY <1>11 DEF Wire
  <2>5. st => \A i \in 1 .. n + 1 : OfThem(u[i], nm) \/ (al.on /\ ~AckIn(u, i))
    BY <1>2, <1>8, <1>9, <1>11, <2>2, <2>4
  <2>6. nm \cap (Listed \cup Routable) # {} => AckIn(u, n + 1)
    BY <1>5, <1>11
  <2>7. QED BY <1>2, <1>11, <2>3, <2>5, <2>6 DEF Wire, u
<1>12. CASE sw = sv /\ ~m.ack /\ OfThem(m, IF sv THEN nm \cap (Listed \cup Routable) ELSE Listed)
  <2>1. ~sv => /\ \A i \in 1 .. n + 1 : ~u[i].ack /\ OfThem(u[i], Listed)
               /\ st => al.on
    BY <1>1, <1>2, <1>8, <1>12 DEF Wire
  <2>2. ~sv => \A i \in 1 .. n + 1 : ~AckIn(u, i)
    BY <1>2, <2>1 DEF AckIn
  <2>3. sv /\ nm \cap (Listed \cup Routable) # {} => ~al.on \/ AckIn(u, n + 1)
    BY <1>1, <1>4 DEF Wire
  <2>4. sv => OfThem(m, Listed) \/ ~al.on \/ AckIn(u, n)
    BY <1>1, <1>4, <1>10, <1>12 DEF Wire
  <2>5. \A i \in 1 .. n + 1 : OfThem(u[i], Listed) \/ ~al.on \/ AckIn(u, i - 1)
    <3>1. ASSUME NEW i \in 1 .. n
          PROVE  OfThem(u[i], Listed) \/ ~al.on \/ AckIn(u, i - 1)
      BY <1>1, <1>2, <1>7 DEF Wire
    <3>2. OfThem(u[n + 1], Listed) \/ ~al.on \/ AckIn(u, n)
      BY <1>2, <1>12, <2>4
    <3>3. QED BY <1>8, <3>1, <3>2
  <2>6. st => \A i \in 1 .. n + 1 : OfThem(u[i], nm) \/ (al.on /\ ~AckIn(u, i))
    <3>1. CASE sv
      <4>1. st => \A i \in 1 .. n : OfThem(u[i], nm) \/ (al.on /\ ~AckIn(u, i))
        BY <1>1, <1>2, <1>3 DEF Wire
      <4>2. OfThem(u[n + 1], nm)
        BY <1>2, <1>10, <1>12, <3>1
      <4>3. QED BY <1>8, <4>1, <4>2
    <3>2. CASE ~sv
      BY <2>1, <2>2, <3>2
    <3>3. QED BY <3>1, <3>2 DEF Wire
  <2>7. QED BY <1>2, <1>12, <2>1, <2>3, <2>5, <2>6 DEF Wire, u
<1>13. QED BY <1>11, <1>12 DEF Said

LEMMA WireTail ==
  ASSUME NEW w, NEW nm, NEW al, NEW sv, NEW st, NEW la, Wire(w, nm, al, sv, st, la), w # <<>>
  PROVE  /\ Wire(Tail(w), nm, IF Head(w).ack THEN [on |-> FALSE, ids |-> {}] ELSE al, sv, st, la)
         /\ OfThem(Head(w), Listed) \/ ~al.on
         /\ st => OfThem(Head(w), nm) \/ al.on
<1> DEFINE h == Head(w)
           t == Tail(w)
           a == IF h.ack THEN [on |-> FALSE, ids |-> {}] ELSE al
<1>1. PICK n \in Nat \ {0} : n = Len(w) /\ DOMAIN w = 1 .. n
  BY DEF Wire
<1>2. /\ t \in Seq(Sayings) /\ Len(t) = n - 1 /\ DOMAIN t = 1 .. n - 1
      /\ \A i \in 1 .. n - 1 : t[i] = w[i + 1]
      /\ h = w[1]
  BY <1>1 DEF Wire
<1>3. a \in [on : BOOLEAN, ids : SUBSET Ids(DOMAIN IdOf)] /\ (a.on => a = al /\ ~h.ack /\ al.on)
      /\ (~h.ack => a = al)
  BY DEF Wire
<1> HIDE DEF h, t, a
<1>4. \A i \in 1 .. n - 1 : i + 1 \in 1 .. n /\ (i + 1) - 1 = i
  BY <1>1
<1>5. \A i \in 0 .. n - 1 : AckIn(w, i + 1) => h.ack \/ AckIn(t, i)
  <2>1. TAKE i \in 0 .. n - 1
  <2>2. HAVE AckIn(w, i + 1)
  <2>3. PICK j \in 1 .. n : j <= i + 1 /\ w[j].ack
    BY <1>1, <2>2 DEF AckIn
  <2>4. CASE j = 1
    BY <1>2, <2>3, <2>4
  <2>5. CASE j # 1
    <3>1. j - 1 \in 1 .. n - 1 /\ j - 1 <= i /\ (j - 1) + 1 = j
      BY <1>1, <2>3, <2>5
    <3>2. t[j - 1].ack
      BY <1>2, <2>3, <3>1
    <3>3. QED BY <1>2, <3>1, <3>2 DEF AckIn
  <2>6. QED BY <2>4, <2>5
<1>6. \A i \in 0 .. n - 1 : AckIn(t, i) => AckIn(w, i + 1)
  <2>1. TAKE i \in 0 .. n - 1
  <2>2. HAVE AckIn(t, i)
  <2>3. PICK j \in 1 .. n - 1 : j <= i /\ t[j].ack
    BY <1>2, <2>2 DEF AckIn
  <2>4. j + 1 \in 1 .. n /\ j + 1 <= i + 1 /\ w[j + 1].ack
    BY <1>1, <1>2, <2>3
  <2>5. QED BY <1>1, <2>4 DEF AckIn
<1>7. h.ack => AckIn(w, 1) /\ \A i \in 1 .. n : AckIn(w, i)
  BY <1>1, <1>2 DEF AckIn
<1>8. ~AckIn(w, 0) /\ 1 \in 1 .. n
  BY <1>1 DEF AckIn
<1>9. OfThem(h, Listed) \/ ~al.on
  <2>1. OfThem(w[1], Listed) \/ ~al.on \/ AckIn(w, 1 - 1)
    BY <1>1, <1>8 DEF Wire
  <2>2. QED BY <1>2, <1>8, <2>1
<1>10. st => OfThem(h, nm) \/ al.on
  BY <1>1, <1>2, <1>8 DEF Wire
<1>11. ~sv => /\ \A i \in 1 .. n - 1 : ~t[i].ack /\ OfThem(t[i], Listed)
              /\ ~h.ack
              /\ st => a.on
  BY <1>1, <1>2, <1>3, <1>4, <1>8 DEF Wire
<1>12. sv /\ nm \cap (Listed \cup Routable) # {} => ~a.on \/ AckIn(t, n - 1)
  <2>1. SUFFICES ASSUME sv, nm \cap (Listed \cup Routable) # {}, a.on
                 PROVE  AckIn(t, n - 1)
    OBVIOUS
  <2>2. AckIn(w, n)
    BY <1>1, <1>3, <2>1 DEF Wire
  <2>3. n - 1 \in 0 .. n - 1 /\ (n - 1) + 1 = n
    BY <1>1
  <2>4. QED BY <1>3, <1>5, <2>1, <2>2, <2>3
<1>13. ASSUME NEW i \in 1 .. n - 1
       PROVE  OfThem(t[i], Listed) \/ ~a.on \/ AckIn(t, i - 1)
  <2>1. OfThem(w[i + 1], Listed) \/ ~al.on \/ AckIn(w, (i + 1) - 1)
    BY <1>1, <1>4 DEF Wire
  <2>2. i - 1 \in 0 .. n - 1 /\ (i - 1) + 1 = i
    BY <1>1
  <2>3. QED BY <1>2, <1>3, <1>4, <1>5, <2>1, <2>2
<1>14. ASSUME st, NEW i \in 1 .. n - 1
       PROVE  OfThem(t[i], nm) \/ (a.on /\ ~AckIn(t, i))
  <2>1. OfThem(w[i + 1], nm) \/ (al.on /\ ~AckIn(w, i + 1))
    BY <1>1, <1>4, <1>14 DEF Wire
  <2>2. i \in 0 .. n - 1 /\ i + 1 \in 1 .. n
    BY <1>1
  <2>3. QED BY <1>2, <1>3, <1>6, <1>7, <2>1, <2>2
<1>15. Wire(t, nm, a, sv, st, la)
  <2>1. nm \in SUBSET DOMAIN IdOf /\ sv \in BOOLEAN /\ st \in BOOLEAN /\ (st => nm # {})
        /\ (sv => nm # {} /\ la = "ts")
        /\ (al.on => /\ nm # {} /\ al.ids \subseteq Ids(nm)
                     /\ (Ids(nm) \cap Ids(Listed)) \ {0} \subseteq al.ids)
    BY DEF Wire
  <2>2. (a.on => /\ nm # {} /\ a.ids \subseteq Ids(nm)
                 /\ (Ids(nm) \cap Ids(Listed)) \ {0} \subseteq a.ids)
    BY <1>3, <2>1
  <2>3. QED BY <1>2, <1>3, <1>11, <1>12, <1>13, <1>14, <2>1, <2>2 DEF Wire
<1>16. QED BY <1>9, <1>10, <1>15 DEF h, t, a

(* What is owed, and what has been handed out, is buffered or under way.   *)
Owing(h, b, w, nm) == Only(h, nm) \o Only(b, nm) \o Only(Records(w), nm)
Within(s, nm) == \A i \in DOMAIN s : s[i] \in Ids(nm)

LEMMA HearTypes ==
  ASSUME HearInv
  PROVE  /\ CatInv /\ Wire(onWay, names, allow, serves, strict, lang) /\ lang \in {"ts", "py"}
         /\ heard \in Seq(Sent) /\ inbox \in Seq(Sent) /\ owed \in Seq(Sent) /\ onWay \in Seq(Sayings)
         /\ Records(onWay) \in Seq(Sent)
         /\ stream \in {"none", "opening"} =>
              ~serves /\ onWay = <<>> /\ heard = <<>> /\ inbox = <<>> /\ owed = <<>>
         /\ lang = "ts" => inbox = <<>>
         /\ strict => Within(inbox, names)
         /\ strict => Within(heard, names)
         /\ Owing(heard, inbox, onWay, Named) = owed
<1>1. onWay \in Seq(Sayings)
  BY DEF HearInv, WireInv, Sayings, Sent
<1>2. Records(onWay) \in Seq(Sent)
  <2> DEFINE m == [ack |-> FALSE, recs |-> <<>>, bad |-> {}]
  <2>1. m \in Sayings
    <3>1. <<>> \in Seq(Sent) /\ {} \in SUBSET DOMAIN IdOf
      OBVIOUS
    <3>2. QED BY <3>1 DEF Sayings
  <2> HIDE DEF m
  <2>2. QED BY <1>1, <2>1, RecordsAppend
<1>3. Owing(heard, inbox, onWay, Named) = owed
  BY PickedOnly DEF HearInv, HearsAsked, Owing, Asked
<1>4. heard \in Seq(Sent) /\ inbox \in Seq(Sent) /\ owed \in Seq(Sent)
  BY DEF HearInv, Sent
<1>5. QED BY <1>1, <1>2, <1>3, <1>4, WireIs DEF HearInv, Within

LEMMA HearPack ==
  ASSUME CatInv', Wire(onWay', names', allow', serves', strict', lang'), lang' \in {"ts", "py"},
         heard' \in Seq(Sent), inbox' \in Seq(Sent), owed' \in Seq(Sent),
         stream' \in {"none", "opening"} =>
           ~serves' /\ onWay' = <<>> /\ heard' = <<>> /\ inbox' = <<>> /\ owed' = <<>>,
         lang' = "ts" => inbox' = <<>>,
         strict' => Within(inbox', names'),
         strict' => Within(heard', names'),
         Owing(heard', inbox', onWay', Named') = owed'
  PROVE  HearInv'
<1>1. WireInv'
  BY WireIs
<1>2. (strict => heard = Asked(heard))'
  <2>1. SUFFICES ASSUME strict' PROVE heard' = Only(heard', Named')
    BY PickedOnly DEF Asked
  <2>2. Named' = Ids(names')
    BY <2>1 DEF Wire, Named, Ids
  <2>3. heard' \in Seq(Named')
    BY <2>1, <2>2, Valued DEF Within
  <2>4. QED BY <2>3, OnlyInside
<1>3. (Asked(heard) \o Asked(inbox) \o Asked(Records(onWay)) = owed)'
  BY PickedOnly DEF Asked, Owing
<1>4. HearsAsked'
  BY <1>2, <1>3 DEF HearsAsked
<1>5. ({heard, inbox, owed} \subseteq Seq(Ids(DOMAIN IdOf) \ {0}))'
  BY DEF Sent
<1>6. /\ (strict => \A i \in DOMAIN inbox : inbox[i] \in Ids(names))'
      /\ (strict => \A i \in DOMAIN heard : heard[i] \in Ids(names))'
  BY DEF Within
<1>7. QED BY <1>1, <1>4, <1>5, <1>6 DEF HearInv

(* The catalogue.                                                          *)
LEMMA CatNext ==
  ASSUME CatInv, \/ Listing \/ Price \/ Throws
                 \/ \E refresh \in BOOLEAN : TsDetail(refresh) \/ PyDetail(refresh)
                 \/ \E s \in DOMAIN IdOf : TsResolve(s) \/ PyResolve(s)
  PROVE  CatInv'
<1>1. \A s \in Listed \cup Routable : s \in DOMAIN IdOf
  BY ScAssumption
<1>2. ListingRows \subseteq {<<s, IdOf[s]>> : s \in DOMAIN IdOf} /\ ListingRows' = ListingRows
  BY <1>1 DEF ListingRows
<1>3. CASE Listing
  BY <1>2, <1>3 DEF Listing, CatInv
<1>4. CASE Price
  <2>1. ListingRows \subseteq known /\ call'= <<>> /\ known \subseteq {<<s, IdOf[s]>> : s \in DOMAIN IdOf}
    BY <1>4 DEF Price, CatInv
  <2>2. known \subseteq known' /\ known' \subseteq {<<s, IdOf[s]>> : s \in DOMAIN IdOf}
    BY <1>1, <1>4, <2>1 DEF Price
  <2>3. QED BY <1>2, <2>1, <2>2 DEF CatInv
<1>5. CASE Throws
  BY <1>2, <1>5 DEF Throws, CatInv
<1>6. ASSUME NEW refresh \in BOOLEAN, TsDetail(refresh) \/ PyDetail(refresh)
      PROVE  CatInv'
  <2>1. CASE TsDetail(refresh)
    <3>1. call'.stage = "detail" /\ UNCHANGED <<cached, known>>
      BY <2>1 DEF TsDetail
    <3>2. QED BY <1>2, <3>1 DEF CatInv
  <2>2. CASE PyDetail(refresh)
    BY <1>2, <2>2 DEF PyDetail, CatInv
  <2>3. QED BY <1>6, <2>1, <2>2
<1>7. ASSUME NEW s \in DOMAIN IdOf, TsResolve(s)
      PROVE  CatInv'
  BY <1>2, <1>7 DEF TsResolve, FreshCall, CatInv, Free
<1>8. ASSUME NEW s \in DOMAIN IdOf, PyResolve(s)
      PROVE  CatInv'
  BY <1>2, <1>8 DEF PyResolve, CatInv, Free
<1>9. QED BY <1>3, <1>4, <1>5, <1>6, <1>7, <1>8

(* What leaves the stream as it is, or opens or closes it.                 *)
LEMMA QuietHear ==
  ASSUME HearInv, CatInv', lang' = lang,
         UNCHANGED <<names, allow, strict, serves, onWay, inbox, owed, heard>>,
         stream' \in {"none", "opening"} => stream' = stream
  PROVE  HearInv'
<1>1. Named' = Named
  BY DEF Named, Ids
<1>2. Wire(onWay', names', allow', serves', strict', lang')
  BY HearTypes
<1>3. Owing(heard', inbox', onWay', Named') = owed'
  BY <1>1, HearTypes
<1>4. QED BY <1>2, <1>3, HearTypes, HearPack

(* A stream is opened with a filter from a map that holds the listing.     *)
SharedIds == \A s \in Listed : \A t \in DOMAIN IdOf : IdOf[t] = IdOf[s] => t \in Listed

LEMMA Filtered ==
  ASSUME SharedIds, NEW map, map \subseteq {<<s, IdOf[s]>> : s \in DOMAIN IdOf},
         map # {} => ListingRows \subseteq map, NEW nm \in SUBSET DOMAIN IdOf, NEW la
  PROVE  Wire(<<>>, nm, FilterFor(map, nm), FALSE, FilterFor(map, nm).on, la)
<1> DEFINE found == {p[2] : p \in {q \in map : q[1] \in nm}}
           al == [on |-> found # {}, ids |-> found]
<1>1. FilterFor(map, nm) = al
  BY DEF FilterFor
<1>2. ASSUME NEW i \in found
      PROVE  i \in Ids(nm) /\ i \in Ids(DOMAIN IdOf) /\ nm # {} /\ map # {}
  <2>1. PICK p \in map : p[1] \in nm /\ i = p[2]
    BY <1>2
  <2>2. PICK s \in DOMAIN IdOf : p = <<s, IdOf[s]>>
    BY <2>1
  <2>3. QED BY <2>1, <2>2 DEF Ids
<1>3. ASSUME found # {}, NEW i \in (Ids(nm) \cap Ids(Listed)) \ {0}
      PROVE  i \in found
  <2>1. PICK s \in nm : i = IdOf[s]
    BY <1>3 DEF Ids
  <2>2. PICK t \in Listed : i = IdOf[t]
    BY <1>3 DEF Ids
  <2>3. s \in Listed /\ IdOf[s] # 0
    BY <1>3, <2>1, <2>2 DEF SharedIds
  <2>4. <<s, IdOf[s]>> \in ListingRows
    BY <2>3 DEF ListingRows
  <2>5. <<s, IdOf[s]>> \in map
    BY <1>2, <1>3, <2>4
  <2>6. <<s, IdOf[s]>> \in {q \in map : q[1] \in nm} /\ <<s, IdOf[s]>>[2] = i
    BY <2>1, <2>5
  <2>7. QED BY <2>6
<1> HIDE DEF found
<1>4. al \in [on : BOOLEAN, ids : SUBSET Ids(DOMAIN IdOf)] /\ (al.on <=> found # {}) /\ al.ids = found
  BY <1>2
<1>5. <<>> \in Seq(Sayings) /\ DOMAIN <<>> = {}
  OBVIOUS
<1>6. al.on => /\ nm # {} /\ al.ids \subseteq Ids(nm)
               /\ (Ids(nm) \cap Ids(Listed)) \ {0} \subseteq al.ids
  BY <1>2, <1>3, <1>4
<1> HIDE DEF al
<1>7. Wire(<<>>, nm, al, FALSE, al.on, la)
  BY <1>4, <1>5, <1>6 DEF Wire
<1>8. QED BY <1>1, <1>7

LEMMA SubscribeHear ==
  ASSUME SharedIds, HearInv,
         \/ \E n \in Naming : TsSubscribe(n)
         \/ \E n \in Naming : \E a \in BOOLEAN : PySubscribe(n, a)
  PROVE  HearInv'
<1>1. PICK n \in Naming : \/ TsSubscribe(n)
                          \/ \E a \in BOOLEAN : PySubscribe(n, a)
  OBVIOUS
<1>2. n \in SUBSET DOMAIN IdOf
  BY ScAssumption
<1>3. CatInv /\ \A x \in ListingRows : x \in {<<s, IdOf[s]>> : s \in DOMAIN IdOf}
  <2>1. \A x \in Listed : x \in DOMAIN IdOf
    BY ScAssumption
  <2>2. QED BY <2>1, HearTypes DEF ListingRows
<1>4. /\ stream = "none" /\ lang' = lang /\ call' = call /\ names' = n
      /\ UNCHANGED <<serves, onWay, inbox, owed, heard>>
      /\ CatInv'
      /\ allow' = FilterFor(known', n) /\ strict' = FilterFor(known', n).on
  <2>1. CASE TsSubscribe(n)
    BY <1>3, <2>1 DEF TsSubscribe, Subscribed, CatInv, ListingRows
  <2>2. CASE \E a \in BOOLEAN : PySubscribe(n, a)
    <3>1. /\ stream = "none" /\ lang' = lang /\ call' = call /\ names' = n
          /\ UNCHANGED <<serves, onWay, inbox, owed, heard>>
          /\ allow' = FilterFor(known', n) /\ strict' = FilterFor(known', n).on
          /\ \/ known' = ListingRows
             \/ UNCHANGED <<known, cached>>
      BY <2>2 DEF PySubscribe, Subscribed
    <3>2. ListingRows' = ListingRows
      BY DEF ListingRows
    <3>3. CatInv'
      BY <1>3, <3>1, <3>2 DEF CatInv
    <3>4. QED BY <3>1, <3>3
  <2>3. QED BY <1>1, <2>1, <2>2
<1>5. serves = FALSE /\ onWay = <<>> /\ heard = <<>> /\ inbox = <<>> /\ owed = <<>> /\ lang \in {"ts", "py"}
  BY <1>4, HearTypes DEF Wire
<1>6. Wire(onWay', names', allow', serves', strict', lang')
  <2>1. /\ known' \subseteq {<<s, IdOf[s]>> : s \in DOMAIN IdOf}
        /\ known' # {} => ListingRows \subseteq known'
    BY <1>4 DEF CatInv, ListingRows
  <2>2. Wire(<<>>, n, FilterFor(known', n), FALSE, FilterFor(known', n).on, lang')
    BY <1>2, <2>1, Filtered
  <2>3. QED BY <1>4, <1>5, <2>2
<1>7. Owing(heard', inbox', onWay', Named') = owed'
  <2>1. <<>> \o <<>> \o <<>> = <<>>
    OBVIOUS
  <2>2. Only(<<>>, Named') = <<>>
    BY OnlyNone
  <2>3. QED BY <1>4, <1>5, <2>1, <2>2, RecordsNone DEF Owing
<1>8. Within(<<>>, names')
  BY DEF Within
<1>9. QED BY <1>4, <1>5, <1>6, <1>7, <1>8, HearTypes, HearPack

(* The server speaks.                                                      *)
LEMMA SpokenHear ==
  ASSUME HearInv, NEW m \in Sayings, onWay' = Append(onWay, m), stream = "open",
         UNCHANGED <<lang, catVars, stream, names, allow, strict, inbox, heard>>,
         owed' = owed \o Asked(m.recs),
         Wire(onWay', names', allow', serves', strict', lang')
  PROVE  HearInv'
<1>1. CatInv' /\ Named' = Named
  BY HearTypes DEF CatInv, catVars, ListingRows, Named, Ids
<1> DEFINE a == Only(heard, Named)
           b == Only(inbox, Named)
           c == Only(Records(onWay), Named)
           d == Only(m.recs, Named)
<1>2. m.recs \in Seq(Sent) /\ Records(onWay) \in Seq(Sent) /\ Records(onWay') = Records(onWay) \o m.recs
  BY HearTypes, RecordsAppend DEF Sayings
<1>3. Splits(Sent, Records(onWay), m.recs, Named)
  BY <1>2, OnlyConcat
<1>4. a \in Seq(Sent) /\ b \in Seq(Sent) /\ c \in Seq(Sent) /\ d \in Seq(Sent)
      /\ Only(Records(onWay) \o m.recs, Named) = c \o d
  BY <1>3, HearTypes, OnlyEnds DEF Splits
<1>5. a \o b \o c = owed /\ owed' = owed \o d
  BY HearTypes, PickedOnly DEF Owing, Asked
<1> HIDE DEF a, b, c, d
<1>6. a \o b \o (c \o d) = (a \o b \o c) \o d /\ owed \o d \in Seq(Sent)
  <2> DEFINE ab == a \o b
  <2>1. ab \in Seq(Sent)
    BY <1>4
  <2> HIDE DEF ab
  <2>2. ab \o (c \o d) = (ab \o c) \o d
    <3>1. \A x, y, z \in Seq(Sent) : (x \o y) \o z = x \o (y \o z)
      BY ConcatAssociative
    <3>2. QED BY <1>4, <2>1, <3>1
  <2>3. (ab \o c) \o d \in Seq(Sent)
    BY <1>4, <2>1
  <2>4. QED BY <1>5, <2>2, <2>3 DEF ab
<1>7. Owing(heard', inbox', onWay', Named') = owed'
  BY <1>1, <1>2, <1>4, <1>5, <1>6 DEF Owing, a, b
<1>8. QED BY <1>1, <1>5, <1>6, <1>7, HearTypes, HearPack

LEMMA ServerTakesHear == ASSUME HearInv, ServerTakes PROVE HearInv'
<1> DEFINE m == [ack |-> names \cap (Listed \cup Routable) # {}, recs |-> <<>>,
                 bad |-> names \ (Listed \cup Routable)]
<1>1. names \in SUBSET DOMAIN IdOf
  BY HearTypes DEF Wire
<1>2. m \in Sayings /\ m.recs = <<>> /\ m.ack = (names \cap (Listed \cup Routable) # {})
  <2>1. <<>> \in Seq(Sent) /\ names \ (Listed \cup Routable) \in SUBSET DOMAIN IdOf
    BY <1>1
  <2>2. QED BY <2>1 DEF Sayings
<1>3. /\ lang = "ts" /\ stream = "open" /\ names # {} /\ ~serves /\ serves' = TRUE
      /\ onWay' = Append(onWay, m)
      /\ UNCHANGED <<lang, catVars, stream, names, allow, strict, inbox, owed, heard>>
  BY DEF ServerTakes, Spoken
<1> HIDE DEF m
<1>4. Wire(onWay', names', allow', serves', strict', lang')
  <2>1. Wire(onWay, names, allow, serves, strict, lang)
    BY HearTypes
  <2>2. Said(m, names, serves, serves', lang) /\ serves' \in BOOLEAN
    BY <1>2, <1>3 DEF Said
  <2>3. Wire(Append(onWay, m), names, allow, serves', strict, lang)
    BY <1>2, <2>1, <2>2, WireAppend
  <2>4. QED BY <1>3, <2>3
<1>5. owed' = owed \o Asked(m.recs)
  <2>1. owed \o <<>> = owed
    BY HearTypes
  <2>2. QED BY <1>2, <1>3, <2>1, PickedOnly, OnlyNone DEF Asked
<1>6. QED BY <1>2, <1>3, <1>4, <1>5, SpokenHear

LEMMA ServerSendsHear ==
  ASSUME HearInv, NEW recs \in Seq(Ids(DOMAIN IdOf)), ServerSends(recs)
  PROVE  HearInv'
<1> DEFINE m == [ack |-> FALSE, recs |-> recs, bad |-> {}]
<1>1. \A k \in DOMAIN recs : recs[k] \in Ids(Serving) \ {0}
  BY DEF ServerSends, ToSet
<1>2. m \in Sayings /\ m.recs = recs /\ ~m.ack
  <2>1. recs \in Seq(Sent)
    <3>1. \A k \in DOMAIN recs : recs[k] \in Sent
      BY <1>1 DEF Sent
    <3>2. QED BY <3>1, Valued
  <2>2. {} \in SUBSET DOMAIN IdOf
    OBVIOUS
  <2>3. QED BY <2>1, <2>2 DEF Sayings
<1>3. /\ stream = "open" /\ onWay' = Append(onWay, m) /\ owed' = owed \o Asked(recs)
      /\ UNCHANGED <<lang, catVars, stream, names, allow, strict, serves, inbox, heard>>
  BY DEF ServerSends, Spoken
<1> HIDE DEF m
<1>4. OfThem(m, IF serves THEN names \cap (Listed \cup Routable) ELSE Listed)
  BY <1>1, <1>2 DEF OfThem, Serving
<1>5. serves \in BOOLEAN
  BY HearTypes DEF Wire
<1>6. Wire(onWay', names', allow', serves', strict', lang')
  <2>1. Said(m, names, serves, serves, lang) /\ Wire(onWay, names, allow, serves, strict, lang)
    BY <1>2, <1>4, HearTypes DEF Said
  <2>2. QED BY <1>2, <1>3, <1>5, <2>1, WireAppend
<1>7. QED BY <1>2, <1>3, <1>6, SpokenHear

(* What the filter lets through of the next message is what is owed of it. *)
LEMMA HeadHeard ==
  ASSUME HearInv, onWay # <<>>
  PROVE  /\ Head(onWay) \in Sayings /\ Head(onWay).recs \in Seq(Sent) /\ Tail(onWay) \in Seq(Sayings)
         /\ Admitted(Head(onWay).recs) \in Seq(Sent)
         /\ Records(onWay) = Head(onWay).recs \o Records(Tail(onWay)) /\ Records(Tail(onWay)) \in Seq(Sent)
         /\ Only(Admitted(Head(onWay).recs), Named) = Only(Head(onWay).recs, Named)
         /\ strict => Within(Admitted(Head(onWay).recs), names)
         /\ Wire(Tail(onWay), names, AfterAck(Head(onWay)), serves, strict, lang)
<1> DEFINE h == Head(onWay)
           r == Head(onWay).recs
           in == IF allow.on THEN allow.ids ELSE Ids(DOMAIN IdOf)
<1>1. /\ h \in Sayings /\ r \in Seq(Sent) /\ Tail(onWay) \in Seq(Sayings)
      /\ Records(onWay) = r \o Records(Tail(onWay)) /\ Records(Tail(onWay)) \in Seq(Sent)
  BY HearTypes, RecordsTail
<1>2. Wire(onWay, names, allow, serves, strict, lang)
  BY HearTypes
<1>3. /\ Wire(Tail(onWay), names, IF h.ack THEN [on |-> FALSE, ids |-> {}] ELSE allow, serves, strict, lang)
      /\ OfThem(h, Listed) \/ ~allow.on
      /\ strict => OfThem(h, names) \/ allow.on
  BY <1>2, WireTail
<1>4. Admitted(r) = Only(r, in)
  BY PickedOnly DEF Admitted
<1>5. /\ names \in SUBSET DOMAIN IdOf /\ allow.ids \subseteq Ids(DOMAIN IdOf)
      /\ allow.on => /\ names # {} /\ allow.ids \subseteq Ids(names)
                     /\ (Ids(names) \cap Ids(Listed)) \ {0} \subseteq allow.ids
      /\ strict => names # {}
  BY <1>2 DEF Wire
<1> DEFINE X == {x \in Sent : \E k \in DOMAIN r : r[k] = x}
<1>6. r \in Seq(X) /\ X \subseteq Sent /\ \A x \in X : \E k \in DOMAIN r : r[k] = x
  <2>1. \A k \in DOMAIN r : r[k] \in X
    BY <1>1
  <2>2. QED BY <1>1, <2>1, Valued
<1>7. X \cap Named \subseteq in
  <2>1. ASSUME NEW x \in X, x \in Named, allow.on
        PROVE  x \in allow.ids
    <3>1. x \in Ids(Listed)
      BY <1>3, <1>6, <2>1 DEF OfThem
    <3>2. x \in Ids(names) /\ x # 0
      BY <1>5, <1>6, <2>1 DEF Named, Sent
    <3>3. QED BY <1>5, <2>1, <3>1, <3>2
  <2>2. \A x \in X : x \in Ids(DOMAIN IdOf)
    BY DEF Sent
  <2>3. QED BY <2>1, <2>2
<1>8. strict => \A x \in X : x \in in => x \in Ids(names)
  <2>1. ASSUME strict, NEW x \in X, x \in in, ~allow.on
        PROVE  x \in Ids(names)
    BY <1>3, <1>6, <2>1 DEF OfThem
  <2>2. QED BY <1>5, <2>1
<1> HIDE DEF X, in
<1>9. Only(r, in) \in Seq(X \cap in) /\ Only(Only(r, in), Named) = Only(r, Named)
  BY <1>6, <1>7, OnlyInside, OnlyTwice
<1>10. Only(r, in) \in Seq(Sent)
  <2>1. \A k \in DOMAIN Only(r, in) : Only(r, in)[k] \in Sent
    BY <1>6, <1>9
  <2>2. QED BY <1>9, <2>1, Valued
<1>11. strict => Within(Only(r, in), names)
  BY <1>8, <1>9 DEF Within
<1>12. Wire(Tail(onWay), names, AfterAck(h), serves, strict, lang)
  BY <1>3 DEF AfterAck
<1> HIDE DEF h, r
<1>13. QED BY <1>1, <1>4, <1>9, <1>10, <1>11, <1>12 DEF h, r

LEMMA MessageHear == ASSUME HearInv, Message PROVE HearInv'
<1> DEFINE h == Head(onWay)
           g == Admitted(Head(onWay).recs)
           c == Records(Tail(onWay))
<1>1. /\ lang = "ts" /\ stream = "open" /\ onWay # <<>> /\ onWay' = Tail(onWay)
      /\ allow' = AfterAck(h) /\ heard' = heard \o g
      /\ UNCHANGED <<lang, catVars, stream, names, strict, serves, inbox, owed>>
  BY DEF Message
<1>2. /\ h.recs \in Seq(Sent) /\ g \in Seq(Sent) /\ c \in Seq(Sent)
      /\ Records(onWay) = h.recs \o c /\ Only(g, Named) = Only(h.recs, Named)
      /\ strict => Within(g, names)
      /\ Wire(onWay', names, allow', serves, strict, lang)
  BY <1>1, HeadHeard
<1>3. CatInv' /\ Named' = Named /\ inbox = <<>>
  BY <1>1, HearTypes DEF CatInv, catVars, ListingRows, Named, Ids
<1> HIDE DEF h, g
<1>4. Splits(Sent, heard, g, Named) /\ Splits(Sent, h.recs, c, Named)
  BY <1>2, HearTypes, OnlyConcat
<1>5. Owing(heard', inbox', onWay', Named') = owed'
  <2> DEFINE a == Only(heard, Named)
             d == Only(g, Named)
             e == Only(c, Named)
  <2>1. a \in Seq(Sent) /\ d \in Seq(Sent) /\ e \in Seq(Sent)
    BY <1>4, <1>2, OnlyEnds DEF Splits
  <2>2. Only(heard \o g, Named) = a \o d /\ Only(Records(onWay), Named) = d \o e
    BY <1>2, <1>4 DEF Splits
  <2>3. Only(<<>>, Named) = <<>>
    BY OnlyNone
  <2> HIDE DEF a, d, e
  <2>4. (a \o d) \o <<>> \o e = a \o <<>> \o (d \o e)
    <3>1. \A x \in Seq(Sent) : x \o <<>> = x
      BY Juxtaposed
    <3>2. a \o d \in Seq(Sent) /\ (a \o d) \o e = a \o (d \o e)
      BY <2>1
    <3>3. QED BY <2>1, <3>1, <3>2
  <2>5. a \o <<>> \o (d \o e) = owed
    BY <1>3, <2>2, <2>3, HearTypes DEF Owing, a
  <2>6. Only(c, Named) = e /\ onWay' = Tail(onWay)
    BY <1>1 DEF e
  <2>7. QED BY <1>1, <1>3, <2>2, <2>3, <2>4, <2>5, <2>6 DEF Owing
<1>6. heard' \in Seq(Sent) /\ (strict => Within(heard', names))
  <2>1. heard' \in Seq(Sent)
    BY <1>1, <1>2, HearTypes
  <2>2. ASSUME strict PROVE Within(heard \o g, names)
    <3>1. heard \in Seq(Ids(names)) /\ g \in Seq(Ids(names))
      BY <1>2, <2>2, HearTypes, Valued DEF Within
    <3>2. heard \o g \in Seq(Ids(names))
      BY <3>1
    <3>3. QED BY <3>2 DEF Within
  <2>3. QED BY <1>1, <2>1, <2>2
<1>7. QED BY <1>1, <1>2, <1>3, <1>5, <1>6, HearTypes, HearPack

LEMMA BufferedHear ==
  ASSUME HearInv, NextRecord, inbox # <<>>
  PROVE  HearInv'
<1>1. /\ lang = "py" /\ stream = "open" /\ heard' = Append(heard, Head(inbox)) /\ inbox' = Tail(inbox)
      /\ UNCHANGED <<lang, catVars, stream, names, allow, strict, serves, owed, onWay>>
  BY DEF NextRecord
<1>2. CatInv' /\ Named' = Named
  BY <1>1, HearTypes DEF CatInv, catVars, ListingRows, Named, Ids
<1> DEFINE m == Head(inbox)
           t == Tail(inbox)
<1>3. m \in Sent /\ t \in Seq(Sent) /\ inbox = <<m>> \o t
  BY HearTypes
<1>4. /\ Only(heard, Named) \in Seq(Sent) /\ Only(t, Named) \in Seq(Sent)
      /\ EndingStep(Sent, heard, Named) /\ LeadingStep(Sent, inbox, Named)
  BY <1>3, HearTypes, OnlyEnds
<1>5. /\ Only(Append(heard, m), Named) = IF m \in Named THEN Append(Only(heard, Named), m) ELSE Only(heard, Named)
      /\ Only(inbox, Named) = IF m \in Named THEN <<m>> \o Only(t, Named) ELSE Only(t, Named)
  BY <1>3, <1>4 DEF EndingStep, LeadingStep
<1>6. strict => Within(Append(heard, m), names) /\ Within(t, names)
  <2>1. ASSUME strict PROVE Within(Append(heard, m), names) /\ Within(t, names)
    <3>1. heard \in Seq(Ids(names)) /\ inbox \in Seq(Ids(names))
      BY <2>1, HearTypes, Valued DEF Within
    <3>2. Append(heard, m) \in Seq(Ids(names)) /\ t \in Seq(Ids(names))
      BY <3>1
    <3>3. QED BY <3>2 DEF Within
  <2>2. QED BY <2>1
<1> HIDE DEF m, t
<1>7. Append(heard, m) \in Seq(Sent)
  BY <1>3, HearTypes
<1>8. Only(Records(onWay), Named) \in Seq(Sent)
  BY HearTypes, OnlyEnds
<1>9. Owing(Append(heard, m), t, onWay, Named) = Owing(heard, inbox, onWay, Named)
  <2>1. PassesOn(Only(heard, Named), Only(t, Named), Only(Records(onWay), Named), m)
    BY <1>3, <1>4, <1>8, Passed
  <2>2. QED BY <1>5, <2>1 DEF Owing, PassesOn
<1>10. heard' = Append(heard, m) /\ inbox' = t
  BY <1>1 DEF m, t
<1>11. QED BY <1>1, <1>2, <1>3, <1>6, <1>7, <1>9, <1>10, HearTypes, HearPack

LEMMA FrameHear ==
  ASSUME HearInv, NextRecord, inbox = <<>>
  PROVE  HearInv'
<1> DEFINE h == Head(onWay)
           g == Admitted(Head(onWay).recs)
           c == Records(Tail(onWay))
<1>1. /\ lang = "py" /\ stream = "open" /\ onWay # <<>> /\ onWay' = Tail(onWay)
      /\ IF g = <<>> THEN UNCHANGED <<heard, inbox>>
         ELSE heard' = Append(heard, Head(g)) /\ inbox' = Tail(g)
      /\ UNCHANGED <<lang, catVars, stream, names, allow, strict, serves, owed>>
  BY DEF NextRecord
<1>2. /\ h.recs \in Seq(Sent) /\ g \in Seq(Sent) /\ c \in Seq(Sent)
      /\ Records(onWay) = h.recs \o c /\ Only(g, Named) = Only(h.recs, Named)
      /\ strict => Within(g, names)
      /\ Wire(onWay', names, AfterAck(h), serves, strict, lang)
  BY <1>1, HeadHeard
<1>3. CatInv' /\ Named' = Named
  BY <1>1, HearTypes DEF CatInv, catVars, ListingRows, Named, Ids
<1>4. AfterAck(h) = allow
  <2>1. Wire(onWay, names, allow, serves, strict, lang) /\ 1 \in DOMAIN onWay /\ h = onWay[1]
    BY <1>1, HearTypes
  <2>2. ~h.ack
    BY <1>1, <2>1 DEF Wire
  <2>3. QED BY <2>2 DEF AfterAck
<1> HIDE DEF h, g
<1>5. Splits(Sent, h.recs, c, Named)
  BY <1>2, OnlyConcat
<1> DEFINE a == Only(heard, Named)
           d == Only(g, Named)
           e == Only(c, Named)
<1>6. a \in Seq(Sent) /\ d \in Seq(Sent) /\ e \in Seq(Sent) /\ Only(Records(onWay), Named) = d \o e
  <2>1. a \in Seq(Sent)
    BY HearTypes, OnlyEnds
  <2>2. QED BY <1>2, <1>5, <2>1 DEF Splits
<1>7. Only(<<>>, Named) = <<>> /\ a \o <<>> = a
  BY <1>6, OnlyNone
<1>8. a \o (d \o e) = owed
  BY <1>6, <1>7, HearTypes DEF Owing
<1>9. Only(c, Named) = e /\ onWay' = Tail(onWay)
  BY <1>1
<1> HIDE DEF e
<1>10. CASE g = <<>>
  <2>1. UNCHANGED <<heard, inbox>> /\ d = <<>>
    BY <1>1, <1>7, <1>10
  <2> HIDE DEF d
  <2>2. <<>> \o e = e
    BY <1>6
  <2>3. Owing(heard', inbox', onWay', Named') = owed'
    BY <1>1, <1>3, <1>7, <1>8, <1>9, <2>1, <2>2 DEF Owing, a
  <2>4. QED BY <1>1, <1>2, <1>3, <1>4, <2>1, <2>3, HearTypes, HearPack
<1>11. CASE g # <<>>
  <2> DEFINE m == Head(g)
             t == Tail(g)
             b == Only(t, Named)
  <2>1. m \in Sent /\ t \in Seq(Sent) /\ heard' = Append(heard, m) /\ inbox' = t
    BY <1>1, <1>2, <1>11
  <2>2. EndingStep(Sent, heard, Named) /\ LeadingStep(Sent, g, Named) /\ b \in Seq(Sent)
    BY <1>2, <2>1, HearTypes, OnlyEnds
  <2>3. /\ Only(Append(heard, m), Named) = IF m \in Named THEN Append(a, m) ELSE a
        /\ d = IF m \in Named THEN <<m>> \o b ELSE b
    BY <1>11, <2>1, <2>2 DEF EndingStep, LeadingStep
  <2>4. strict => Within(Append(heard, m), names) /\ Within(t, names)
    <3>1. ASSUME strict PROVE Within(Append(heard, m), names) /\ Within(t, names)
      <4>1. heard \in Seq(Ids(names)) /\ g \in Seq(Ids(names))
        BY <1>2, <3>1, HearTypes, Valued DEF Within
      <4>2. Append(heard, m) \in Seq(Ids(names)) /\ t \in Seq(Ids(names))
        BY <1>11, <4>1
      <4>3. QED BY <4>2 DEF Within
    <3>2. QED BY <3>1
  <2>5. Append(heard, m) \in Seq(Sent)
    BY <2>1, HearTypes
  <2> HIDE DEF m, t
  <2>6. PassesOn(a, b, e, m)
    BY <1>6, <2>1, <2>2, Passed
  <2>7. a \o (d \o e) = (a \o d) \o e
    <3>1. \A x, y, z \in Seq(Sent) : (x \o y) \o z = x \o (y \o z)
      BY ConcatAssociative
    <3>2. QED BY <1>6, <3>1
  <2> HIDE DEF a, d, b
  <2>8. Only(Append(heard, m), Named) \o b \o e = owed
    BY <1>8, <2>3, <2>6, <2>7 DEF PassesOn
  <2>9. Owing(heard', inbox', onWay', Named') = owed'
    BY <1>1, <1>3, <1>9, <2>1, <2>8 DEF Owing, b
  <2>10. QED BY <1>1, <1>2, <1>3, <1>4, <2>1, <2>4, <2>5, <2>9, HearTypes, HearPack
<1>12. QED BY <1>10, <1>11

LEMMA HearInit == ScInit => HearInv
<1> SUFFICES ASSUME ScInit PROVE HearInv
  OBVIOUS
<1>1. \A S : <<>> \in Seq(S) /\ <<>> \o <<>> \o <<>> = <<>> /\ DOMAIN <<>> = {}
  OBVIOUS
<1>2. \A S : Only(<<>>, S) = <<>>
  BY OnlyNone
<1>3. HearsAsked
  BY <1>1, <1>2, PickedOnly, RecordsNone DEF ScInit, HearsAsked, Asked
<1>4. CatInv
  BY DEF ScInit, CatInv
<1>5. WireInv
  BY <1>1 DEF ScInit, WireInv
<1>6. QED BY <1>1, <1>3, <1>4, <1>5 DEF ScInit, HearInv

LEMMA HearNext == SharedIds /\ HearInv /\ [ScNext]_scVars => HearInv'
<1> SUFFICES ASSUME SharedIds, HearInv, [ScNext]_scVars PROVE HearInv'
  OBVIOUS
<1>1. CASE UNCHANGED scVars \/ OpenStream \/ CloseStream
  <2>1. CatInv'
    BY <1>1, HearTypes DEF scVars, catVars, OpenStream, CloseStream, CatInv, ListingRows
  <2>2. UNCHANGED <<lang, names, allow, strict, serves, onWay, inbox, owed, heard>>
    BY <1>1 DEF scVars, subVars, OpenStream, CloseStream
  <2>3. stream' \in {"none", "opening"} => stream' = stream
    BY <1>1 DEF scVars, subVars, OpenStream, CloseStream
  <2>4. QED BY <2>1, <2>2, <2>3, QuietHear
<1>2. CASE \/ Listing \/ Price \/ Throws
           \/ \E refresh \in BOOLEAN : TsDetail(refresh) \/ PyDetail(refresh)
           \/ \E s \in DOMAIN IdOf : TsResolve(s) \/ PyResolve(s)
  <2>1. CatInv'
    BY <1>2, HearTypes, CatNext
  <2>2. lang' = lang /\ UNCHANGED subVars
    BY <1>2 DEF Listing, Price, Throws, TsDetail, PyDetail, TsResolve, PyResolve
  <2>3. QED BY <2>1, <2>2, QuietHear DEF subVars
<1>3. CASE \E a \in Ids(DOMAIN IdOf) : \/ ServerSends(<<a>>)
                                       \/ \E b \in Ids(DOMAIN IdOf) : ServerSends(<<a, b>>)
  <2>1. \A a, b \in Ids(DOMAIN IdOf) : <<a>> \in Seq(Ids(DOMAIN IdOf)) /\ <<a, b>> \in Seq(Ids(DOMAIN IdOf))
    OBVIOUS
  <2>2. QED BY <1>3, <2>1, ServerSendsHear
<1>4. CASE ScNext
  BY <1>1, <1>2, <1>3, <1>4, SubscribeHear, ServerTakesHear, MessageHear, BufferedHear, FrameHear DEF ScNext
<1>5. QED BY <1>1, <1>4

(* client.ts:560-605, ergo.py:443-472 and 888-911: for any listing, any    *)
(* subscription and any feed, a record of a ticker that was asked for is   *)
(* handed out in its turn and once; and where the map held some of the     *)
(* tickers no other record ever is.  A filter knows what is listed by its  *)
(* id: a symbol that shares the id of a listed one has to be listed too.   *)
THEOREM ScriptsHear ==
  ASSUME SharedIds
  PROVE  ScInit /\ [][ScNext]_scVars => []HearsAsked
<1>1. HearInv => HearsAsked
  BY DEF HearInv
<1>2. HearInv /\ [ScNext]_scVars => HearInv'
  BY HearNext
<1>3. QED BY <1>1, <1>2, HearInit, PTL

(* The same of the run that explores the libraries side by side: what each *)
(* hands its caller is one listing of the server, and of the feed every    *)
(* record that was asked for, once and in order.                           *)
THEOREM EveryClientHears ==
  ASSUME SharedIds
  PROVE  FeedSpec => []ClientsHear
<1> DEFINE Inv == ListingInv /\ StreamInv /\ HearInv
<1>1. FeedInit => Inv
  BY RestInitInv, StreamInit, HearInit DEF FeedInit
<1>2. Inv /\ [FeedNext]_<<part, asked, wsVars, tsVars, pubVars, restVars, scVars>> => Inv'
  <2>1. SUFFICES ASSUME Inv, [FeedNext]_<<part, asked, wsVars, tsVars, pubVars, restVars, scVars>>
                 PROVE  Inv'
    OBVIOUS
  <2>2. [RestNext]_restVars /\ [ScNext]_scVars
    BY <2>1 DEF FeedNext
  <2>3. QED BY <2>1, <2>2, RestNextInv, StreamNext, HearNext
<1>3. Inv => ClientsHear
  BY DEF ListingInv, StreamInv, HearInv, ClientsHear
<1>4. QED BY <1>1, <1>2, <1>3, PTL DEF FeedSpec

-----------------------------------------------------------------------------
(* The publisher (FramePublisher).                                         *)

LEMMA PubParams ==
  /\ Sinks \in Nat /\ 1 <= Sinks /\ Capacity \in Nat /\ 1 <= Capacity
  /\ MaxFeed \in Nat /\ MaxSendFails \in Nat
BY PubAssumption

LEMMA PubInitInv == PubInit => PubInv
<1> SUFFICES ASSUME PubInit PROVE PubInv
  OBVIOUS
<1>1. /\ firsts = [i \in Legs |-> <<>>] /\ firsts \in [Legs -> Seq(1 .. MaxFeed)]
      /\ errors = [i \in Legs |-> 0] /\ errors \in [Legs -> 0 .. MaxSendFails]
  BY PubParams DEF PubInit
<1>2. PubTypeOK
  <2>1. /\ produced \in 0 .. MaxFeed /\ next \in 1 .. MaxFeed + 1 /\ frame \in 0 .. MaxFeed
        /\ leg \in Legs /\ lagged \in 0 .. MaxFeed /\ missed \subseteq 1 .. MaxFeed
    BY PubParams DEF PubInit, Legs
  <2>2. ended \in BOOLEAN /\ running \in BOOLEAN
    BY DEF PubInit
  <2>3. QED BY <1>1, <2>1, <2>2 DEF PubTypeOK
<1>3. \A i \in Legs : Len(firsts[i]) = 0 /\ errors[i] = 0 /\ Underway(i) = 0
  BY <1>1 DEF PubInit, Underway
<1>4. LossIsCounted /\ \A i \in Legs : SentBefore(i)
  BY <1>3 DEF PubInit, LossIsCounted, SentBefore
<1>5. QED BY <1>2, <1>4 DEF PubInit, PubInv

(* What the invariant says of one sink, and of one frame it was sent.      *)
LEMMA SinkFacts ==
  ASSUME PubInv, NEW i \in Legs
  PROVE  /\ Len(firsts[i]) \in Nat /\ errors[i] \in Nat /\ Underway(i) \in {0, 1}
         /\ firsts[i] \in Seq(1 .. MaxFeed)
         /\ Len(firsts[i]) + errors[i] + lagged + Underway(i) = next - 1
         /\ \A j \in 1 .. Len(firsts[i]) :
              /\ firsts[i][j] \in Nat /\ firsts[i][j] < next /\ firsts[i][j] \notin missed
              /\ Underway(i) = 1 => firsts[i][j] < frame
         /\ \A j \in 1 .. Len(firsts[i]) - 1 : firsts[i][j] < firsts[i][j + 1]
<1>1. firsts \in [Legs -> Seq(1 .. MaxFeed)] /\ errors \in [Legs -> 0 .. MaxSendFails]
  BY DEF PubInv, PubTypeOK
<1>2. firsts[i] \in Seq(1 .. MaxFeed) /\ errors[i] \in Nat
  BY <1>1, PubParams
<1>3. Len(firsts[i]) \in Nat /\ \A j \in 1 .. Len(firsts[i]) : firsts[i][j] \in Nat
  BY <1>2, PubParams
<1>4. Underway(i) \in {0, 1}
  BY DEF Underway
<1>5. SentBefore(i) /\ LossIsCounted
  BY DEF PubInv
<1>6. QED BY <1>2, <1>3, <1>4, <1>5 DEF SentBefore, LossIsCounted

LEMMA PubFacts ==
  ASSUME PubInv
  PROVE  /\ produced \in Nat /\ produced <= MaxFeed /\ lagged \in Nat
         /\ next \in Nat /\ 1 <= next /\ next <= produced + 1
         /\ frame \in Nat /\ leg \in Legs
         /\ IF frame = 0 THEN leg = 1 ELSE frame = next - 1
         /\ \A m \in missed : m \in Nat /\ 1 <= m /\ m < next /\ m # frame
<1>1. /\ produced \in 0 .. MaxFeed /\ lagged \in 0 .. MaxFeed /\ next \in 1 .. MaxFeed + 1
      /\ frame \in 0 .. MaxFeed /\ leg \in Legs /\ missed \subseteq 1 .. MaxFeed
  BY DEF PubInv, PubTypeOK
<1>2. QED BY <1>1, PubParams DEF PubInv

(* The channel grows or is closed; the task ends.                          *)
LEMMA ChannelInv ==
  ASSUME PubInv, Produce \/ CloseChannel \/ Finish
  PROVE  PubInv'
<1>1. /\ UNCHANGED <<next, frame, leg, errors, lagged, firsts, missed>>
      /\ produced' \in 0 .. MaxFeed /\ produced <= produced'
  BY PubFacts, PubParams DEF Produce, CloseChannel, Finish
<1>2. ended' \in BOOLEAN /\ running' \in BOOLEAN
  BY Zenon DEF Produce, CloseChannel, Finish, PubInv, PubTypeOK
<1>3. PubTypeOK'
  BY <1>1, <1>2 DEF PubInv, PubTypeOK
<1>4. LossIsCounted' /\ \A i \in Legs : SentBefore(i)'
  BY <1>1 DEF PubInv, LossIsCounted, SentBefore, Underway
<1>5. next' <= produced' + 1
  BY <1>1, PubFacts
<1>6. QED BY <1>1, <1>3, <1>4, <1>5 DEF PubInv

LEMMA ReceiveInv ==
  ASSUME PubInv, Receive
  PROVE  PubInv'
<1>1. /\ frame = 0 /\ frame' = next /\ next' = next + 1 /\ leg' = 1 /\ next <= produced
      /\ UNCHANGED <<produced, ended, running, errors, lagged, firsts, missed>>
  BY DEF Receive
<1>2. PubTypeOK'
  <2>1. frame' \in 0 .. MaxFeed /\ next' \in 1 .. MaxFeed + 1 /\ leg' \in Legs
    BY <1>1, PubFacts, PubParams DEF Legs
  <2>2. QED BY <1>1, <2>1 DEF PubInv, PubTypeOK
<1>3. \A i \in Legs : Underway(i) = 0 /\ Underway(i)' = 1
  BY <1>1, PubFacts DEF Underway, Legs
<1>4. \A i \in Legs :
        /\ SentBefore(i)'
        /\ Len(firsts[i]) + errors[i] + lagged + 1 = next
        /\ \A j \in 1 .. Len(firsts[i]) - 1 : firsts[i][j] < firsts[i][j + 1]
        /\ \A j \in 1 .. Len(firsts[i]) : firsts[i][j] \notin missed
  <2> TAKE i \in Legs
  <2>1. /\ Len(firsts[i]) \in Nat /\ errors[i] \in Nat
        /\ Len(firsts[i]) + errors[i] + lagged + Underway(i) = next - 1
        /\ \A j \in 1 .. Len(firsts[i]) :
             firsts[i][j] \in Nat /\ firsts[i][j] < next /\ firsts[i][j] \notin missed
        /\ \A j \in 1 .. Len(firsts[i]) - 1 : firsts[i][j] < firsts[i][j + 1]
    BY SinkFacts
  <2>2. next \in Nat /\ lagged \in Nat /\ Underway(i) = 0
    BY <1>3, PubFacts
  <2>3. Len(firsts[i]) + errors[i] + lagged + 1 = next
    <3>1. Len(firsts[i]) \in Nat /\ errors[i] \in Nat /\ Len(firsts[i]) + errors[i] + lagged + 0 = next - 1
      BY <2>1, <2>2
    <3>2. QED BY <2>2, <3>1
  <2>4. \A j \in 1 .. Len(firsts[i]) : firsts[i][j] < next' /\ firsts[i][j] < frame'
    BY <1>1, <2>1, <2>2
  <2>5. SentBefore(i)'
    BY <1>1, <2>4 DEF SentBefore
  <2>6. QED BY <2>1, <2>3, <2>5
<1>5. LossIsCounted'
  BY <1>1, <1>3, <1>4, PubFacts DEF LossIsCounted
<1>6. \A m \in missed' : m < next' /\ m # frame'
  BY <1>1, PubFacts
<1>7. QED BY <1>1, <1>2, <1>4, <1>5, <1>6, PubFacts DEF PubInv

(* An overflow moves the receiver past the frames it counts.               *)
LEMMA LaggedInv ==
  ASSUME PubInv, Lagged
  PROVE  PubInv'
<1>1. /\ frame = 0 /\ next < OldestKept /\ next' = OldestKept
      /\ lagged' = lagged + (OldestKept - next)
      /\ missed' = missed \cup (next .. OldestKept - 1)
      /\ UNCHANGED <<produced, ended, frame, leg, running, errors, firsts>>
  BY DEF Lagged, Skipped
<1>2. OldestKept \in Nat /\ OldestKept <= produced
  BY <1>1, PubFacts, PubParams DEF OldestKept
<1>3. \A i \in Legs : Underway(i) = 0 /\ Underway(i)' = 0
  BY <1>1 DEF Underway
<1>4. ASSUME NEW i \in Legs
      PROVE  /\ Len(firsts[i]) + errors[i] + lagged' = next' - 1
             /\ \A j \in 1 .. Len(firsts[i]) :
                  firsts[i][j] < next' /\ firsts[i][j] \notin missed'
  <2>1. /\ Len(firsts[i]) \in Nat /\ errors[i] \in Nat
        /\ Len(firsts[i]) + errors[i] + lagged + Underway(i) = next - 1
    BY SinkFacts
  <2>2. Len(firsts[i]) + errors[i] + lagged' = next' - 1
    <3>1. next \in Nat /\ lagged \in Nat /\ Underway(i) = 0
      BY <1>3, PubFacts
    <3>2. QED BY <1>1, <1>2, <2>1, <3>1
  <2>3. \A j \in 1 .. Len(firsts[i]) :
          firsts[i][j] \in Nat /\ firsts[i][j] < next /\ firsts[i][j] \notin missed
    BY SinkFacts
  <2>4. QED BY <1>1, <1>2, <2>2, <2>3, PubFacts
<1>5. LossIsCounted'
  BY <1>1, <1>2, <1>3, <1>4, SinkFacts DEF LossIsCounted
<1>6. lagged' \in 0 .. MaxFeed
  <2>1. 1 \in Legs /\ Len(firsts[1]) \in Nat /\ errors[1] \in Nat
    BY PubParams, SinkFacts DEF Legs
  <2>2. Len(firsts[1]) + errors[1] + lagged' = next' - 1 /\ lagged' \in Nat
    BY <1>1, <1>2, <1>4, <2>1, PubFacts
  <2>3. QED BY <1>1, <1>2, <2>1, <2>2, PubFacts, PubParams
<1>7. PubTypeOK'
  <2>1. next' \in 1 .. MaxFeed + 1 /\ missed' \subseteq 1 .. MaxFeed
    BY <1>1, <1>2, PubFacts, PubParams
  <2>2. QED BY <1>1, <1>6, <2>1 DEF PubInv, PubTypeOK
<1>8. \A i \in Legs : SentBefore(i)'
  BY <1>1, <1>3, <1>4 DEF SentBefore
<1>9. \A m \in missed' : m < next' /\ m # frame'
  BY <1>1, <1>2, PubFacts
<1>10. frame' = 0 /\ leg' = 1 /\ next' <= produced' + 1
  BY <1>1, <1>2, PubFacts
<1>11. QED BY <1>5, <1>7, <1>8, <1>9, <1>10 DEF PubInv

(* One more leg has been served: the sinks before and after it are         *)
(* untouched.                                                              *)
LEMMA AdvanceFacts ==
  ASSUME PubInv, frame # 0, Advance
  PROVE  /\ leg' \in Legs /\ frame' \in {0, frame}
         /\ IF frame' = 0 THEN leg' = 1 ELSE leg' = leg + 1
         /\ \A i \in Legs : IF i = leg THEN Underway(i) = 1 /\ Underway(i)' = 0
                                       ELSE Underway(i)' = Underway(i)
<1>1. leg \in Nat /\ 1 <= leg /\ leg <= Sinks /\ \A i \in Legs : i \in Nat /\ i <= Sinks
  BY PubFacts, PubParams DEF Legs
<1>2. CASE leg = Sinks
  BY <1>1, <1>2, PubParams DEF Advance, Underway, Legs
<1>3. CASE leg # Sinks
  <2>1. frame' = frame /\ leg' = leg + 1 /\ leg' \in Legs
    BY <1>1, <1>3, PubParams DEF Advance, Legs
  <2>2. \A i \in Legs : i # leg => (leg + 1 <= i <=> leg <= i)
    BY <1>1
  <2>3. QED BY <1>1, <2>1, <2>2 DEF Underway
<1>4. QED BY <1>2, <1>3

LEMMA SendFailsInv ==
  ASSUME PubInv, SendFails
  PROVE  PubInv'
<1>1. /\ frame # 0 /\ errors[leg] < MaxSendFails
      /\ errors' = [errors EXCEPT ![leg] = @ + 1]
      /\ UNCHANGED <<produced, ended, next, running, lagged, firsts, missed>>
  BY DEF SendFails
<1>2. /\ leg' \in Legs /\ frame' \in {0, frame}
      /\ IF frame' = 0 THEN leg' = 1 ELSE leg' = leg + 1
      /\ \A i \in Legs : IF i = leg THEN Underway(i) = 1 /\ Underway(i)' = 0
                                    ELSE Underway(i)' = Underway(i)
  BY <1>1, AdvanceFacts DEF SendFails, AfterFailure
<1>3. leg \in Legs /\ errors \in [Legs -> 0 .. MaxSendFails]
  BY DEF PubInv, PubTypeOK
<1>4. PubTypeOK'
  <2>1. errors' \in [Legs -> 0 .. MaxSendFails]
    BY <1>1, <1>3, PubParams
  <2>2. frame' \in 0 .. MaxFeed
    BY <1>2, PubParams DEF PubInv, PubTypeOK
  <2>3. QED BY <1>1, <1>2, <2>1, <2>2 DEF PubInv, PubTypeOK
<1>5. ASSUME NEW i \in Legs
      PROVE  /\ SentBefore(i)'
             /\ Len(firsts[i]) + errors'[i] + lagged + Underway(i)' = next - 1
  <2>1. Underway(i)' = 1 => Underway(i) = 1 /\ frame' = frame
    BY <1>2 DEF Underway
  <2>2. SentBefore(i)'
    BY <1>1, <2>1 DEF PubInv, SentBefore
  <2>3. /\ Len(firsts[i]) \in Nat /\ errors[i] \in Nat /\ Underway(i) \in {0, 1}
        /\ Len(firsts[i]) + errors[i] + lagged + Underway(i) = next - 1
    BY SinkFacts
  <2>4. CASE i = leg
    <3>1. errors'[i] = errors[i] + 1 /\ Underway(i) = 1 /\ Underway(i)' = 0
      BY <1>1, <1>2, <1>3, <2>4
    <3>2. Len(firsts[i]) + errors'[i] + lagged + Underway(i)' = next - 1
      <4> DEFINE sentHere == Len(firsts[i])
                 failedHere == errors[i]
      <4>1. sentHere \in Nat /\ failedHere \in Nat /\ lagged \in Nat /\ next \in Nat
        BY <2>3, PubFacts
      <4>2. sentHere + failedHere + lagged + 1 = next - 1 /\ errors'[i] = failedHere + 1 /\ Underway(i)' = 0
        BY <2>3, <3>1
      <4> HIDE DEF sentHere, failedHere
      <4>3. sentHere + errors'[i] + lagged + Underway(i)' = next - 1
        BY <4>1, <4>2
      <4>4. QED BY <4>3 DEF sentHere
    <3>3. QED BY <2>2, <3>2
  <2>5. CASE i # leg
    <3>1. errors'[i] = errors[i] /\ Underway(i)' = Underway(i)
      BY <1>1, <1>2, <1>3, <2>5
    <3>2. QED BY <2>2, <2>3, <3>1
  <2>6. QED BY <2>4, <2>5
<1>6. LossIsCounted'
  BY <1>1, <1>5, SinkFacts DEF LossIsCounted
<1>7. IF frame' = 0 THEN leg' = 1 ELSE frame' = next' - 1
  BY <1>1, <1>2, PubFacts
<1>8. \A m \in missed' : m < next' /\ m # frame'
  BY <1>1, <1>2, PubFacts
<1>9. QED BY <1>1, <1>4, <1>5, <1>6, <1>7, <1>8, PubFacts DEF PubInv

(* A sink that is sent the frame under way has it after every other.       *)
LEMMA SentInOrder ==
  ASSUME NEW s \in Seq(1 .. MaxFeed), NEW f \in 1 .. MaxFeed,
         \A j \in 1 .. Len(s) - 1 : s[j] < s[j + 1],
         \A j \in 1 .. Len(s) : s[j] < f
  PROVE  /\ Len(Append(s, f)) = Len(s) + 1
         /\ \A j \in 1 .. Len(Append(s, f)) - 1 : Append(s, f)[j] < Append(s, f)[j + 1]
         /\ \A j \in 1 .. Len(Append(s, f)) :
              Append(s, f)[j] = f \/ (j \in 1 .. Len(s) /\ Append(s, f)[j] = s[j])
<1>1. Len(s) \in Nat /\ Len(Append(s, f)) = Len(s) + 1
  OBVIOUS
<1>2. /\ \A j \in 1 .. Len(s) : Append(s, f)[j] = s[j]
      /\ Append(s, f)[Len(s) + 1] = f
  BY <1>1
<1>3. ASSUME NEW j \in 1 .. Len(s)
      PROVE  Append(s, f)[j] < Append(s, f)[j + 1]
  <2>1. CASE j = Len(s)
    BY <1>1, <1>2, <2>1
  <2>2. CASE j # Len(s)
    <3>1. j \in 1 .. Len(s) - 1 /\ j + 1 \in 1 .. Len(s)
      BY <1>1, <2>2
    <3>2. QED BY <1>2, <3>1
  <2>3. QED BY <2>1, <2>2
<1>4. ASSUME NEW j \in 1 .. Len(Append(s, f))
      PROVE  Append(s, f)[j] = f \/ (j \in 1 .. Len(s) /\ Append(s, f)[j] = s[j])
  <2>1. j = Len(s) + 1 \/ j \in 1 .. Len(s)
    BY <1>1
  <2>2. QED BY <1>2, <2>1
<1>5. Len(Append(s, f)) - 1 = Len(s)
  BY <1>1
<1>6. QED BY <1>1, <1>3, <1>4, <1>5

LEMMA SendFirstInv ==
  ASSUME PubInv, SendFirst
  PROVE  PubInv'
<1>1. /\ frame # 0 /\ firsts' = [firsts EXCEPT ![leg] = Append(@, frame)]
      /\ UNCHANGED <<produced, ended, next, running, errors, lagged, missed>>
  BY DEF SendFirst
<1>2. /\ leg' \in Legs /\ frame' \in {0, frame}
      /\ IF frame' = 0 THEN leg' = 1 ELSE leg' = leg + 1
      /\ \A i \in Legs : IF i = leg THEN Underway(i) = 1 /\ Underway(i)' = 0
                                    ELSE Underway(i)' = Underway(i)
  BY <1>1, AdvanceFacts DEF SendFirst
<1>3. /\ leg \in Legs /\ firsts \in [Legs -> Seq(1 .. MaxFeed)]
      /\ frame \in 1 .. MaxFeed /\ frame = next - 1 /\ frame \notin missed
  BY <1>1, PubFacts DEF PubInv, PubTypeOK
<1>4. PubTypeOK'
  <2>1. firsts' \in [Legs -> Seq(1 .. MaxFeed)]
    BY <1>1, <1>3
  <2>2. frame' \in 0 .. MaxFeed
    BY <1>2, PubParams DEF PubInv, PubTypeOK
  <2>3. QED BY <1>1, <1>2, <2>1, <2>2 DEF PubInv, PubTypeOK
<1>5. ASSUME NEW i \in Legs
      PROVE  /\ SentBefore(i)'
             /\ Len(firsts'[i]) + errors[i] + lagged + Underway(i)' = next - 1
             /\ \A j \in 1 .. Len(firsts'[i]) - 1 : firsts'[i][j] < firsts'[i][j + 1]
             /\ \A j \in 1 .. Len(firsts'[i]) : firsts'[i][j] \notin missed
  <2>1. CASE i # leg
    <3>1. firsts'[i] = firsts[i] /\ Underway(i)' = Underway(i)
      BY <1>1, <1>2, <1>3, <2>1
    <3>2. Underway(i)' = 1 => frame' = frame
      BY <1>2 DEF Underway
    <3>3. SentBefore(i)'
      BY <1>1, <3>1, <3>2 DEF PubInv, SentBefore
    <3>4. /\ Len(firsts[i]) + errors[i] + lagged + Underway(i) = next - 1
          /\ \A j \in 1 .. Len(firsts[i]) - 1 : firsts[i][j] < firsts[i][j + 1]
          /\ \A j \in 1 .. Len(firsts[i]) : firsts[i][j] \notin missed
      BY SinkFacts
    <3>5. QED BY <3>1, <3>3, <3>4
  <2>2. CASE i = leg
    <3>1. firsts'[i] = Append(firsts[i], frame) /\ Underway(i) = 1 /\ Underway(i)' = 0
      BY <1>1, <1>2, <1>3, <2>2
    <3>2. /\ firsts[i] \in Seq(1 .. MaxFeed) /\ frame \in 1 .. MaxFeed
          /\ \A j \in 1 .. Len(firsts[i]) - 1 : firsts[i][j] < firsts[i][j + 1]
          /\ \A j \in 1 .. Len(firsts[i]) : firsts[i][j] < frame
      BY <1>3, <3>1, SinkFacts
    <3>3. /\ Len(firsts'[i]) = Len(firsts[i]) + 1
          /\ \A j \in 1 .. Len(firsts'[i]) - 1 : firsts'[i][j] < firsts'[i][j + 1]
          /\ \A j \in 1 .. Len(firsts'[i]) :
               firsts'[i][j] = frame
               \/ (j \in 1 .. Len(firsts[i]) /\ firsts'[i][j] = firsts[i][j])
      <4> DEFINE t == Append(firsts[i], frame)
      <4>1. /\ Len(t) = Len(firsts[i]) + 1
            /\ \A j \in 1 .. Len(t) - 1 : t[j] < t[j + 1]
            /\ \A j \in 1 .. Len(t) :
                 t[j] = frame \/ (j \in 1 .. Len(firsts[i]) /\ t[j] = firsts[i][j])
        BY <3>2, SentInOrder
      <4>2. QED BY <3>1, <4>1
    <3>4. /\ Len(firsts[i]) \in Nat /\ errors[i] \in Nat
          /\ Len(firsts[i]) + errors[i] + lagged + 1 = next - 1
          /\ \A j \in 1 .. Len(firsts[i]) : firsts[i][j] < next /\ firsts[i][j] \notin missed
      BY <3>1, SinkFacts
    <3>5. SentBefore(i)'
      <4>1. next' = next /\ frame < next
        BY <1>1, <1>3, PubFacts
      <4>2. \A j \in 1 .. Len(firsts'[i]) : firsts'[i][j] < next
        BY <3>3, <3>4, <4>1
      <4>3. QED BY <3>1, <4>1, <4>2 DEF SentBefore
    <3>6. Len(firsts'[i]) + errors[i] + lagged + Underway(i)' = next - 1
      <4>1. lagged \in Nat /\ next \in Nat
        BY PubFacts
      <4>2. QED BY <3>1, <3>3, <3>4, <4>1
    <3>7. \A j \in 1 .. Len(firsts'[i]) : firsts'[i][j] \notin missed
      BY <1>3, <3>3, <3>4
    <3>8. QED BY <3>3, <3>5, <3>6, <3>7
  <2>3. QED BY <2>1, <2>2
<1>6. LossIsCounted'
  BY <1>1, <1>5 DEF LossIsCounted
<1>7. IF frame' = 0 THEN leg' = 1 ELSE frame' = next' - 1
  BY <1>1, <1>2, <1>3
<1>8. \A m \in missed' : m < next' /\ m # frame'
  BY <1>1, <1>2, PubFacts
<1>9. QED BY <1>1, <1>4, <1>5, <1>6, <1>7, <1>8, PubFacts DEF PubInv

LEMMA PubNextInv == PubInv /\ [PubNext]_pubVars => PubInv'
<1> SUFFICES ASSUME PubInv, [PubNext]_pubVars
             PROVE  PubInv'
  OBVIOUS
<1>1. CASE UNCHANGED pubVars
  BY <1>1 DEF pubVars, PubInv, PubTypeOK, SentBefore, LossIsCounted, Underway, Legs
<1>2. QED BY <1>1, ChannelInv, ReceiveInv, LaggedInv, SendFirstInv, SendFailsInv DEF PubNext

(* publisher.rs run: the invariant, in every interleaving of producer,     *)
(* overflow and failing sinks.                                             *)
THEOREM PublisherInductive == PubSpec => []PubInv
BY PubInitInv, PubNextInv, PTL DEF PubSpec

(* publisher.rs:121 and 136: whatever overflows and whichever sends fail,  *)
(* at every sink the losses counted and the frames sent in order add up to *)
(* the frames dealt with.                                                  *)
THEOREM EveryLossCounted == PubSpec => []LossIsCounted
<1>1. PubInv => LossIsCounted
  BY DEF PubInv
<1>2. QED BY <1>1, PublisherInductive, PTL

-----------------------------------------------------------------------------
(* Types of what the listing and the stream hold.                          *)
LEMMA RestParams ==
  /\ MaxRestCalls \in Nat /\ Len(Listings) \in Nat /\ 1 <= Len(Listings)
  /\ DOMAIN Listings = 1 .. Len(Listings) /\ Wanted \subseteq SUBSET DOMAIN TickerId
  /\ \A n \in 1 .. Len(Listings) : Listings[n] \subseteq DOMAIN TickerId
<1>1. Listings \in Seq(SUBSET DOMAIN TickerId) /\ Listings # <<>>
  BY RestAssumption
<1>2. Len(Listings) \in Nat /\ DOMAIN Listings = 1 .. Len(Listings) /\ Len(Listings) # 0
  BY <1>1, LenProperties, EmptySeq
<1>3. \A n \in 1 .. Len(Listings) : Listings[n] \in SUBSET DOMAIN TickerId
  BY <1>1, ElementOfSeq
<1>4. QED BY <1>2, <1>3, RestAssumption

CallParts ==
  /\ listed \in 1 .. Len(Listings) /\ detail \in 0 .. Len(Listings) /\ restCalls \in 0 .. MaxRestCalls
  /\ {reply, alone} \subseteq [Tasks -> 0 .. Len(Listings)] /\ wants \in [Tasks -> SUBSET DOMAIN TickerId]
FilterParts ==
  /\ filter # <<>> => filter.on \in BOOLEAN /\ filter.ids \subseteq FeedIds
  /\ chosen \subseteq DOMAIN TickerId

(* The map holds symbols and their ids, none of them zero.                 *)
LEMMA MapTyped ==
  ASSUME ListingInv, CallParts
  PROVE  \A p \in symbolIds : p[2] # 0 /\ \E s \in DOMAIN TickerId : p = <<s, TickerId[s]>>
<1>1. ASSUME NEW n \in 1 .. listed
      PROVE  n \in 1 .. Len(Listings) /\ Listings[n] \subseteq DOMAIN TickerId
  BY <1>1, RestParams DEF CallParts
<1>2. symbolIds = {} \/ \E n \in 1 .. listed : symbolIds = {p \in Rows(n) : p[2] # 0}
  BY DEF ListingInv, OneListing
<1>3. CASE symbolIds = {}
  BY <1>3
<1>4. ASSUME NEW n \in 1 .. listed, symbolIds = {p \in Rows(n) : p[2] # 0}
      PROVE  \A p \in symbolIds : p[2] # 0 /\ \E s \in DOMAIN TickerId : p = <<s, TickerId[s]>>
  BY <1>1, <1>4 DEF Rows
<1>5. QED BY <1>2, <1>3, <1>4

LEMMA RestTyped ==
  ASSUME ListingInv, StreamInv, CallParts, FilterParts
  PROVE  RestTypeOK
<1>1. symbolIds \subseteq {<<s, TickerId[s]>> : s \in DOMAIN TickerId}
  BY MapTyped
<1>2. {reply[t] : t \in Tasks} \cup {alone[t] : t \in Tasks} \subseteq 0 .. Len(Listings)
  BY DEF CallParts
<1>3. \A t \in Tasks : wants[t] \subseteq DOMAIN TickerId
  BY DEF CallParts
<1>4. QED BY <1>1, <1>2, <1>3, RestParams DEF ListingInv, CallsInv, StreamInv, CallParts, FilterParts, RestTypeOK

LEMMA CallPartsInit == RestInit => CallParts
BY RestParams DEF RestInit, CallParts, NoListing

LEMMA CallPartsNext ==
  ASSUME ListingInv, CallParts, [RestNext]_restVars
  PROVE  CallParts'
<1> USE RestParams DEF CallParts
<1> DEFINE L == 0 .. Len(Listings)
<1>1. ASSUME ~RestNext \/ Pop \/ \E batch : ReadBatch(batch)
      PROVE  CallParts'
  BY <1>1 DEF Pop, ReadBatch, restVars, callVars
<1>2. CASE Relist
  BY <1>2 DEF Relist
<1>3. ASSUME NEW t \in Tasks PROVE Disturbed(t) \in [Tasks -> L] /\ [Disturbed(t) EXCEPT ![t] = 0] \in [Tasks -> L]
        /\ listed \in L /\ [Disturbed(t) EXCEPT ![t] = listed] \in [Tasks -> L]
  BY <1>3 DEF Disturbed
<1>4. ASSUME NEW t \in Tasks, NEW then, Look(t, detail, then) PROVE reply' \in [Tasks -> L]
  BY <1>4 DEF Look
<1>5. ASSUME NEW t \in Tasks, CallDetail(t) PROVE CallParts'
  BY <1>3, <1>4, <1>5 DEF CallDetail
<1>6. ASSUME NEW t \in Tasks, CallRefresh(t) PROVE CallParts'
  <2>1. alone' \in [Tasks -> L]
    BY <1>3, <1>6 DEF CallRefresh
  <2>2. QED BY <2>1, <1>6 DEF CallRefresh, NoListing
<1>7. ASSUME NEW t \in Tasks, RefreshLooks(t) PROVE CallParts'
  BY <1>4, <1>7 DEF RefreshLooks
<1>8. ASSUME NEW t \in Tasks, Replied(t) \/ Fail(t) PROVE CallParts'
  BY <1>8 DEF Replied, Fail, NoListing
<1>9. ASSUME NEW t \in Tasks, StoreCache(t) \/ StoreMap(t) \/ Resolve(t) PROVE CallParts'
  BY <1>9 DEF StoreCache, StoreMap, Resolve
<1>10. ASSUME NEW t \in Tasks, NEW many \in Wanted, Subscribe(t, many) PROVE CallParts'
  <2>1. many \subseteq DOMAIN TickerId
    BY <1>10
  <2>2. reply' \in [Tasks -> L]
    BY <1>4, <1>10 DEF Subscribe
  <2>3. alone' \in [Tasks -> L]
    BY <1>3, <1>10 DEF Subscribe
  <2>4. QED BY <2>1, <2>2, <2>3, <1>10 DEF Subscribe
<1>11. QED BY <1>1, <1>2, <1>5, <1>6, <1>7, <1>8, <1>9, <1>10 DEF RestNext

LEMMA FilterPartsInit == RestInit => FilterParts
BY DEF RestInit, FilterParts

LEMMA FilterPartsNext ==
  ASSUME ListingInv, CallParts, FilterParts, [RestNext]_restVars
  PROVE  FilterParts'
<1> USE DEF FilterParts
<1>1. ASSUME UNCHANGED <<filter, chosen>> PROVE FilterParts'
  BY <1>1
<1>2. ASSUME NEW t \in Tasks, Resolve(t) PROVE FilterParts'
  <2>1. Allowed(wants[t]).on \in BOOLEAN /\ Allowed(wants[t]).ids \subseteq FeedIds
    BY MapTyped DEF Allowed, FeedIds
  <2>2. wants[t] \subseteq DOMAIN TickerId
    BY DEF CallParts
  <2>3. QED BY <2>1, <2>2, <1>2 DEF Resolve, StreamOpened
<1>3. ASSUME NEW t \in Tasks, NEW many \in Wanted, Subscribe(t, many) PROVE FilterParts'
  <2>1. CASE UNCHANGED streamVars
    BY <1>1, <2>1 DEF streamVars
  <2>2. CASE StreamOpened({}, [on |-> FALSE, ids |-> {}])
    BY <2>2 DEF StreamOpened
  <2>3. QED BY <2>1, <2>2, <1>3 DEF Subscribe
<1>4. CASE UNCHANGED restVars
  BY <1>1, <1>4 DEF restVars, streamVars
<1>5. ASSUME NEW t \in Tasks, CallDetail(t) \/ CallRefresh(t) \/ RefreshLooks(t) \/ Replied(t) \/ Fail(t)
                \/ StoreCache(t) \/ StoreMap(t)
      PROVE  FilterParts'
  <2>1. UNCHANGED streamVars
    BY <1>5 DEF CallDetail, CallRefresh, RefreshLooks, Replied, Fail, StoreCache, StoreMap
  <2>2. QED BY <1>1, <2>1 DEF streamVars
<1>6. ASSUME Relist \/ Pop \/ \E batch : ReadBatch(batch) PROVE FilterParts'
  BY <1>1, <1>6 DEF Relist, Pop, ReadBatch, streamVars
<1>7. QED BY <1>2, <1>3, <1>4, <1>5, <1>6 DEF RestNext

-----------------------------------------------------------------------------
(* Types of what the script clients hold.                                  *)
ScParts ==
  /\ scCalls \in 0 .. MaxScCalls /\ scSent \in 0 .. MaxSent
  /\ call # <<>> => call.stage \in {"detail", "price"}

LEMMA ScTyped ==
  ASSUME HearInv, ScParts
  PROVE  ScTypeOK
<1>1. Ids(DOMAIN IdOf) \ {0} \subseteq Ids(DOMAIN IdOf)
  OBVIOUS
<1>2. \A s \in Seq(Ids(DOMAIN IdOf) \ {0}) : s \in Seq(Ids(DOMAIN IdOf))
  BY <1>1
<1> DEFINE Heard == [ack : BOOLEAN, recs : Seq(Ids(DOMAIN IdOf) \ {0}), bad : SUBSET DOMAIN IdOf]
           AnyMsg == [ack : BOOLEAN, recs : Seq(Ids(DOMAIN IdOf)), bad : SUBSET DOMAIN IdOf]
<1>3. Heard \subseteq AnyMsg
  BY <1>2
<1>4. onWay \in Seq(Heard)
  BY DEF HearInv, WireInv
<1>5. onWay \in Seq(AnyMsg)
  <2> HIDE DEF Heard, AnyMsg
  <2>1. QED BY <1>3, <1>4
<1>6. QED BY <1>5 DEF HearInv, CatInv, ScParts, ScTypeOK

LEMMA ScPartsInit == ScInit => ScParts
BY ScAssumption DEF ScInit, ScParts

LEMMA ScPartsNext ==
  ASSUME HearInv, ScParts, [ScNext]_scVars
  PROVE  ScParts'
<1> USE DEF ScParts
<1>0. MaxScCalls \in Nat /\ MaxSent \in Nat
  BY ScAssumption
<1>1. ASSUME UNCHANGED <<call, scCalls, scSent>> PROVE ScParts'
  BY <1>1
<1>2. ASSUME Free, UNCHANGED scSent,
             call' = <<>> \/ \E s, w, g : g \in {"detail", "price"} /\ call' = [why |-> w, sym |-> s, stage |-> g]
      PROVE  ScParts'
  BY <1>0, <1>2 DEF Free
<1>3. ASSUME NEW refresh, TsDetail(refresh) \/ PyDetail(refresh) PROVE ScParts'
  <2>1. Free /\ UNCHANGED scSent
    BY <1>3 DEF TsDetail, PyDetail, subVars
  <2>2. call' = <<>> \/ \E s, w, g : g \in {"detail", "price"} /\ call' = [why |-> w, sym |-> s, stage |-> g]
    BY <1>3 DEF TsDetail, PyDetail, Free
  <2>3. QED BY <1>2, <2>1, <2>2
<1>4. ASSUME NEW s, TsResolve(s) \/ PyResolve(s) PROVE ScParts'
  <2>1. Free /\ UNCHANGED scSent
    BY <1>4 DEF TsResolve, PyResolve, subVars
  <2>2. [FreshCall(s, "resolve") EXCEPT !.stage = "price"] = [why |-> "resolve", sym |-> s, stage |-> "price"]
    BY DEF FreshCall
  <2>3. call' = <<>> \/ call' = FreshCall(s, "resolve") \/ call' = [why |-> "resolve", sym |-> s, stage |-> "price"]
    BY <1>4, <2>2 DEF TsResolve, PyResolve, Free
  <2>4. QED BY <1>2, <2>1, <2>3 DEF FreshCall
<1>5. CASE Listing
  <2>1. call' = <<>> \/ call' = [call EXCEPT !.stage = "price"]
    BY <1>5 DEF Listing, subVars
  <2>2. UNCHANGED <<scCalls, scSent>>
    BY <1>5 DEF Listing, subVars
  <2>3. CASE call' = <<>>
    BY <2>2, <2>3
  <2>4. CASE call' = [call EXCEPT !.stage = "price"]
    <3>1. call'.stage = "price" \/ call'.stage = call.stage
      BY <2>4
    <3>2. call.stage \in {"detail", "price"}
      BY <1>5 DEF Listing
    <3>3. QED BY <2>2, <3>1, <3>2
  <2>5. QED BY <2>1, <2>3, <2>4
<1>6. CASE Price \/ Throws
  BY <1>6 DEF Price, Throws, subVars
<1>7. ASSUME NEW m, Spoken(m), scSent \in Nat, Len(m.recs) \in Nat, UNCHANGED <<call, scCalls>> PROVE ScParts'
  BY <1>0, <1>7 DEF Spoken
<1>8. CASE ServerTakes
  <2>1. Len(<<>>) \in Nat
    OBVIOUS
  <2>2. QED BY <2>1, <1>7, <1>8 DEF ServerTakes, catVars
<1>9. ASSUME NEW a, NEW b, ServerSends(<<a>>) \/ ServerSends(<<a, b>>) PROVE ScParts'
  <2>1. Len(<<a>>) \in Nat /\ Len(<<a, b>>) \in Nat
    OBVIOUS
  <2>2. QED BY <2>1, <1>7, <1>9 DEF ServerSends, catVars
<1>10. CASE OpenStream \/ Message \/ NextRecord \/ CloseStream \/ UNCHANGED scVars
  BY <1>1, <1>10 DEF OpenStream, Message, NextRecord, CloseStream, catVars, subVars, scVars
<1>11. ASSUME NEW w, NEW a, TsSubscribe(w) \/ PySubscribe(w, a) PROVE ScParts'
  BY <1>1, <1>11 DEF TsSubscribe, PySubscribe, Subscribed
<1>12. QED BY <1>3, <1>4, <1>5, <1>6, <1>8, <1>9, <1>10, <1>11 DEF ScNext

-----------------------------------------------------------------------------
(* ws_client.rs, client.ts, client.rs, ergo.py and publisher.rs, each      *)
(* explored by itself: every state of every library is well typed and in   *)
(* the inductive invariant that its other theorems rest on.                *)
THEOREM FeedTyped ==
  ASSUME Keepalive > 0, SharedIds
  PROVE  FeedSpec => []FeedTypeOK
<1> DEFINE Others == ListingInv /\ StreamInv /\ CallParts /\ FilterParts
           Script == HearInv /\ ScParts
           Inv == WsInv /\ TsInv /\ PubInv /\ Others /\ Script
           Next == [FeedNext]_<<part, asked, wsVars, tsVars, pubVars, restVars, scVars>>
<1>1. FeedInit => Inv
  BY WsInitInv, TsInitInv, PubInitInv, RestInitInv, StreamInit, CallPartsInit, FilterPartsInit,
     HearInit, ScPartsInit DEF FeedInit
<1>2. Inv /\ Next => Inv'
  <2>1. SUFFICES ASSUME Inv, Next
                 PROVE  Inv'
    OBVIOUS
  <2>2. /\ [WsNext]_wsVars /\ [TsNext]_tsVars /\ [PubNext]_pubVars
        /\ [RestNext]_restVars /\ [ScNext]_scVars
    BY <2>1 DEF FeedNext
  <2>3. WsInv' /\ TsInv' /\ PubInv'
    BY <2>1, <2>2, WsNextInv, TsNextInv, PubNextInv
  <2>4. Others'
    BY <2>1, <2>2, RestNextInv, StreamNext, CallPartsNext, FilterPartsNext
  <2>5. Script'
    BY <2>1, <2>2, HearNext, ScPartsNext
  <2>6. QED BY <2>3, <2>4, <2>5
<1>3. Inv => FeedTypeOK
  BY RestTyped, ScTyped DEF FeedTypeOK
<1>4. QED BY <1>1, <1>2, <1>3, PTL DEF FeedSpec
=============================================================================

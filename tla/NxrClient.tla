------------------------------ MODULE NxrClient -----------------------------
(***************************************************************************)
(* ts/src/client.ts NxrClient: the life of its WebSocket over connect,     *)
(* disconnect, the reconnect timer and the events of the sockets.  The     *)
(* code runs on one event loop; what is asynchronous is when an event of a *)
(* socket is dispatched, and a socket that the client closes still has its *)
(* close event to come.                                                    *)
(*                                                                         *)
(* A timer is named by the socket whose close event set it.  Sockets of    *)
(* subscribe, which are not kept, are left out.                            *)
(*                                                                         *)
(* RetryOnError is a wrong version of the definition that follows it:      *)
(* nothing uses it, and the property is checked to fail with it.           *)
(***************************************************************************)
EXTENDS Integers, FiniteSets, Sequences

CONSTANTS
  \* bounds of the model
  MaxSockets, MaxCalls, MaxBatches

ASSUME TsAssumption == {MaxSockets, MaxCalls, MaxBatches} \subseteq Nat

VARIABLES
  phase,       \* [Sockets -> readyState, or unborn]
  ws,          \* this.ws
  timers,      \* pending timeouts
  handle,      \* this.reconnectTimer
  wsState,
  wire,        \* [Sockets -> batches sent and not yet dispatched]
  sent,        \* batches the server has broadcast
  got,         \* history: the batches dispatched, as a sequence
  calls,       \* of connect and disconnect
  wanted       \* history: the last of them was connect

socket == <<phase, wire>>
tsVars == <<socket, ws, timers, handle, wsState, sent, got, calls, wanted>>

Sockets == 1 .. MaxSockets
NoSocket == 0
Is(p)   == {s \in Sockets : phase[s] = p}
Unborn  == Is("unborn")
Alive   == Is("connecting") \cup Is("open")

Closing(ph, s) ==
  IF s # NoSocket /\ ph[s] \in {"connecting", "open"}
    THEN [ph EXCEPT ![s] = "closing"] ELSE ph

-----------------------------------------------------------------------------
(* doConnect, with the timeouts that are left when it is entered.          *)
DoConnect(left) ==
  /\ Unborn # {}
  /\ LET new == CHOOSE s \in Unborn : TRUE IN
     /\ phase' = [Closing(phase, ws) EXCEPT ![new] = "connecting"]
     /\ ws' = new
  /\ timers' = left \ {handle} /\ handle' = NoSocket
  /\ wsState' = "connecting"

Connect ==
  /\ calls < MaxCalls /\ calls' = calls + 1
  /\ wanted' = TRUE
  /\ DoConnect(timers)
  /\ UNCHANGED <<wire, sent, got>>

Disconnect ==
  /\ calls < MaxCalls /\ calls' = calls + 1
  /\ wanted' = FALSE
  /\ timers' = timers \ {handle} /\ handle' = NoSocket
  /\ phase' = Closing(phase, ws) /\ ws' = NoSocket
  /\ wsState' = "disconnected"
  /\ UNCHANGED <<wire, sent, got>>

TimerFires(t) ==
  /\ t \in timers
  /\ DoConnect(timers \ {t})
  /\ UNCHANGED <<wire, sent, got, calls, wanted>>

-----------------------------------------------------------------------------
(* The events of a socket.                                                 *)
Opened(s) ==
  /\ phase[s] = "connecting"
  /\ phase' = [phase EXCEPT ![s] = "open"]
  /\ wsState' = "connected"
  /\ UNCHANGED <<wire, ws, timers, handle, sent, got, calls, wanted>>

(* onerror; the close event of the socket follows.                         *)
RetryOnError(s) ==
  /\ s \in Alive
  /\ phase' = [phase EXCEPT ![s] = "closing"]
  /\ wsState' = "error"
  /\ timers' = timers \cup {s} /\ handle' = s
  /\ UNCHANGED <<wire, ws, sent, got, calls, wanted>>
Error(s) ==
  /\ s \in Alive
  /\ phase' = [phase EXCEPT ![s] = "closing"]
  /\ wsState' = "error"
  /\ UNCHANGED <<wire, ws, timers, handle, sent, got, calls, wanted>>

(* onclose, of a socket that the server, an error or the client closed.    *)
Retries(s) == TRUE

Closed(s) ==
  /\ s \in Alive \cup Is("closing")
  /\ phase' = [phase EXCEPT ![s] = "closed"]
  /\ wire' = [wire EXCEPT ![s] = <<>>]
  /\ ws' = NoSocket
  /\ wsState' = "error"
  /\ IF Retries(s) THEN timers' = timers \cup {s} /\ handle' = s
                   ELSE UNCHANGED <<timers, handle>>
  /\ UNCHANGED <<sent, got, calls, wanted>>

(* The server broadcasts to every socket it has open.                      *)
Broadcast ==
  /\ sent < MaxBatches
  /\ sent' = sent + 1
  /\ wire' = [s \in Sockets |-> IF phase[s] = "open" THEN Append(wire[s], sent') ELSE wire[s]]
  /\ UNCHANGED <<phase, ws, timers, handle, wsState, got, calls, wanted>>

(* onmessage, onFrame: the same callbacks for whichever socket it is.  A   *)
(* Node socket still dispatches while it is closing.                       *)
Dispatch(s) ==
  /\ phase[s] \in {"open", "closing"} /\ wire[s] # <<>>
  /\ got' = Append(got, Head(wire[s]))
  /\ wire' = [wire EXCEPT ![s] = Tail(@)]
  /\ UNCHANGED <<phase, ws, timers, handle, wsState, sent, calls, wanted>>

TsInit ==
  /\ phase = [s \in Sockets |-> "unborn"] /\ ws = NoSocket
  /\ timers = {} /\ handle = NoSocket /\ wsState = "disconnected"
  /\ wire = [s \in Sockets |-> <<>>] /\ sent = 0 /\ got = <<>>
  /\ calls = 0 /\ wanted = FALSE

TsNext ==
  \/ Connect \/ Disconnect \/ Broadcast
  \/ \E s \in Sockets :
       TimerFires(s) \/ Opened(s) \/ Error(s) \/ Closed(s) \/ Dispatch(s)

TsSpec == TsInit /\ [][TsNext]_tsVars

-----------------------------------------------------------------------------
TsTypeOK ==
  /\ phase \in [Sockets -> {"unborn", "connecting", "open", "closing", "closed"}]
  /\ {ws, handle} \subseteq Sockets \cup {NoSocket} /\ timers \subseteq Sockets
  /\ wsState \in {"disconnected", "connecting", "connected", "error"}
  /\ wire \in [Sockets -> Seq(1 .. MaxBatches)] /\ got \in Seq(1 .. MaxBatches)
  /\ sent \in 0 .. MaxBatches /\ calls \in 0 .. MaxCalls /\ wanted \in BOOLEAN

(* A client that is to be connected has a socket under way or a timer that *)
(* will make one: no order of errors, closes and calls leaves it stuck.    *)
NeverStuck == wanted => Alive # {} \/ Is("closing") \cup timers # {}

(* However often its socket breaks, a client that was connected by one     *)
(* call dispatches every batch at most once and in order, and says it is   *)
(* connected only while it is.  A second connect, or a disconnect, breaks  *)
(* this: the close event of the old socket lets go of the new one and sets *)
(* the timer, and a third socket joins the one nobody holds.               *)
OneStream ==
  (calls = 1 /\ wanted) =>
    /\ \A i \in 1 .. Len(got) - 1 : got[i] < got[i + 1]
    /\ Cardinality(Alive) <= 1
    /\ wsState = "connected" => Is("open") # {}

(* The TypeScript client is never stuck, and of two streams that its       *)
(* reconnects may open only one is heard.                                  *)
TsStreams == NeverStuck /\ OneStream

(* The inductive invariant.  Before the first call there is nothing.       *)
Running == Alive \cup Is("closing")
Untouched ==
  calls = 0 => /\ ~wanted /\ timers = {} /\ got = <<>> /\ wsState = "disconnected"
               /\ \A s \in Sockets : phase[s] = "unborn" /\ wire[s] = <<>>

(* What was dispatched, then what is on the wire of s, is in order.        *)
Ordered(q) == \A i, j \in 1 .. Len(q) : i < j => q[i] < q[j]
InOrder(s) == /\ Ordered(wire[s])
              /\ \A i \in 1 .. Len(got), j \in 1 .. Len(wire[s]) : got[i] < wire[s][j]
OnlySent   == /\ \A i \in 1 .. Len(got) : got[i] <= sent
              /\ \A s \in Sockets : \A i \in 1 .. Len(wire[s]) : wire[s][i] <= sent

(* A client connected by one call has one socket that is not done with, or *)
(* else one timer, and batches are under way to that socket alone.         *)
OneLife ==
  (calls = 1 /\ wanted) =>
    /\ \A s, t \in Running : s = t
    /\ \A s, t \in timers : s = t
    /\ Running = {} \/ timers = {}
    /\ \A s \in Sockets \ Running : wire[s] = <<>>
    /\ Ordered(got) /\ \A s \in Sockets : InOrder(s)
    /\ wsState = "connected" => Is("open") # {}

TsInv == TsTypeOK /\ NeverStuck /\ Untouched /\ OnlySent /\ OneLife
=============================================================================

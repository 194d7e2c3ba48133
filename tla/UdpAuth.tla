------------------------------ MODULE UdpAuth -------------------------------
(***************************************************************************)
(* udp_auth.rs: the sequence window that makes the forwarder -> aggregator *)
(* datagrams count once, over a network that loses, delays, reorders and   *)
(* duplicates them, with forwarders that restart on a new source port and  *)
(* count from 0 again.                                                     *)
(*                                                                         *)
(* A datagram here has passed the checks of verify that touch no state:    *)
(* length, magic, version, key and tag.  clockNow is the clock of the      *)
(* aggregator; a forwarder's may be ahead of it.  twice, refused, exempt   *)
(* and lapsed are history: exempt has what was let through on account of   *)
(* an allowance (a stamp ahead of the clock, or the drain grace), lapsed   *)
(* what was let through before its window was started anew.                *)
(*                                                                         *)
(* ExpiredEarly and SlotsKept are wrong versions of the definitions that   *)
(* follow them: nothing uses them, and the properties are checked to fail  *)
(* with them.                                                              *)
(***************************************************************************)
EXTENDS Integers, FiniteSets

CONSTANTS
  Bits,        \* REPLAY_BITS
  Window,      \* replay_window
  MaxAge,      \* max_age_ms
  MaxFuture,   \* max_future_ms
  DrainGrace,  \* drain_grace_ms
  MaxPeers,    \* MAX_REPLAY_PEERS
  Rate,        \* datagrams a forwarder seals in one tick, at most
  Lag,         \* age of the oldest frame of a packed datagram, at most
  Ahead,       \* how far a forwarder's clock is ahead, at most
  BootTime,    \* time a forwarder takes to restart, at least
  \* bounds of the model
  Ports, LastTime,
  ArmTimes     \* the drain grace is armed at these times

ASSUME UdpAssumption ==
  /\ {Bits, MaxPeers, Rate, Ports} \subseteq Nat \ {0}
  /\ Window \in 1 .. Bits
  /\ {MaxAge, MaxFuture, DrainGrace, Lag, Ahead, BootTime, LastTime} \subseteq Nat

VARIABLES
  clockNow,
  port,        \* source port of the forwarder, one per start
  sequence,    \* its next sequence
  sealed_now,  \* datagrams sealed in this tick
  up_at,       \* it is down before this time
  sealed,      \* every datagram sealed so far
  replay,      \* [ports with an entry -> ReplayState]
  grace_until, \* drain_grace_until_ms
  accepted,    \* datagrams let through so far
  twice,       \* datagrams let through more than once
  refused,     \* datagrams refused by the window and never let through before
  exempt, lapsed

sender  == <<port, sequence, sealed_now, up_at, sealed>>
ledger  == <<accepted, twice, refused, exempt, lapsed>>
udpVars == <<clockNow, sender, replay, grace_until, ledger>>

UdpTimes == 0 .. LastTime
Stamps   == 0 .. LastTime + Ahead
NotArmed == -1
Datagram == [port : 1 .. Ports, seq : Nat, ts : Stamps]
State    == [highest : Nat, bits : SUBSET (0 .. Bits - 1), last_ms : UdpTimes]
Peers    == DOMAIN replay

-----------------------------------------------------------------------------
(* The forwarder: seal_into.                                               *)
Seal(ts) ==
  /\ clockNow >= up_at /\ sealed_now < Rate
  /\ sealed' = sealed \cup {[port |-> port, seq |-> sequence, ts |-> ts]}
  /\ sequence' = sequence + 1
  /\ sealed_now' = sealed_now + 1
  /\ UNCHANGED <<clockNow, port, up_at, replay, grace_until, ledger>>

RestartSender ==
  /\ port < Ports /\ clockNow + BootTime <= LastTime
  /\ port' = port + 1
  /\ sequence' = 0
  /\ up_at' = clockNow + BootTime
  /\ UNCHANGED <<clockNow, sealed_now, sealed, replay, grace_until, ledger>>

-----------------------------------------------------------------------------
(* check_and_mark_replay.                                                  *)

UdpSlot(s) == s % Bits                                          \* ReplayState::slot
ResetTo(s) == [highest |-> s, bits |-> {UdpSlot(s)}, last_ms |-> clockNow]

(* evict_replay_state: the map grows past MaxPeers by one entry, then the  *)
(* idle entries go, then the least recently used one.                      *)
PeerIdle(p) == clockNow - replay[p].last_ms > MaxAge
KeptPeers(D) == [p \in D |-> replay[p]]
Oldest(D) == {p \in D : \A q \in D : replay[p].last_ms <= replay[q].last_ms}

Evicted ==
  LET live == {p \in Peers : ~PeerIdle(p)}
  IN  IF Cardinality(Peers) <= MaxPeers THEN {replay}
      ELSE IF Cardinality(live) <= MaxPeers THEN {KeptPeers(live)}
      ELSE {KeptPeers(live \ {p}) : p \in Oldest(live)}

ExpiredEarly(st) == clockNow - st.last_ms >= MaxAge
Expired(st) == clockNow - st.last_ms > MaxAge

SlotsKept(st, s) == st.bits \cup {UdpSlot(s)}
Advanced(st, s) ==
  (st.bits \ {UdpSlot(i) : i \in st.highest + 1 .. s}) \cup {UdpSlot(s)}

(* The window of p after s, or no window: s is refused.                    *)
OutsideWindow(st, s) == st.highest - s >= Window
Refused(st, s) ==
  /\ ~Expired(st)
  /\ s <= st.highest
  /\ OutsideWindow(st, s) \/ UdpSlot(s) \in st.bits
Marked(st, s) ==
  IF Expired(st) \/ s - st.highest >= Bits THEN ResetTo(s)
  ELSE IF s > st.highest THEN [highest |-> s, bits |-> Advanced(st, s), last_ms |-> clockNow]
  ELSE [highest |-> st.highest, bits |-> st.bits \cup {UdpSlot(s)}, last_ms |-> clockNow]

-----------------------------------------------------------------------------
(* verify, for one copy of a datagram; the network keeps its others.       *)
StampAge(d) == IF d.ts < clockNow THEN clockNow - d.ts ELSE 0
Future(d) == d.ts > clockNow + MaxFuture
Leeway == IF clockNow <= grace_until THEN DrainGrace ELSE 0
Stale(d) == StampAge(d) > MaxAge + Leeway
Allowed(d) == d.ts > clockNow \/ StampAge(d) > MaxAge       \* what lets it pass, if it does

With(r, p, st) == [q \in DOMAIN r \cup {p} |-> IF q = p THEN st ELSE r[q]]

Refuse(d, r) ==
  /\ d.port \in DOMAIN r /\ Refused(r[d.port], d.seq)
  /\ replay' = r
  /\ refused' = IF d \in accepted THEN refused ELSE refused \cup {d}
  /\ UNCHANGED <<accepted, twice, exempt, lapsed>>

Accept(d, r) ==
  /\ ~(d.port \in DOMAIN r /\ Refused(r[d.port], d.seq))
  /\ LET known == d.port \in DOMAIN r
     IN  /\ replay' = With(r, d.port, IF known THEN Marked(r[d.port], d.seq) ELSE ResetTo(d.seq))
         /\ lapsed' = IF known /\ ~Expired(r[d.port]) THEN lapsed
                      ELSE lapsed \cup {e \in accepted : e.port = d.port}
  /\ accepted' = accepted \cup {d}
  /\ twice' = IF d \in accepted THEN twice \cup {d} ELSE twice
  /\ exempt' = IF Allowed(d) THEN exempt \cup {d} ELSE exempt
  /\ UNCHANGED refused

Deliver(d) ==
  /\ ~Future(d)
  /\ grace_until' = IF StampAge(d) > MaxAge /\ clockNow > grace_until THEN NotArmed ELSE grace_until
  /\ \/ Stale(d) /\ UNCHANGED <<replay, ledger>>
     \/ ~Stale(d) /\ \E r \in Evicted : Refuse(d, r) \/ Accept(d, r)
  /\ UNCHANGED <<clockNow, sender>>

(* The aggregator expects a backlog, and finds its queue drained.          *)
ArmDrainGrace ==
  /\ DrainGrace > 0 /\ clockNow \in ArmTimes
  /\ grace_until' = clockNow + DrainGrace
  /\ UNCHANGED <<clockNow, sender, replay, ledger>>

DisarmDrainGrace ==
  /\ grace_until' = NotArmed
  /\ UNCHANGED <<clockNow, sender, replay, ledger>>

UdpTick ==
  /\ clockNow < LastTime
  /\ clockNow' = clockNow + 1
  /\ sealed_now' = 0
  /\ UNCHANGED <<port, sequence, up_at, sealed, replay, grace_until, ledger>>

UdpInit ==
  /\ clockNow = 0
  /\ port = 1 /\ sequence = 0 /\ sealed_now = 0 /\ up_at = 0 /\ sealed = {}
  /\ replay = [p \in {} |-> 0]
  /\ grace_until = NotArmed
  /\ accepted = {} /\ twice = {} /\ refused = {} /\ exempt = {} /\ lapsed = {}

UdpNext ==
  \/ \E ts \in Stamps : clockNow - Lag <= ts /\ ts <= clockNow + Ahead /\ Seal(ts)
  \/ RestartSender
  \/ \E d \in sealed : Deliver(d)
  \/ ArmDrainGrace \/ DisarmDrainGrace
  \/ UdpTick

UdpSpec == UdpInit /\ [][UdpNext]_udpVars

-----------------------------------------------------------------------------
(* The map of windows is bounded: MaxPeers and the one being inserted.     *)
UdpTypeOK ==
  /\ clockNow \in UdpTimes /\ port \in 1 .. Ports
  /\ {sequence, sealed_now, up_at} \subseteq Nat
  /\ sealed \subseteq Datagram
  /\ Peers \subseteq 1 .. Ports /\ Cardinality(Peers) <= MaxPeers + 1
  /\ \A p \in Peers : replay[p] \in State
  /\ grace_until \in {NotArmed} \cup (0 .. LastTime + DrainGrace)
  /\ accepted \subseteq sealed /\ refused \subseteq sealed
  /\ twice \subseteq accepted /\ exempt \subseteq accepted /\ lapsed \subseteq accepted

(* udp_auth.rs:55: the bitmap, not the freshness bound, makes a datagram   *)
(* count once.  However often and late the network repeats it, and however *)
(* the windows are reset, evicted and started again, it is let through a   *)
(* second time only if both are so: its window had been idle or evicted    *)
(* since the first, and one of the two times it passed on an allowance, a  *)
(* stamp ahead of the clock or the drain grace.                            *)
AtMostOnce == twice \subseteq exempt \cap lapsed

(* udp_auth.rs:40: a window as large as the datagrams of one freshness     *)
(* period, the grace and the skew of the clocks included, refuses no       *)
(* datagram that arrives in time: neither a late one behind newer ones,    *)
(* nor the first of a restarted forwarder, nor one of a backlog, nor one   *)
(* whose slot an older sequence has marked.                                *)
FreshNeverRefused == refused = {}

-----------------------------------------------------------------------------
(* Why they hold.  A start seals each sequence once, at most Rate of them  *)
(* in a tick, and the stamps of two starts are Apart.                      *)
Apart == BootTime - Lag - Ahead

Sealing ==
  /\ sealed_now <= Rate
  /\ \A d \in sealed :
       /\ d.port <= port /\ d.ts <= clockNow + Ahead
       /\ d.port = port => /\ d.seq < sequence
                           /\ sequence - d.seq <= Rate * (clockNow + Ahead - d.ts) + sealed_now
  /\ \A d, e \in sealed :
       d.port = e.port => /\ d.seq = e.seq => d = e
                          /\ e.seq - d.seq < Rate * (clockNow + Ahead - d.ts + 1)
Starts ==
  /\ \A d \in sealed : d.port < port => d.ts + BootTime <= up_at + Ahead
  /\ \A d, e \in sealed : d.port < e.port => d.ts + Apart <= e.ts

(* Everything an entry says of its port, a datagram let through said.      *)
Told(by, p, st) ==
  /\ \E a \in by : a.port = p /\ a.seq = st.highest
  /\ \E a \in by : /\ a.port = p /\ a.ts <= st.last_ms + MaxFuture
                   /\ st.last_ms - a.ts <= MaxAge + DrainGrace
  /\ \A b \in st.bits : \E a \in by :
       a.port = p /\ UdpSlot(a.seq) = b /\ a.seq <= st.highest /\ st.highest - a.seq < Bits
Windows == \A p \in Peers : replay[p].last_ms <= clockNow /\ Told(accepted, p, replay[p])

UdpInv == UdpTypeOK /\ Sealing /\ Starts /\ Windows

(* What was let through would be refused now, as long as its window is the *)
(* one that let it through; and it is, while the datagram is fresh and was *)
(* not let through on an allowance.                                        *)
Covers(st, d) == d.seq <= st.highest /\ (OutsideWindow(st, d.seq) \/ UdpSlot(d.seq) \in st.bits)
Remembered ==
  /\ \A d \in accepted \ lapsed : d.port \in Peers => Covers(replay[d.port], d)
  /\ \A d \in accepted \ exempt :
       /\ d.ts <= clockNow
       /\ clockNow - d.ts <= MaxAge =>
            d \notin lapsed /\ d.port \in Peers /\ d.ts <= replay[d.port].last_ms

(* The sizes that the two properties need: a window of one freshness       *)
(* period, and entries for the starts whose datagrams can be fresh at once.*)
WindowFits == Rate * (MaxAge + DrainGrace + Ahead + 1) <= Window
PeersFit   ==
  /\ Apart > 0
  /\ (MaxAge + MaxFuture) \div Apart + (MaxAge + DrainGrace) \div Apart < MaxPeers

=============================================================================

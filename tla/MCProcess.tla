------------------------------ MODULE MCProcess ------------------------------
(***************************************************************************)
(* TLC instances of what every process of the fleet carries besides its    *)
(* shards: the log it appends to, the latency histogram, the liveness      *)
(* probe and the datagram window.  They share no state: each is explored   *)
(* by itself.                                                              *)
(***************************************************************************)
EXTENDS AppendLog, LagHist, TransportHealth, UdpAuth, TLC

VARIABLE explored

ProcessInit ==
  /\ explored \in {"log", "lag", "probe", "datagrams"}
  /\ Init /\ LagInit /\ ProbeInit /\ UdpInit
  /\ drained => explored = "lag"
  /\ cap > 0 => explored = "log"
ProcessNext ==
  \/ explored = "log"       /\ Next      /\ UNCHANGED <<explored, lagVars, probe, udpVars>>
  \/ explored = "lag"       /\ LagNext   /\ UNCHANGED <<explored, vars, probe, udpVars>>
  \/ explored = "probe"     /\ ProbeNext /\ UNCHANGED <<explored, vars, lagVars, udpVars>>
  \/ explored = "datagrams" /\ UdpNext   /\ UNCHANGED <<explored, vars, lagVars, probe>>
ProcessSpec == ProcessInit /\ [][ProcessNext]_<<explored, vars, lagVars, probe, udpVars>>

RecorderSymmetry == Permutations(Recorders)

(* Type correctness of the instruments, and the invariants the properties  *)
(* of the histogram and of the datagram window rest on.  Sealing and       *)
(* Starts, which speak of the forwarder alone, are left to the proof.      *)
InstrumentsTypeOK == LagInv /\ ProbeInv /\ UdpTypeOK /\ Windows /\ Remembered

(* The windows of the histogram hold every sample once, and the quantiles  *)
(* read from them are upper bounds.                                        *)
WindowsTrue == WindowsPartition /\ QuantileBounds
=============================================================================

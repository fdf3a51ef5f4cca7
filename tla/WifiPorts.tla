----------------------------- MODULE WifiPorts -----------------------------
(***************************************************************************)
(* UDP ports on the two processors.  The main one keeps a table of the     *)
(* ports that its sockets use (hal/xmega128a4u/esp8266.c) and sends it     *)
(* when it has changed, and every two seconds; the wifi processor          *)
(* (chromatron_wifi/src/wifi.cpp) opens and closes its own sockets after   *)
(* it, and queues datagrams both ways.  The link between them loses        *)
(* messages, and each of them is a call here.                              *)
(***************************************************************************)
EXTENDS Integers, Sequences, FiniteSets, SequencesExt

CONSTANTS
  Ports,     \* UDP ports
  Slots,     \* WIFI_MAX_PORTS
  RxSize,    \* RX_BUF_SIZE
  TxSize,    \* TX_BUF_SIZE
  PortDepth, \* MAX_PORT_DEPTH
  Width,     \* values of a uint8_t, 256 in the code
  Sends,     \* bound on the datagrams that are sent
  Reopens    \* is a port opened again while datagrams for it still wait?

PortsAssumption ==
  /\ 0 \notin Ports /\ Slots \in Nat \ {0} /\ RxSize \in Nat /\ TxSize \in Nat
  /\ PortDepth \in Nat /\ Width \in Nat /\ PortDepth < Width /\ Sends \in Nat /\ Reopens \in BOOLEAN

VARIABLES
  table, manage,   \* ports and run_manager of the main processor
  ports, request,  \* ports and request_ports of the wifi processor
  local,           \* the port of each of its sockets; 0 is closed
  depth,           \* port_rx_depth
  rxq, txq,        \* queues, the oldest first: ports, and numbered datagrams
  out,             \* auxiliary: the datagrams that went out to the network
  accepted         \* auxiliary: all that were queued; how many were sent so far

vars == <<table, manage, ports, request, local, depth, rxq, txq, out, accepted>>
wifiVars == <<ports, request, local, depth, rxq, txq, out, accepted>>

Slot == 1 .. Slots
First(S) == CHOOSE i \in S : \A j \in S : i <= j
At(t, p) == {i \in Slot : t[i] = p}
Queued(p) == Cardinality({i \in DOMAIN rxq : rxq[i] = p})

-----------------------------------------------------------------------------
(* open_close_port.                                                        *)

MayOpen(p) == Reopens \/ (Queued(p) = 0 /\ \A i \in Slot : ports[i] # p /\ local[i] # p)

Open(p) ==
  /\ MayOpen(p)
  /\ At(table, p) = {} /\ At(table, 0) # {}
  /\ table' = [table EXCEPT ![First(At(table, 0))] = p] /\ manage' = TRUE
  /\ UNCHANGED wifiVars

Close(p) ==
  /\ At(table, p) # {}
  /\ table' = [table EXCEPT ![First(At(table, p))] = 0] /\ manage' = TRUE
  /\ UNCHANGED wifiVars

(* wifi_connection_manager_thread: at once, or two seconds later; the      *)
(* message may be lost.                                                    *)
SendPorts ==
  /\ manage' = FALSE
  /\ \/ ports' = table /\ request' = TRUE
     \/ UNCHANGED <<ports, request>>
  /\ UNCHANGED <<table, local, depth, rxq, txq, out, accepted>>

(* wifi_v_send_udp: a datagram of a socket, which may not be in the table. *)
SendUdp(p) ==
  /\ Cardinality(accepted) < Sends /\ Len(txq) < TxSize
  /\ LET d == [port |-> p, number |-> Cardinality(accepted)]
     IN  txq' = Append(txq, d) /\ accepted' = accepted \cup {d}
  /\ UNCHANGED <<table, manage, ports, request, local, depth, rxq, out>>

-----------------------------------------------------------------------------
(* wifi_v_process.                                                         *)

Stale(i) == request /\ ports[i] # local[i]
Local == [i \in Slot |-> IF request THEN ports[i] ELSE local[i]]
Depth == [i \in Slot |-> IF Stale(i) THEN 0 ELSE depth[i]]

(* A datagram has come for socket i, or for none when i is 0.              *)
Receive(i) ==
  IF i = 0 \/ Len(rxq) >= RxSize \/ Depth[i] >= PortDepth
    THEN depth' = Depth /\ UNCHANGED rxq
    ELSE /\ depth' = [Depth EXCEPT ![i] = (@ + 1) % Width]
         /\ rxq' = Append(rxq, Local[i])

(* One datagram goes out, or goes to the end of the queue when its port is *)
(* not open yet.                                                           *)
Bug_NotYetOpen(d) == Tail(txq)
Requeued(d) == Append(Tail(txq), d)

Transmit ==
  IF txq = << >> THEN UNCHANGED <<txq, out>>
  ELSE LET d == Head(txq)
       IN  IF At(Local, d.port) # {}
           THEN txq' = Tail(txq) /\ out' = Append(out, d)
           ELSE txq' = Requeued(d) /\ UNCHANGED out

Process(i) ==
  /\ i # 0 => Local[i] # 0
  /\ local' = Local /\ request' = FALSE
  /\ Receive(i) /\ Transmit
  /\ UNCHANGED <<table, manage, ports, accepted>>

(* wifi_v_rx_udp_clear_last, when the main processor has been sent it all. *)
Forward ==
  /\ rxq # << >> /\ rxq' = Tail(rxq)
  /\ LET S == At(local, Head(rxq))
     IN  depth' = IF S = {} THEN depth ELSE [depth EXCEPT ![First(S)] = (@ - 1) % Width]
  /\ UNCHANGED <<table, manage, ports, request, local, txq, out, accepted>>

Init ==
  /\ table = [i \in Slot |-> 0] /\ manage = FALSE
  /\ ports = table /\ request = FALSE /\ local = table /\ depth = table
  /\ rxq = << >> /\ txq = << >> /\ out = << >> /\ accepted = {}

Next ==
  \/ \E p \in Ports : Open(p) \/ Close(p) \/ SendUdp(p)
  \/ SendPorts \/ Forward
  \/ \E i \in {0} \cup Slot : Process(i)

(* The table that is sent every two seconds gets through now and then.     *)
PortsArrive == SendPorts /\ ports' = table /\ request'
Spec ==
  /\ Init /\ [][Next]_vars
  /\ SF_vars(PortsArrive) /\ WF_vars(\E i \in {0} \cup Slot : Process(i))
-----------------------------------------------------------------------------
(* Properties.                                                             *)

(* A datagram is refused as one too many only when that many of its port   *)
(* wait: port_rx_depth counts them, while ports open and close.            *)
DepthTrue == \A i \in Slot : local[i] # 0 => depth[i] = Queued(local[i])

(* What was queued is still queued or went out, once: it survives being    *)
(* put back while its port is not open.                                    *)
NothingDropped ==
  /\ accepted = ToSet(txq) \cup ToSet(out)
  /\ Cardinality(accepted) = Len(txq) + Len(out)

(* Both queues are accounted for.                                          *)
QueuesAccounted == DepthTrue /\ NothingDropped

(* A datagram does not wait for ever, as long as its port is in the table. *)
TxLeaves ==
  \A n \in 0 .. Sends - 1, p \in Ports :
    []<>([port |-> p, number |-> n] \notin ToSet(txq)) \/ []<>(At(table, p) = {})
=============================================================================

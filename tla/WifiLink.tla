------------------------------ MODULE WifiLink ------------------------------
(***************************************************************************)
(* The two directions of the link between the processors side by side, and *)
(* what both promise to the sockets above them.                            *)
(***************************************************************************)
EXTENDS Integers, Sequences

CONSTANTS
  Datagrams, \* datagrams in each direction
  Chunks,    \* parts of a datagram
  MaxFaults  \* bound on the damaged or lost messages of each direction

VARIABLES
  arrived, left, sent, ready, wire, buf, pc, alarm, netmsg, delivered, faults,
  up, mainReady, next, part, busy, serial, comm, udp, outgoing, mainFaults, deaf

R == INSTANCE WifiReceive

S == INSTANCE WifiSend WITH
  phase <- up, ready <- mainReady, wire <- serial, state <- comm, sent <- outgoing,
  faults <- mainFaults

(* WifiReceive and WifiSend: what comes out of the link are whole          *)
(* datagrams, in the order in which they were sent, each once.             *)
DatagramsWhole == R!DeliveredWhole /\ S!SentWhole
=============================================================================

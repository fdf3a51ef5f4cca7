------------------------------- MODULE MCWifi -------------------------------
(***************************************************************************)
(* The link between the two processors, one direction at a time, the UDP   *)
(* ports above it, and what a show is made of (MCShow), side by side: the  *)
(* initial state chooses which of them runs, and the others rest.          *)
(***************************************************************************)
EXTENDS WifiLink, WifiPorts, MCShow

receiveVars == <<arrived, left, sent, ready, wire, buf, pc, alarm, netmsg, delivered, faults>>
sendVars    == <<up, mainReady, next, part, busy, serial, comm, udp, outgoing, mainFaults, deaf>>
all_vars    == <<subject, vars, receiveVars, sendVars, graphicsVars, driverVars, loaderVars, programVars>>

ASSUME PortsAssumption /\ R!ReceiveAssumption /\ S!SendAssumption

-----------------------------------------------------------------------------

Only(x) ==
  /\ UNCHANGED subject /\ Alone(x)
  /\ IF x = "ports"   THEN TRUE ELSE UNCHANGED vars
  /\ IF x = "receive" THEN TRUE ELSE UNCHANGED receiveVars
  /\ IF x = "send"    THEN TRUE ELSE UNCHANGED sendVars

MCInit ==
  /\ subject \in {"ports", "receive", "send"} \cup Show
  /\ Init /\ R!Init /\ S!Init /\ ShowInit

MCNext ==
  \/ subject = "ports"   /\ Next /\ Only("ports")
  \/ subject = "receive" /\ R!Next /\ Only("receive")
  \/ subject = "send"    /\ S!Next /\ Only("send")
  \/ subject \in Show    /\ ShowNext /\ Only(subject)

(* The fairness of the specifications, by kind.                            *)
Fair1 ==
  \/ subject = "ports"   /\ (\E n \in {0} \cup Slot : Process(n)) /\ Only("ports")
  \/ subject = "receive" /\ R!SendNext /\ Only("receive")
  \/ subject = "send"    /\ S!Check /\ Only("send")
  \/ subject \in Show    /\ Turns /\ Only(subject)
Fair2 ==
  \/ subject = "receive" /\ R!SendQuery /\ Only("receive")
  \/ subject = "send"    /\ S!Wifi /\ Only("send")
  \/ subject \in Show    /\ Interrupts /\ Only(subject)
Fair3 ==
  \/ subject = "receive" /\ R!Bytes /\ Only("receive")
  \/ subject \in Show    /\ Handlers /\ Only(subject)
Fair4 == subject = "receive" /\ R!Thread /\ Only("receive")
Resent ==
  \/ subject = "ports"   /\ PortsArrive /\ Only("ports")
  \/ subject = "loader"  /\ ReportInTime /\ Only("loader")
Arrive == subject = "loader" /\ ArrivesInTime /\ Only("loader")
Pass   == subject = "loader" /\ Passes /\ Only("loader")

MCSpec ==
  /\ MCInit /\ [][MCNext]_all_vars
  /\ WF_all_vars(Fair1) /\ WF_all_vars(Fair2) /\ WF_all_vars(Fair3) /\ WF_all_vars(Fair4)
  /\ SF_all_vars(Resent) /\ SF_all_vars(Arrive) /\ SF_all_vars(Pass)
-----------------------------------------------------------------------------
(* The properties of each, where it runs.                                  *)

(* Neither processor waits for ever for the other: from the wifi processor *)
(* all datagrams leave, the main one is ready to send again and again, and *)
(* no datagram stays queued for a port that is in the table.               *)
LinkLives ==
  /\ []<>(subject # "receive" \/ R!Drained)
  /\ []<>(subject # "send" \/ S!Able) \/ []<>deaf
  /\ TxLeaves
=============================================================================

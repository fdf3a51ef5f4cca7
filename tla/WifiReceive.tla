---------------------------- MODULE WifiReceive ----------------------------
(***************************************************************************)
(* Datagrams from the wifi processor to the main one: the interface of the *)
(* ESP8266 (chromatron_wifi/src/comm_intf.cpp) sends a header and then the *)
(* data in messages, each only when the main processor has said that it is *)
(* ready; there a DMA channel fills a buffer, which wifi_comm_thread       *)
(* (hal/xmega128a4u/esp8266.c) empties and declares ready again.           *)
(*                                                                         *)
(* Bytes are seen as far as the receiver can tell: the control byte of a   *)
(* message and the rest of it.  Of the buffer only what it begins with     *)
(* matters.                                                                *)
(***************************************************************************)
EXTENDS Integers, Sequences

CONSTANTS
  Datagrams, \* how many arrive
  Chunks,    \* data messages of one
  MaxFaults  \* bound on what goes wrong on the wire

ReceiveAssumption == Datagrams \in Nat /\ Chunks \in Nat \ {0} /\ MaxFaults \in Nat

VARIABLES
  arrived,   \* datagrams that came to the wifi processor
  left, sent,\* of those, how many left rx_q; messages of the next that were sent
  ready,     \* wifi_rx_ready of the wifi processor
  wire,      \* bytes on the way
  buf,       \* rx_buf: what it begins with
  pc, alarm, \* where wifi_comm_thread is; has its alarm gone off?
  netmsg,    \* rx_netmsg: the datagram its header is of, and its data
  delivered,
  faults

vars == <<arrived, left, sent, ready, wire, buf, pc, alarm, netmsg, delivered, faults>>
mainVars == <<pc, alarm, netmsg, delivered>>

Message(d, i) == [is |-> "message", of |-> d, part |-> i]
Rest(m) == [m EXCEPT !.is = "rest"]
Sign(s) == [is |-> s, of |-> 0, part |-> 0]
Idle  == Sign("idle")
Begun == Sign("begun")  \* a control byte that says data, and not yet all of it
Bad   == Sign("bad")    \* all of it, with a wrong CRC
Junk  == Sign("junk")
Query == Sign("query")
None  == [of |-> 0, data |-> << >>]

-----------------------------------------------------------------------------
(* The wifi processor.                                                     *)

DatagramArrives ==
  /\ arrived < Datagrams /\ arrived' = arrived + 1
  /\ UNCHANGED <<left, sent, ready, wire, buf, mainVars, faults>>

(* Part 0 is the header.  Whatever becomes of a message, the next follows. *)
SendNext ==
  /\ ready /\ left < arrived
  /\ ready' = FALSE
  /\ wire' = Append(wire, Message(left + 1, sent))
  /\ IF sent = Chunks THEN left' = left + 1 /\ sent' = 0
                      ELSE sent' = sent + 1 /\ UNCHANGED left
  /\ UNCHANGED <<arrived, buf, mainVars, faults>>

(* After 50 ms without ready, which may be at once: the clock starts when  *)
(* ready comes, not when it is used up.  The next is 50 ms later.          *)
SendQuery ==
  /\ ~ready /\ \A i \in DOMAIN wire : wire[i] # Query
  /\ wire' = Append(wire, Query)
  /\ UNCHANGED <<arrived, left, sent, ready, buf, mainVars, faults>>

-----------------------------------------------------------------------------
(* The wire and the DMA channel.  A byte in the middle of a message may    *)
(* look like a control byte.                                               *)

NextBuf(x) ==
  CASE buf = Idle /\ x.is = "message" -> {Begun}
    [] buf = Idle /\ x.is = "rest"    -> {Junk, Begun, Query}
    [] buf = Idle /\ x = Query        -> {Query}
    [] buf = Begun /\ x.is = "rest"   -> {[x EXCEPT !.is = "message"]}
    [] buf = Begun /\ x.is # "rest"   -> {Begun, Bad}
    [] OTHER -> {buf}

After(x) == IF x.is = "message" THEN <<Rest(x)>> \o Tail(wire) ELSE Tail(wire)

Bytes ==
  /\ wire # << >>
  /\ buf' \in NextBuf(Head(wire)) /\ wire' = After(Head(wire))
  /\ UNCHANGED <<arrived, left, sent, ready, mainVars, faults>>

(* Bytes are lost, or changed so that the CRC does not match.              *)
Fault ==
  /\ wire # << >> /\ faults < MaxFaults /\ faults' = faults + 1
  /\ wire' = After(Head(wire))
  /\ buf' \in {buf} \cup (IF Head(wire).is = "rest" /\ buf = Begun THEN {Bad} ELSE {})
  /\ UNCHANGED <<arrived, left, sent, ready, mainVars>>

-----------------------------------------------------------------------------
(* wifi_v_set_rx_ready: bytes that come while the DMA channel is off are   *)
(* flushed.                                                                *)

SetReady ==
  /\ buf' = Idle /\ ready' = TRUE
  /\ wire' \in {wire} \cup (IF wire = << >> THEN {} ELSE {After(Head(wire))})

(* process_rx_data: what it does with message m, and its answer.  The      *)
(* header of a datagram whose port is busy changes nothing.                *)

Refuses(ok, nm) == ok = FALSE /\ netmsg' = nm /\ UNCHANGED delivered

Bug_NoCrc(data, d) == TRUE
CrcOK(data, d) == data = [i \in 1 .. Chunks |-> <<d, i>>]

Header(m, ok) ==
  \/ Refuses(ok, netmsg) \/ Refuses(ok, None)
  \/ ok = TRUE /\ netmsg' = [of |-> m.of, data |-> << >>] /\ UNCHANGED delivered

Data(m, ok) ==
  LET data == Append(netmsg.data, <<m.of, m.part>>)
  IN  IF netmsg = None THEN Refuses(ok, None)
      ELSE IF Len(data) < Chunks THEN ok = TRUE /\ netmsg' = [netmsg EXCEPT !.data = data] /\ UNCHANGED delivered
      ELSE IF ~CrcOK(data, netmsg.of) THEN Refuses(ok, None)
      ELSE ok = TRUE /\ netmsg' = None /\ delivered' = Append(delivered, data)

Handle(m, ok) ==
  \/ m = Bad /\ Refuses(ok, netmsg)
  \/ m # Bad /\ m.part = 0 /\ Header(m, ok)
  \/ m # Bad /\ m.part > 0 /\ Data(m, ok)

-----------------------------------------------------------------------------
(* wifi_comm_thread.                                                       *)

WaitControl ==
  /\ pc = "wait" /\ buf # Idle
  /\ IF buf \in {Query, Junk}
     THEN SetReady /\ UNCHANGED pc
     ELSE pc' = "data" /\ UNCHANGED <<buf, ready, wire>>
  /\ alarm' = FALSE
  /\ UNCHANGED <<arrived, left, sent, netmsg, delivered, faults>>

(* 20 ms.                                                                  *)
Alarm ==
  /\ pc = "data" /\ ~alarm /\ alarm' = TRUE
  /\ UNCHANGED <<arrived, left, sent, ready, wire, buf, pc, netmsg, delivered, faults>>

Complete == buf = Bad \/ buf.is = "message"

(* It goes on waiting after a message that it refused; when the alarm goes *)
(* off as well, it says that it is ready once more.                        *)
Process ==
  /\ pc = "data" /\ Complete
  /\ SetReady
  /\ \E ok \in BOOLEAN :
       /\ Handle(buf, ok)
       /\ pc' = IF alarm THEN "again" ELSE IF ok THEN "wait" ELSE "data"
  /\ UNCHANGED <<arrived, left, sent, alarm, faults>>

Bug_GivesUp == pc = "data" /\ ~Complete /\ alarm /\ UNCHANGED <<buf, ready, wire>>
TimedOut == pc = "data" /\ ~Complete /\ alarm /\ SetReady

RxTimeout ==
  /\ \/ TimedOut
     \/ pc = "again" /\ SetReady
  /\ pc' = "wait" /\ alarm' = FALSE
  /\ UNCHANGED <<arrived, left, sent, netmsg, delivered, faults>>

(* Both have started, and the main processor is ready.                     *)
Init ==
  /\ arrived = 0 /\ left = 0 /\ sent = 0 /\ ready = TRUE
  /\ wire = << >> /\ buf = Idle /\ pc = "wait" /\ alarm = FALSE
  /\ netmsg = None /\ delivered = << >> /\ faults = 0

Thread == WaitControl \/ Alarm \/ Process \/ RxTimeout
Next == DatagramArrives \/ SendNext \/ SendQuery \/ Bytes \/ Fault \/ Thread

Spec == Init /\ [][Next]_vars /\ WF_vars(SendNext) /\ WF_vars(SendQuery) /\ WF_vars(Bytes) /\ WF_vars(Thread)
-----------------------------------------------------------------------------
(* Properties.                                                             *)

(* What is delivered are whole datagrams, in the order in which they came, *)
(* each once: over messages that are lost, cut short, or discarded because *)
(* a query or an alarm came late, and over buffers left by the one before. *)
Number(i) == delivered[i][1][1]
DeliveredWhole ==
  /\ \A i \in DOMAIN delivered : delivered[i] = [c \in 1 .. Chunks |-> <<Number(i), c>>]
  /\ \A i, j \in DOMAIN delivered : i < j => Number(i) < Number(j)

(* Every datagram leaves the queue, whatever is lost: the two processors   *)
(* do not end up waiting for each other.                                   *)
Drained == left = arrived
QueueDrains == []<>Drained
=============================================================================

------------------------------ MODULE WifiSend ------------------------------
(***************************************************************************)
(* Datagrams from the main processor to the wifi processor: wifi_i8_send_  *)
(* udp (hal/xmega128a4u/esp8266.c) waits for each of its messages until    *)
(* the wifi processor has said that it is ready, 20 ms at most; there      *)
(* intf_v_process (chromatron_wifi/src/comm_intf.cpp) reads the serial     *)
(* port, a control byte and then the rest of a message.  The link begins   *)
(* with a byte that asks for the first ready.                              *)
(***************************************************************************)
EXTENDS Integers, Sequences

CONSTANTS
  Datagrams, \* how many are sent
  Chunks,    \* data messages of one
  MaxFaults  \* bound on what goes wrong on the wire

SendAssumption == Datagrams \in Nat /\ Chunks \in Nat \ {0} /\ MaxFaults \in Nat

VARIABLES
  phase,      \* wifi_comm_thread: "check" 100 ms after the reset byte, or "up"
  ready,      \* wifi_rx_ready of the main processor
  next, part, \* the datagram that is sent, and its next message; 0 is the header
  busy,       \* is a call of wifi_i8_send_udp going on?
  wire,       \* bytes on the way and in the FIFO
  state,      \* intf_comm_state: "idle" or, for both others, "rx"
  udp,        \* udp_header and udp_data
  sent,       \* what is queued for the network
  faults,
  deaf        \* auxiliary: was a control byte lost?

vars == <<phase, ready, next, part, busy, wire, state, udp, sent, faults, deaf>>
mainVars == <<phase, next, part, busy>>

Message(d, i) == [is |-> "message", of |-> d, part |-> i]
Rest(m) == [m EXCEPT !.is = "rest"]
Reset == [is |-> "reset", of |-> 0, part |-> 0]
Nobody == [of |-> 0, data |-> << >>]

-----------------------------------------------------------------------------
(* The main processor.  wifi_comm_thread resets the wifi processor until   *)
(* it answers.                                                             *)

Check ==
  /\ phase = "check"
  /\ IF ready THEN phase' = "up" /\ UNCHANGED <<wire, state, udp>>
     ELSE wire' = <<Reset>> /\ state' = "idle" /\ udp' = Nobody /\ UNCHANGED phase
  /\ UNCHANGED <<ready, next, part, busy, sent, faults, deaf>>

SendUdp ==
  /\ phase = "up" /\ ~busy /\ next < Datagrams
  /\ next' = next + 1 /\ part' = 0 /\ busy' = TRUE
  /\ UNCHANGED <<phase, ready, wire, state, udp, sent, faults, deaf>>

(* wifi_i8_send_msg.                                                       *)
SendPart ==
  /\ busy /\ ready
  /\ ready' = FALSE
  /\ wire' = Append(wire, Message(next, part))
  /\ part' = part + 1 /\ busy' = (part < Chunks)
  /\ UNCHANGED <<phase, next, state, udp, sent, faults, deaf>>

(* 20 ms: the rest of the datagram is not sent.                            *)
SendError ==
  /\ busy /\ ~ready /\ busy' = FALSE
  /\ UNCHANGED <<phase, next, part, ready, wire, state, udp, sent, faults, deaf>>

-----------------------------------------------------------------------------
(* set_rx_ready: what has come so far is flushed; then the interrupt.      *)

Strobe == ready' = TRUE

(* Bytes that have come, and bytes that have not.                          *)
Flush(w) ==
  {SubSeq(w, i, Len(w)) : i \in 1 .. Len(w) + 1}
    \cup {<<Rest(w[i])>> \o SubSeq(w, i + 1, Len(w)) : i \in {j \in DOMAIN w : w[j].is = "message"}}

SetReady(w) == wire' \in Flush(w) /\ Strobe

(* intf_v_process in COMM_STATE_IDLE.  A byte in the middle of a message   *)
(* may look like a control byte.                                           *)
ReadControl ==
  /\ state = "idle" /\ wire # << >>
  /\ LET x == Head(wire)
     IN  \/ x.is = "message" /\ wire' = <<Rest(x)>> \o Tail(wire) /\ state' = "rx" /\ UNCHANGED ready
         \/ x.is # "message" /\ SetReady(Tail(wire)) /\ UNCHANGED state
         \/ x.is = "rest" /\ wire' = Tail(wire) /\ state' \in {"idle", "rx"} /\ UNCHANGED ready
  /\ UNCHANGED <<mainVars, udp, sent, faults, deaf>>

(* More than 20 ms since the control byte.                                 *)
CommTimeout ==
  /\ state = "rx" /\ state' = "idle"
  /\ SetReady(wire)
  /\ UNCHANGED <<mainVars, udp, sent, faults, deaf>>

(* process_data.                                                           *)

Bug_NoCrc(data, d) == TRUE
CrcOK(data, d) == data = [i \in 1 .. Chunks |-> <<d, i>>]

Header(m) == udp' = [of |-> m.of, data |-> << >>] /\ UNCHANGED sent

Data(m) ==
  LET data == Append(udp.data, <<m.of, m.part>>)
  IN  \/ Len(data) > Chunks /\ UNCHANGED <<udp, sent>>    \* does not fit
      \/ /\ udp' = [udp EXCEPT !.data = data]
         /\ sent' = IF Len(data) = Chunks /\ CrcOK(data, udp.of) THEN Append(sent, data) ELSE sent

(* The rest of a message is there, or what is taken for it.                *)
ReadMessage ==
  /\ state = "rx" /\ wire # << >> /\ state' = "idle"
  /\ SetReady(Tail(wire))
  /\ LET x == Head(wire)
     IN  IF x.is # "rest" THEN UNCHANGED <<udp, sent>>
         ELSE \/ x.part = 0 /\ Header(x)
              \/ x.part > 0 /\ Data(x)
              \/ UNCHANGED <<udp, sent>>    \* the CRC does not match
  /\ UNCHANGED <<mainVars, faults, deaf>>

-----------------------------------------------------------------------------
(* Bytes are lost: a control byte, or what follows one.                    *)
Fault ==
  /\ wire # << >> /\ faults < MaxFaults /\ faults' = faults + 1
  /\ LET x == Head(wire)
     IN  IF x.is = "message" THEN wire' = <<Rest(x)>> \o Tail(wire) /\ deaf' = TRUE
                             ELSE wire' = Tail(wire) /\ UNCHANGED deaf
  /\ UNCHANGED <<mainVars, ready, state, udp, sent>>

Init ==
  /\ phase = "check" /\ ready = FALSE /\ next = 0 /\ part = 0 /\ busy = FALSE
  /\ wire = <<Reset>> /\ state = "idle" /\ udp = Nobody /\ sent = << >>
  /\ faults = 0 /\ deaf = FALSE

Main == Check \/ SendUdp \/ SendPart \/ SendError
Wifi == ReadControl \/ CommTimeout \/ ReadMessage
Next == Main \/ Wifi \/ Fault

Spec == Init /\ [][Next]_vars /\ WF_vars(Check) /\ WF_vars(Wifi)
-----------------------------------------------------------------------------
(* Properties.                                                             *)

(* Only whole datagrams go out, in order and once, although a call may     *)
(* give up in the middle and the next one begins over what it left.        *)
Number(i) == sent[i][1][1]
SentWhole ==
  /\ \A i \in DOMAIN sent : sent[i] = [c \in 1 .. Chunks |-> <<Number(i), c>>]
  /\ \A i, j \in DOMAIN sent : i < j => Number(i) < Number(j)

(* The link comes up, and the main processor may send again and again,     *)
(* unless a control byte was lost: nobody asks again in this direction.    *)
Able == phase = "up" /\ ready
ReadyAgain == []<>Able \/ <>deaf
=============================================================================

---------------------------- MODULE FileTransfer ----------------------------
(***************************************************************************)
(* A transfer of one file between the Python client                        *)
(* (python/catbus/catbus/client.py) and the file session of the node       *)
(* (sapphireos/catbus.c): pages in a sliding window, acknowledged by       *)
(* offset, over a network that loses, delays, reorders and duplicates.     *)
(* The content of a file is the sequence 1, 2, ... of its units, so that   *)
(* an element that is out of place shows.                                  *)
(***************************************************************************)
EXTENDS Integers, Sequences, FiniteSets

CONSTANTS
  Page,          \* CATBUS_MAX_DATA, in units
  Length,        \* of the file that is transferred
  ReadWindow, WriteWindow

TransferAssumption ==
  /\ Page \in Nat \ {0} /\ Length \in Nat \ {0}
  /\ ReadWindow \in Nat \ {0} /\ WriteWindow \in Nat \ {0}

VARIABLES
  mode,             \* "read" or "write"
  client,           \* the client's variables, and how it ended
  received,         \* what the client has read
  stored,           \* the file on the node
  serving,          \* does the node have the session?
  toNode, toClient, \* messages on the way
  lost,             \* auxiliary: has a message been lost?
  short             \* auxiliary: has the node stored less than it was sent?

transferVars == <<mode, client, received, stored, serving, toNode, toClient, lost, short>>

Content == [u \in 1 .. Length |-> u]
Least(a, b) == IF a < b THEN a ELSE b

Get(o)     == [kind |-> "get", offset |-> o, len |-> 0]
DataOf(o, n) == [kind |-> "data", offset |-> o, len |-> n]
Error      == [kind |-> "error", offset |-> 0, len |-> 0]

Window == IF mode = "read" THEN ReadWindow ELSE WriteWindow

-----------------------------------------------------------------------------
(* The client sends while its window and, when it writes, the file last;   *)
(* then it receives.                                                       *)

Going == client.state = "going"

Offsets(c) == {o \in {c.next + i * Page : i \in 0 .. c.cur - 1} : mode = "read" \/ o < Length}
Messages(c) == {IF mode = "read" THEN Get(o) ELSE DataOf(o, Least(Page, Length - o)) : o \in Offsets(c)}

Sent(c) ==
  [c EXCEPT !.cur = @ - Cardinality(Offsets(c)),
            !.next = IF Offsets(c) = {} THEN @
                     ELSE IF mode = "read" THEN @ + c.cur * Page
                     ELSE Least(Length, @ + c.cur * Page)]

Sending(c) == toNode' = toNode \cup Messages(c) /\ client' = Sent(c)

(* No message for half a second: back to what was acknowledged.            *)
Bug_KeepsOffset == [client EXCEPT !.cur = 1, !.max = 1]
BackOff == [client EXCEPT !.next = client.ack, !.cur = 1, !.max = 1]

TimeOut ==
  /\ Going
  /\ Sending(BackOff)
  /\ UNCHANGED <<mode, received, stored, serving, toClient, lost, short>>

Advanced(ack, over) ==
  LET max == Least(client.max + 1, Window)
  IN  [client EXCEPT !.ack = ack,
                     !.state = IF over THEN "done" ELSE "going",
                     !.max = IF over THEN @ ELSE max,
                     !.cur = IF over THEN 0 ELSE IF @ < max THEN @ + 1 ELSE @]

IsNext(m) == m.offset = client.ack

TakeData(m) ==
  /\ m.kind = "data"
  /\ IF IsNext(m)
     THEN /\ received' = received \o SubSeq(Content, m.offset + 1, m.offset + m.len)
          /\ Sending(Advanced(client.ack + m.len, m.len = 0))
     ELSE UNCHANGED <<received, client, toNode>>

AllSent(m) == m.offset >= Length

TakeAck(m) ==
  /\ m.kind = "get"
  /\ IF m.offset >= client.ack THEN Sending(Advanced(m.offset, AllSent(m)))
                               ELSE UNCHANGED <<client, toNode>>
  /\ UNCHANGED received

TakeError(m) ==
  /\ m.kind = "error"
  /\ client' = [client EXCEPT !.state = "failed"]
  /\ UNCHANGED <<received, toNode>>

ClientTakes(m) ==
  /\ Going /\ m \in toClient
  /\ toClient' \in {toClient, toClient \ {m}}
  /\ TakeData(m) \/ TakeAck(m) \/ TakeError(m)
  /\ UNCHANGED <<mode, stored, serving, lost, short>>

-----------------------------------------------------------------------------
(* The node.  Every message renews the session.                            *)

Respond(m) == toClient' = toClient \cup {m}

(* FILE_GET.                                                               *)
GivePage(m) ==
  /\ m.kind = "get"
  /\ Respond(DataOf(m.offset, IF m.offset >= Len(stored) THEN 0
                           ELSE Least(Page, Len(stored) - m.offset)))
  /\ UNCHANGED <<stored, serving, short>>

(* FILE_DATA, which is acknowledged and then written, as far as there is   *)
(* room, or not at all when power is lost in between.                      *)
Bug_AnyOffset(m) == m.offset <= Len(stored)
InPlace(m) == m.offset = Len(stored)

TakePage(m) ==
  /\ m.kind = "data"
  /\ IF InPlace(m)
     THEN /\ Respond(Get(m.offset + m.len))
          /\ \/ \E n \in 0 .. m.len :
                  /\ stored' = stored \o SubSeq(Content, m.offset + 1, m.offset + n)
                  /\ short' = (short \/ n < m.len) /\ UNCHANGED serving
             \/ serving' = FALSE /\ short' = TRUE /\ UNCHANGED stored
     ELSE UNCHANGED <<toClient, stored, serving, short>>

NodeTakes(m) ==
  /\ m \in toNode
  /\ toNode' \in {toNode, toNode \ {m}}
  /\ IF serving THEN GivePage(m) \/ TakePage(m)
     ELSE Respond(Error) /\ UNCHANGED <<stored, serving, short>>
  /\ UNCHANGED <<mode, client, received, lost>>

(* The session ends without the client: its time-out, or a restart.        *)
SessionEnds ==
  /\ serving /\ serving' = FALSE
  /\ UNCHANGED <<mode, client, received, stored, toNode, toClient, lost, short>>

(* The network.                                                            *)
Lose ==
  /\ \/ \E m \in toNode : toNode' = toNode \ {m} /\ UNCHANGED toClient
     \/ \E m \in toClient : toClient' = toClient \ {m} /\ UNCHANGED toNode
  /\ lost' = TRUE
  /\ UNCHANGED <<mode, client, received, stored, serving, short>>

TransferInit ==
  /\ mode \in {"read", "write"}
  /\ LET c == [state |-> "going", next |-> 0, ack |-> IF mode = "read" THEN 0 ELSE 1,
               max |-> Window, cur |-> Window]
     IN  toNode = Messages(c) /\ client = Sent(c)
  /\ received = << >> /\ stored = IF mode = "read" THEN Content ELSE << >>
  /\ serving = TRUE /\ toClient = {} /\ lost = FALSE /\ short = FALSE

TransferNext ==
  \/ TimeOut \/ SessionEnds \/ Lose
  \/ \E m \in toNode : NodeTakes(m)
  \/ \E m \in toClient : ClientTakes(m)

(* A message that the other side waits for, and that is sent again and     *)
(* again, arrives.                                                         *)
NodeHears ==
  \E m \in toNode : (~serving \/ m.offset = IF mode = "read" THEN client.ack ELSE Len(stored)) /\ NodeTakes(m)
ClientHears ==
  \E m \in toClient : (m.kind = "error" \/ IF mode = "read" THEN IsNext(m) ELSE m.offset > client.ack)
                      /\ ClientTakes(m)

TransferFairness == WF_transferVars(TimeOut) /\ SF_transferVars(NodeHears) /\ SF_transferVars(ClientHears)

TransferSpec == TransferInit /\ [][TransferNext]_transferVars /\ TransferFairness
-----------------------------------------------------------------------------
(* Properties.                                                             *)

(* Nothing is stored or read out of place, whatever arrives late or twice, *)
(* and a transfer that the client calls done is whole, unless the node had *)
(* no room or lost its power after it had acknowledged.                    *)
WholeTransfer ==
  /\ stored = SubSeq(Content, 1, Len(stored))
  /\ received = SubSeq(Content, 1, Len(received))
  /\ client.state = "done" => IF mode = "read" THEN received = stored ELSE stored = Content \/ short

(* A read always ends.  A write ends unless a message is lost or there is  *)
(* no room: the node does not acknowledge a page again, and the client     *)
(* does not send the first page again.                                     *)
Ended == ~Going \/ (mode = "write" /\ (lost \/ short))
=============================================================================

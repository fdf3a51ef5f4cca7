----------------------------- MODULE NodeProofs -----------------------------
(***************************************************************************)
(* TLAPS proofs about what goes on between the two processors of a node,   *)
(* as in MCWifi: the link (WifiLink), the UDP ports above it (WifiPorts),  *)
(* the program that comes over it (VmLoader) and the pixels (PixelDriver). *)
(*                                                                         *)
(* The link. Datagrams come out whole because of what is on the wire: the  *)
(* messages on it are in the order of (datagram, part), all of them come   *)
(* before the part that is to be sent next, and all belong to datagrams    *)
(* newer than any that came out. Faults, flushes and full buffers only     *)
(* take bytes from the front of the wire, which disturbs none of this      *)
(* (Leaves). A message whose check sum is right thus either continues the  *)
(* datagram that is being put together or starts a later one.              *)
(*                                                                         *)
(* The ports. port_rx_depth counts the waiting datagrams of a port only    *)
(* while a port has one place, the same one in the table of the main       *)
(* processor, its copy and the open sockets (OnePlace), and nothing waits  *)
(* for a port that is still to be opened (Unopened).                       *)
(*                                                                         *)
(* The show. A frame is sent in segments: what is gone, what the           *)
(* transmitter holds and what the buffers hold are neighbouring segments   *)
(* of the frame (Underway), so what is sent is a beginning of it. The      *)
(* pages of a program come in order, and only a program that was sent      *)
(* without loss is known to be the one that was loaded last.               *)
(***************************************************************************)
EXTENDS WifiLink, WifiPorts, PixelDriver, VmLoader, SequenceTheorems, FiniteSetTheorems,
        WellFoundedInduction, TLAPS

-----------------------------------------------------------------------------
(* What is on a wire, in either direction, as far as datagrams go.         *)

Item == [is : {"message", "rest", "query", "reset"}, of : Nat, part : 0 .. Chunks]
Carries(x) == x.is \in {"message", "rest"}
Precedes(x, d, i) == x.of < d \/ (x.of = d /\ x.part < i)

Ordered(w) == \A i, j \in DOMAIN w :
                i < j /\ Carries(w[i]) /\ Carries(w[j]) => Precedes(w[i], w[j].of, w[j].part)
AllBefore(w, d, n) == \A i \in DOMAIN w : Carries(w[i]) => Precedes(w[i], d, n)
AllAfter(w, x) == \A i \in DOMAIN w : Carries(w[i]) => Precedes(x, w[i].of, w[i].part)
AllNewer(w, d) == \A i \in DOMAIN w : Carries(w[i]) => d < w[i].of

(* v is what is left of w when some of its first bytes are taken.          *)
Same(x, y) == x.of = y.of /\ x.part = y.part /\ (Carries(x) => Carries(y))
Leaves(w, v) == \E k \in Nat : \A i \in DOMAIN v : i + k \in DOMAIN w /\ Same(v[i], w[i + k])

Pairs == Seq(Nat \X Nat)
Buffers == [is : {"message", "idle", "begun", "bad", "junk", "query"}, of : Nat, part : 0 .. Chunks]
WholeOf(d) == [i \in 1 .. Chunks |-> <<d, i>>]

-----------------------------------------------------------------------------
ReceiveInv ==
  /\ left \in Nat /\ sent \in 0 .. Chunks
  /\ wire \in Seq(Item)
  /\ buf \in Buffers
  /\ netmsg \in [of : Nat, data : Pairs]
  /\ delivered \in Seq(Pairs)
  /\ Ordered(wire) /\ AllBefore(wire, left + 1, sent)
  /\ buf.is = "message" => Precedes(buf, left + 1, sent) /\ AllAfter(wire, buf)
  /\ \A i \in DOMAIN delivered :
       /\ R!Number(i) \in 0 .. left /\ AllNewer(wire, R!Number(i))
       /\ buf.is = "message" => R!Number(i) < buf.of
  /\ R!DeliveredWhole

SendInv ==
  /\ next \in Nat /\ part \in 0 .. Chunks + 1 /\ busy \in BOOLEAN
  /\ serial \in Seq(Item)
  /\ udp \in [of : Nat, data : Pairs]
  /\ outgoing \in Seq(Pairs)
  /\ busy => part <= Chunks
  /\ Ordered(serial) /\ AllBefore(serial, next, part)
  /\ \A i \in DOMAIN outgoing :
       /\ S!Number(i) \in Nat
       /\ S!Number(i) < next \/ (S!Number(i) = next /\ part = Chunks + 1)
       /\ AllNewer(serial, S!Number(i))
  /\ S!SentWhole

Assumptions == R!ReceiveAssumption /\ S!SendAssumption

-----------------------------------------------------------------------------
(* Taking bytes from the front of a wire.                                  *)

LEMMA LeavesKeeps ==
  ASSUME NEW w \in Seq(Item), NEW v \in Seq(Item), Leaves(w, v)
  PROVE  /\ Ordered(w) => Ordered(v)
         /\ \A d, n : AllBefore(w, d, n) => AllBefore(v, d, n)
         /\ \A x : AllAfter(w, x) => AllAfter(v, x)
         /\ \A d : AllNewer(w, d) => AllNewer(v, d)
<1>1. PICK k \in Nat : \A i \in DOMAIN v : i + k \in DOMAIN w /\ Same(v[i], w[i + k])
  BY DEF Leaves
<1>2. /\ DOMAIN v \subseteq Int /\ DOMAIN w \subseteq Int
      /\ \A i \in DOMAIN v : v[i].of = w[i + k].of /\ v[i].part = w[i + k].part /\ (Carries(v[i]) => Carries(w[i + k]))
  BY <1>1 DEF Same
<1>3. Ordered(w) => Ordered(v)
  <2> SUFFICES ASSUME Ordered(w), NEW i \in DOMAIN v, NEW j \in DOMAIN v, i < j, Carries(v[i]), Carries(v[j])
               PROVE  Precedes(v[i], v[j].of, v[j].part)
    BY DEF Ordered
  <2>1. i + k < j + k /\ i + k \in DOMAIN w /\ j + k \in DOMAIN w
    BY <1>1, <1>2
  <2>2. Precedes(w[i + k], w[j + k].of, w[j + k].part)
    BY <2>1, <1>2 DEF Ordered
  <2> QED
    BY <2>2, <1>2 DEF Precedes
<1>4. ASSUME NEW d, NEW n, AllBefore(w, d, n) PROVE AllBefore(v, d, n)
  BY <1>1, <1>2, <1>4 DEF AllBefore, Precedes
<1>5. ASSUME NEW x, AllAfter(w, x) PROVE AllAfter(v, x)
  BY <1>1, <1>2, <1>5 DEF AllAfter, Precedes
<1>6. ASSUME NEW d, AllNewer(w, d) PROVE AllNewer(v, d)
  BY <1>1, <1>2, <1>6 DEF AllNewer
<1> QED
  BY <1>3, <1>4, <1>5, <1>6

LEMMA LeavesTail ==
  ASSUME NEW w \in Seq(Item), w # << >>
  PROVE  Tail(w) \in Seq(Item) /\ Leaves(w, Tail(w)) /\ Head(w) \in Item /\ Head(w) = w[1]
<1>1. \A i \in DOMAIN Tail(w) : i + 1 \in DOMAIN w /\ Same(Tail(w)[i], w[i + 1])
  BY DEF Same
<1>2. Tail(w) \in Seq(Item) /\ Head(w) \in Item /\ Head(w) = w[1]
  OBVIOUS
<1>3. Leaves(w, Tail(w))
  BY <1>1, 1 \in Nat DEF Leaves
<1> QED
  BY <1>2, <1>3

Gives(x) == [x EXCEPT !.is = "rest"]

LEMMA GivesIs ==
  ASSUME NEW m \in Item, m.is = "message"
  PROVE  Gives(m) \in Item /\ Gives(m).is = "rest" /\ Same(Gives(m), m)
BY DEF Gives, Item, Same, Carries

LEMMA LeavesRest ==
  ASSUME NEW w \in Seq(Item), NEW j \in DOMAIN w, w[j].is = "message"
  PROVE  LET v == <<Gives(w[j])>> \o SubSeq(w, j + 1, Len(w))
         IN  v \in Seq(Item) /\ Leaves(w, v)
<1> DEFINE x == Gives(w[j])
           u == SubSeq(w, j + 1, Len(w))
           v == <<x>> \o u
<1>1. j \in 1 .. Len(w) /\ w[j] \in Item
  OBVIOUS
<1>2. x \in Item /\ Same(x, w[j])
  BY <1>1, GivesIs
<1>3. u \in Seq(Item) /\ Len(u) = Len(w) - j /\ \A i \in 1 .. Len(u) : u[i] = w[i + j]
  BY <1>1
<1> HIDE DEF x, u
<1>4. v \in Seq(Item) /\ Len(v) = Len(u) + 1 /\ v[1] = x /\ \A i \in 2 .. Len(v) : v[i] = u[i - 1]
  BY <1>2, <1>3
<1> HIDE DEF v
<1>5. ASSUME NEW i \in DOMAIN v PROVE i + (j - 1) \in DOMAIN w /\ Same(v[i], w[i + (j - 1)])
  <2>1. CASE i = 1
    BY <2>1, <1>1, <1>2, <1>4
  <2>2. CASE i # 1
    <3>1. i \in 2 .. Len(v) /\ i - 1 \in 1 .. Len(u) /\ v[i] = w[(i - 1) + j] /\ (i - 1) + j = i + (j - 1)
      BY <2>2, <1>3, <1>4, SMTT(30)
    <3>2. v[i] = w[i + (j - 1)] /\ i + (j - 1) \in DOMAIN w
      BY <3>1, <1>1, <1>3, <1>4, SMTT(30)
    <3> QED
      BY <3>2 DEF Same
  <2> QED
    BY <2>1, <2>2
<1>6. j - 1 \in Nat
  BY <1>1
<1> QED
  BY <1>4, <1>5, <1>6 DEF Leaves, v, x, u

LEMMA LeavesSuffix ==
  ASSUME NEW w \in Seq(Item), NEW j \in 1 .. Len(w) + 1
  PROVE  SubSeq(w, j, Len(w)) \in Seq(Item) /\ Leaves(w, SubSeq(w, j, Len(w)))
<1> DEFINE v == SubSeq(w, j, Len(w))
<1>1. v \in Seq(Item) /\ Len(v) = Len(w) - j + 1 /\ \A i \in 1 .. Len(v) : v[i] = w[i + (j - 1)]
  OBVIOUS
<1> HIDE DEF v
<1>2. \A i \in DOMAIN v : i + (j - 1) \in DOMAIN w /\ Same(v[i], w[i + (j - 1)])
  BY <1>1 DEF Same
<1>3. j - 1 \in Nat
  OBVIOUS
<1>4. Leaves(w, v)
  BY <1>2, <1>3 DEF Leaves
<1> QED
  BY <1>1, <1>4 DEF v

(* Sending, and taking the first.                                          *)
LEMMA Consigns ==
  ASSUME NEW w \in Seq(Item), NEW x \in Item
  PROVE  /\ Append(w, x) \in Seq(Item)
         /\ Ordered(w) /\ (Carries(x) => AllBefore(w, x.of, x.part)) => Ordered(Append(w, x))
         /\ \A d \in Nat, n \in Nat :
              AllBefore(w, d, n) /\ (Carries(x) => Precedes(x, d, n)) => AllBefore(Append(w, x), d, n)
         /\ \A y : AllAfter(w, y) /\ (Carries(x) => Precedes(y, x.of, x.part)) => AllAfter(Append(w, x), y)
         /\ \A d : AllNewer(w, d) /\ (Carries(x) => d < x.of) => AllNewer(Append(w, x), d)
<1> DEFINE v == Append(w, x)
<1>1. v \in Seq(Item) /\ Len(v) = Len(w) + 1 /\ v[Len(v)] = x /\ \A i \in 1 .. Len(w) : v[i] = w[i]
  OBVIOUS
<1> HIDE DEF v
<1>2. Ordered(w) /\ (Carries(x) => AllBefore(w, x.of, x.part)) => Ordered(v)
  BY <1>1 DEF Ordered, AllBefore
<1>3. \A d \in Nat, n \in Nat :
        AllBefore(w, d, n) /\ (Carries(x) => Precedes(x, d, n)) => AllBefore(v, d, n)
  BY <1>1 DEF AllBefore
<1>4. \A y : AllAfter(w, y) /\ (Carries(x) => Precedes(y, x.of, x.part)) => AllAfter(v, y)
  BY <1>1 DEF AllAfter
<1>5. \A d : AllNewer(w, d) /\ (Carries(x) => d < x.of) => AllNewer(v, d)
  BY <1>1 DEF AllNewer
<1> QED
  BY <1>1, <1>2, <1>3, <1>4, <1>5 DEF v

LEMMA FirstOf ==
  ASSUME NEW w \in Seq(Item), w # << >>, Ordered(w), Carries(Head(w))
  PROVE  AllAfter(Tail(w), Head(w))
<1>1. \A i \in DOMAIN Tail(w) : i + 1 \in DOMAIN w /\ Tail(w)[i] = w[i + 1] /\ 1 < i + 1 /\ 1 \in DOMAIN w /\ Head(w) = w[1]
  OBVIOUS
<1> QED
  BY <1>1 DEF Ordered, AllAfter

(* Whatever comes after the last message of a datagram is of a later one.  *)
LEMMA AfterLast ==
  ASSUME NEW w \in Seq(Item), NEW x, x.of \in Nat, x.part = Chunks, Chunks \in Nat, AllAfter(w, x)
  PROVE  AllNewer(w, x.of)
<1>1. ASSUME NEW i \in DOMAIN w PROVE w[i] \in Item /\ w[i].of \in Nat /\ w[i].part \in 0 .. Chunks
  <2>1. w[i] \in Item
    OBVIOUS
  <2> QED
    BY <2>1 DEF Item
<1> QED
  BY <1>1 DEF AllAfter, AllNewer, Precedes

LEMMA LeavesSame ==
  ASSUME NEW w \in Seq(Item)
  PROVE  Leaves(w, w)
<1>1. \A i \in DOMAIN w : i + 0 \in DOMAIN w /\ Same(w[i], w[i + 0])
  BY DEF Same
<1> QED
  BY <1>1 DEF Leaves

LEMMA AppendPair ==
  ASSUME NEW s \in Pairs, NEW d \in Nat, NEW i \in Nat
  PROVE  \E data \in Pairs :
           /\ data = Append(s, <<d, i>>)
           /\ Len(data) = Len(s) + 1 /\ Len(data) \in Nat /\ data[Len(data)] = <<d, i>>
<1>1. PICK x \in Nat \X Nat : x = <<d, i>>
  OBVIOUS
<1>2. s \in Seq(Nat \X Nat)
  BY DEF Pairs
<1> DEFINE t == Append(s, x)
<1>3. t \in Seq(Nat \X Nat) /\ Len(t) = Len(s) + 1 /\ Len(t) \in Nat /\ t[Len(t)] = x
  BY <1>2
<1>4. t = Append(s, <<d, i>>)
  BY <1>1
<1> HIDE DEF t
<1>5. t \in Pairs /\ t[Len(t)] = <<d, i>>
  BY <1>1, <1>3 DEF Pairs
<1> QED
  BY <1>3, <1>4, <1>5

-----------------------------------------------------------------------------
(* From the wifi processor to the main one.                                *)

LEMMA AfterLeaves ==
  ASSUME wire \in Seq(Item), wire # << >>
  PROVE  R!After(Head(wire)) \in Seq(Item) /\ Leaves(wire, R!After(Head(wire)))
<1>1. Head(wire) = wire[1] /\ 1 \in DOMAIN wire /\ Tail(wire) = SubSeq(wire, 2, Len(wire))
  OBVIOUS
<1>2. CASE wire[1].is = "message"
  <2>1. R!After(Head(wire)) = <<Gives(wire[1])>> \o SubSeq(wire, 1 + 1, Len(wire))
    BY <1>1, <1>2 DEF R!After, R!Rest, Gives
  <2> QED
    BY <2>1, <1>1, <1>2, LeavesRest
<1>3. CASE wire[1].is # "message"
  BY <1>1, <1>3, LeavesTail DEF R!After
<1> QED
  BY <1>2, <1>3

LEMMA ReadyLeaves ==
  ASSUME wire \in Seq(Item), R!SetReady
  PROVE  wire' \in Seq(Item) /\ Leaves(wire, wire') /\ buf' = R!Idle
BY AfterLeaves, LeavesSame DEF R!SetReady

(* Nothing new comes, and no message reaches the buffer.                   *)
LEMMA ReceiveThins ==
  ASSUME ReceiveInv, wire' \in Seq(Item), Leaves(wire, wire'), UNCHANGED <<left, sent, delivered>>,
         buf' \in Buffers, buf' = buf \/ buf'.is # "message", netmsg' \in [of : Nat, data : Pairs]
  PROVE  ReceiveInv'
<1>1. Ordered(wire') /\ AllBefore(wire', left' + 1, sent')
  BY LeavesKeeps DEF ReceiveInv
<1>2. buf'.is = "message" => Precedes(buf', left' + 1, sent') /\ AllAfter(wire', buf')
  BY LeavesKeeps DEF ReceiveInv
<1>3. \A i \in DOMAIN delivered : R!Number(i)' = R!Number(i)
  BY DEF R!Number
<1>4. ASSUME NEW i \in DOMAIN delivered'
      PROVE  /\ R!Number(i)' \in 0 .. left' /\ AllNewer(wire', R!Number(i)')
             /\ buf'.is = "message" => R!Number(i)' < buf'.of
  <2>1. i \in DOMAIN delivered /\ AllNewer(wire, R!Number(i))
    BY DEF ReceiveInv
  <2> QED
    BY <2>1, <1>3, LeavesKeeps DEF ReceiveInv
<1>5. R!DeliveredWhole'
  BY DEF ReceiveInv, R!DeliveredWhole, R!Number
<1>6. /\ left' \in Nat /\ sent' \in 0 .. Chunks /\ delivered' \in Seq(Pairs)
  BY DEF ReceiveInv
<1> QED
  BY <1>1, <1>2, <1>4, <1>5, <1>6 DEF ReceiveInv

LEMMA ReceiveStarts == R!ReceiveAssumption /\ R!Init => ReceiveInv
<1> SUFFICES ASSUME R!ReceiveAssumption, R!Init PROVE ReceiveInv
  OBVIOUS
<1>1. /\ left = 0 /\ sent = 0 /\ wire = << >> /\ buf \in Buffers /\ buf.is # "message"
      /\ netmsg = [of |-> 0, data |-> << >>] /\ delivered = << >> /\ Chunks \in Nat \ {0}
  BY DEF R!Init, R!ReceiveAssumption, R!Idle, R!Sign, R!None, Buffers
<1>2. \A v \in {wire, delivered} : DOMAIN v = {}
  BY <1>1
<1>3. /\ left \in Nat /\ sent \in 0 .. Chunks /\ wire \in Seq(Item) /\ delivered \in Seq(Pairs)
      /\ netmsg \in [of : Nat, data : Pairs]
  BY <1>1 DEF Pairs
<1> QED
  BY <1>1, <1>2, <1>3 DEF ReceiveInv, Ordered, AllBefore, R!DeliveredWhole

LEMMA SignIs ==
  ASSUME Chunks \in Nat, NEW s \in {"idle", "begun", "bad", "junk", "query"}
  PROVE  R!Sign(s) \in Buffers /\ R!Sign(s).is = s
BY DEF R!Sign, Buffers

(* What the DMA channel makes of the first byte on the wire.               *)
LEMMA ReceiveBytes ==
  ASSUME R!ReceiveAssumption, ReceiveInv, R!Bytes
  PROVE  ReceiveInv'
<1> DEFINE x == Head(wire)
<1>1. wire \in Seq(Item) /\ wire # << >> /\ x \in Item /\ Chunks \in Nat
  BY LeavesTail DEF R!Bytes, ReceiveInv, R!ReceiveAssumption
<1>2. /\ wire' = R!After(x) /\ buf' \in R!NextBuf(x)
      /\ UNCHANGED <<arrived, left, sent, ready, pc, alarm, netmsg, delivered, faults>>
  BY DEF R!Bytes, R!mainVars
<1>3. wire' \in Seq(Item) /\ Leaves(wire, wire')
  BY <1>1, <1>2, AfterLeaves
<1> HIDE DEF x
<1>4. /\ R!Begun \in Buffers /\ R!Bad \in Buffers /\ R!Junk \in Buffers /\ R!Query \in Buffers
      /\ R!Begun.is = "begun" /\ R!Bad.is = "bad" /\ R!Junk.is = "junk" /\ R!Query.is = "query"
  BY <1>1, SignIs DEF R!Begun, R!Bad, R!Junk, R!Query
<1>5. \/ buf' \in {R!Begun, R!Bad, R!Junk, R!Query, buf}
      \/ x.is = "rest" /\ buf' = [x EXCEPT !.is = "message"]
  BY <1>2 DEF R!NextBuf
<1>6. CASE buf' \in {R!Begun, R!Bad, R!Junk, R!Query, buf}
  BY <1>2, <1>3, <1>4, <1>6, ReceiveThins DEF ReceiveInv
<1>7. CASE x.is = "rest" /\ buf' = [x EXCEPT !.is = "message"]
  <2>1. /\ buf' = [is |-> "message", of |-> x.of, part |-> x.part] /\ x.of \in Nat /\ x.part \in 0 .. Chunks
    BY <1>1, <1>7 DEF Item
  <2>2. wire' = Tail(wire) /\ Carries(x) /\ x = wire[1] /\ 1 \in DOMAIN wire
    BY <1>1, <1>2, <1>7 DEF R!After, x, Carries
  <2>3. AllAfter(wire', buf')
    <3>1. AllAfter(wire', x)
      BY <1>1, <2>2, FirstOf DEF ReceiveInv, x
    <3> QED
      BY <3>1, <2>1 DEF AllAfter, Precedes
  <2>4. Precedes(buf', left' + 1, sent')
    BY <1>2, <2>1, <2>2 DEF ReceiveInv, AllBefore, Precedes
  <2>5. Ordered(wire') /\ AllBefore(wire', left' + 1, sent')
    BY <1>1, <1>2, <1>3, LeavesKeeps DEF ReceiveInv
  <2>6. ASSUME NEW i \in DOMAIN delivered'
        PROVE  R!Number(i)' \in 0 .. left' /\ AllNewer(wire', R!Number(i)') /\ R!Number(i)' < buf'.of
    <3>1. R!Number(i)' = R!Number(i) /\ i \in DOMAIN delivered
      BY <1>2 DEF R!Number
    <3>2. R!Number(i) \in 0 .. left /\ AllNewer(wire, R!Number(i))
      BY <3>1 DEF ReceiveInv
    <3>3. R!Number(i) < x.of
      BY <3>2, <2>2 DEF AllNewer
    <3>4. AllNewer(wire', R!Number(i))
      BY <3>2, <1>1, <1>3, LeavesKeeps
    <3> QED
      BY <1>2, <2>1, <3>1, <3>2, <3>3, <3>4
  <2>7. R!DeliveredWhole'
    BY <1>2 DEF ReceiveInv, R!DeliveredWhole, R!Number
  <2>8. /\ left' \in Nat /\ sent' \in 0 .. Chunks /\ delivered' \in Seq(Pairs) /\ buf' \in Buffers
        /\ netmsg' \in [of : Nat, data : Pairs]
    BY <1>2, <2>1 DEF ReceiveInv, Buffers
  <2> QED
    BY <1>3, <2>3, <2>4, <2>5, <2>6, <2>7, <2>8 DEF ReceiveInv
<1> QED
  BY <1>5, <1>6, <1>7

(* A message is handled, and the buffer is free.                           *)
LEMMA ReceiveProcess ==
  ASSUME R!ReceiveAssumption, ReceiveInv, R!Process
  PROVE  ReceiveInv'
<1>1. /\ wire' \in Seq(Item) /\ Leaves(wire, wire') /\ buf' \in Buffers /\ buf'.is = "idle"
      /\ UNCHANGED <<left, sent>> /\ Chunks \in Nat \ {0} /\ buf \in Buffers
  BY ReadyLeaves, SignIs DEF R!Process, ReceiveInv, R!Idle, R!ReceiveAssumption
<1>2. PICK ok \in BOOLEAN : R!Handle(buf, ok)
  BY DEF R!Process
<1>3. buf = R!Bad \/ buf.is = "message"
  BY DEF R!Process, R!Complete
<1>4. R!None \in [of : Nat, data : Pairs] /\ netmsg \in [of : Nat, data : Pairs]
  BY DEF R!None, ReceiveInv, Pairs
<1>0. buf.of \in Nat /\ buf.part \in Nat /\ netmsg.data \in Pairs
  BY <1>1, <1>4 DEF Buffers
<1>5. PICK data \in Pairs :
        /\ data = Append(netmsg.data, <<buf.of, buf.part>>)
        /\ Len(data) = Len(netmsg.data) + 1 /\ Len(data) \in Nat /\ data[Len(data)] = <<buf.of, buf.part>>
  BY <1>0, AppendPair
<1>6. CASE UNCHANGED delivered
  <2>1. netmsg' \in [of : Nat, data : Pairs]
    <3>1. /\ [of |-> buf.of, data |-> << >>] \in [of : Nat, data : Pairs]
          /\ [netmsg EXCEPT !.data = data] \in [of : Nat, data : Pairs]
      <4>1. << >> \in Pairs /\ buf.of \in Nat
        BY <1>1 DEF Pairs, Buffers
      <4> QED
        BY <4>1, <1>4, <1>5
    <3>2. netmsg' \in {netmsg, R!None, [of |-> buf.of, data |-> << >>], [netmsg EXCEPT !.data = data]}
      BY <1>2, <1>5 DEF R!Handle, R!Header, R!Data, R!Refuses
    <3> QED
      BY <3>1, <3>2, <1>4
  <2> QED
    BY <1>1, <1>6, <2>1, ReceiveThins
<1>7. CASE ~UNCHANGED delivered
  <2>1. /\ buf # R!Bad /\ buf.is = "message" /\ delivered' = Append(delivered, data) /\ netmsg' = R!None
        /\ R!CrcOK(data, netmsg.of) /\ ~(Len(data) < Chunks)
    BY <1>2, <1>3, <1>5, <1>7 DEF R!Handle, R!Header, R!Data, R!Refuses
  <2>2. /\ data = WholeOf(netmsg.of)
        /\ Len(data) = Len(netmsg.data) + 1 /\ Len(data) \in Nat /\ data[Len(data)] = <<buf.of, buf.part>>
    BY <2>1, <1>5 DEF R!CrcOK, WholeOf
  <2>3. Len(data) = Chunks
    BY <2>2, <1>1, <1>5 DEF WholeOf, Pairs
  <2>4. data[1] = <<netmsg.of, 1>> /\ data[Chunks] = <<netmsg.of, Chunks>>
    BY <2>2, <1>1 DEF WholeOf
  <2>5. buf.of = netmsg.of /\ buf.part = Chunks /\ buf.of \in Nat
    BY <2>2, <2>3, <2>4, <1>4
  <2>0. PICK n \in Nat : n = Len(delivered)
    BY DEF ReceiveInv
  <2>6. /\ delivered' \in Seq(Pairs) /\ DOMAIN delivered' = 1 .. n + 1
        /\ delivered'[n + 1] = data
        /\ \A i \in 1 .. n : i \in DOMAIN delivered /\ delivered'[i] = delivered[i]
    BY <2>0, <2>1, <1>5 DEF ReceiveInv
  <2>7. \A i \in 1 .. n : R!Number(i)' = R!Number(i) /\ R!Number(i) \in 0 .. left /\ R!Number(i) < buf.of
    BY <2>1, <2>6 DEF R!Number, ReceiveInv
  <2>8. R!Number(n + 1)' = buf.of
    BY <2>4, <2>5, <2>6 DEF R!Number
  <2>9. AllNewer(wire', buf.of) /\ buf.of \in 0 .. left
    <3>1. AllAfter(wire, buf) /\ Precedes(buf, left + 1, sent) /\ wire \in Seq(Item)
      BY <2>1 DEF ReceiveInv
    <3>2. AllNewer(wire, buf.of)
      BY <3>1, <2>5, <1>1, AfterLast
    <3>3. left \in Nat /\ sent \in 0 .. Chunks
      BY DEF ReceiveInv
    <3> QED
      BY <3>1, <3>2, <3>3, <1>1, <2>5, LeavesKeeps DEF Precedes
  <2>10. ASSUME NEW i \in DOMAIN delivered'
         PROVE  R!Number(i)' \in 0 .. left' /\ AllNewer(wire', R!Number(i)')
    <3>1. CASE i = n + 1
      BY <3>1, <2>8, <2>9, <1>1
    <3>2. CASE i # n + 1
      <4>1. i \in 1 .. n /\ i \in DOMAIN delivered
        BY <3>2, <2>6
      <4>2. AllNewer(wire, R!Number(i)) /\ wire \in Seq(Item)
        BY <4>1 DEF ReceiveInv
      <4> QED
        BY <4>1, <4>2, <2>7, <1>1, LeavesKeeps
    <3> QED
      BY <3>1, <3>2
  <2>11. R!DeliveredWhole'
    <3>1. ASSUME NEW i \in DOMAIN delivered' PROVE delivered'[i] = [c \in 1 .. Chunks |-> <<R!Number(i)', c>>]
      <4>1. CASE i = n + 1
        BY <4>1, <2>2, <2>5, <2>6, <2>8 DEF WholeOf
      <4>2. CASE i # n + 1
        <5>1. i \in 1 .. n
          BY <4>2, <2>6
        <5> QED
          BY <5>1, <2>6, <2>7 DEF ReceiveInv, R!DeliveredWhole
      <4> QED
        BY <4>1, <4>2
    <3>2. ASSUME NEW i \in DOMAIN delivered', NEW j \in DOMAIN delivered', i < j PROVE R!Number(i)' < R!Number(j)'
      <4>1. i \in 1 .. n
        BY <3>2, <2>6
      <4>2. CASE j = n + 1
        BY <4>1, <4>2, <2>7, <2>8
      <4>3. CASE j # n + 1
        <5>1. j \in 1 .. n
          BY <4>3, <2>6
        <5>2. R!Number(i) < R!Number(j)
          BY <3>2, <4>1, <5>1, <2>6 DEF ReceiveInv, R!DeliveredWhole
        <5> QED
          BY <4>1, <5>1, <5>2, <2>7
      <4> QED
        BY <4>2, <4>3
    <3> QED
      BY <3>1, <3>2 DEF R!DeliveredWhole
  <2>12. Ordered(wire') /\ AllBefore(wire', left' + 1, sent')
    BY <1>1, LeavesKeeps DEF ReceiveInv
  <2>13. left' \in Nat /\ sent' \in 0 .. Chunks /\ netmsg' \in [of : Nat, data : Pairs]
    BY <1>1, <1>4, <2>1 DEF ReceiveInv
  <2> QED
    BY <1>1, <2>6, <2>10, <2>11, <2>12, <2>13 DEF ReceiveInv
<1> QED
  BY <1>6, <1>7

LEMMA ReceiveSends ==
  ASSUME R!ReceiveAssumption, ReceiveInv, R!SendNext
  PROVE  ReceiveInv'
<1>1. /\ left \in Nat /\ sent \in 0 .. Chunks /\ wire \in Seq(Item) /\ Chunks \in Nat
      /\ UNCHANGED <<buf, netmsg, delivered>>
      /\ \/ sent = Chunks /\ left' = left + 1 /\ sent' = 0
         \/ sent # Chunks /\ left' = left /\ sent' = sent + 1
  BY DEF R!SendNext, R!mainVars, ReceiveInv, R!ReceiveAssumption
<1>2. PICK x \in Item : /\ x.is = "message" /\ x.of = left + 1 /\ x.part = sent
                        /\ wire' = Append(wire, x)
  <2>1. R!Message(left + 1, sent) \in Item /\ R!Message(left + 1, sent).is = "message"
        /\ R!Message(left + 1, sent).of = left + 1 /\ R!Message(left + 1, sent).part = sent
    BY <1>1 DEF R!Message, Item
  <2> QED
    BY <2>1 DEF R!SendNext
<1>3. Carries(x) /\ left' \in Nat /\ sent' \in 0 .. Chunks /\ left' + 1 \in Nat
  BY <1>1, <1>2 DEF Carries
<1>4. \A y : y.of \in Nat /\ y.part \in Nat /\ Precedes(y, left + 1, sent) => Precedes(y, left' + 1, sent')
  BY <1>1 DEF Precedes
<1>5. ASSUME NEW i \in DOMAIN wire PROVE wire[i].of \in Nat /\ wire[i].part \in Nat
  <2>1. wire[i] \in Item
    BY <1>1
  <2> QED
    BY <2>1, <1>1 DEF Item
<1>6. AllBefore(wire, left' + 1, sent')
  BY <1>4, <1>5 DEF ReceiveInv, AllBefore
<1>7. Precedes(x, left' + 1, sent')
  BY <1>1, <1>2 DEF Precedes
<1>8. Ordered(wire') /\ AllBefore(wire', left' + 1, sent') /\ wire' \in Seq(Item)
  <2>1. Ordered(wire) /\ AllBefore(wire, x.of, x.part)
    BY <1>2 DEF ReceiveInv
  <2> QED
    BY <2>1, <1>1, <1>2, <1>3, <1>6, <1>7, Consigns
<1>9. buf'.is = "message" => Precedes(buf', left' + 1, sent') /\ AllAfter(wire', buf')
  <2>1. buf.of \in Nat /\ buf.part \in Nat
    BY <1>1 DEF ReceiveInv, Buffers
  <2>2. buf.is = "message" => Precedes(buf, x.of, x.part) /\ AllAfter(wire, buf)
    BY <1>2 DEF ReceiveInv
  <2> QED
    BY <2>1, <2>2, <1>1, <1>2, <1>4, Consigns DEF ReceiveInv
<1>10. ASSUME NEW i \in DOMAIN delivered'
       PROVE  /\ R!Number(i)' \in 0 .. left' /\ AllNewer(wire', R!Number(i)')
              /\ buf'.is = "message" => R!Number(i)' < buf'.of
  <2>1. R!Number(i)' = R!Number(i) /\ i \in DOMAIN delivered
    BY <1>1 DEF R!Number
  <2>2. /\ R!Number(i) \in 0 .. left /\ AllNewer(wire, R!Number(i))
        /\ buf.is = "message" => R!Number(i) < buf.of
    BY <2>1 DEF ReceiveInv
  <2>3. R!Number(i) \in 0 .. left' /\ R!Number(i) < x.of
    BY <2>2, <1>1, <1>2
  <2> QED
    BY <2>1, <2>2, <2>3, <1>1, <1>2, Consigns
<1>11. R!DeliveredWhole'
  BY <1>1 DEF ReceiveInv, R!DeliveredWhole, R!Number
<1> QED
  BY <1>1, <1>3, <1>8, <1>9, <1>10, <1>11 DEF ReceiveInv

LEMMA ReceiveQueries ==
  ASSUME R!ReceiveAssumption, ReceiveInv, R!SendQuery
  PROVE  ReceiveInv'
<1>1. /\ left \in Nat /\ sent \in 0 .. Chunks /\ wire \in Seq(Item)
      /\ UNCHANGED <<left, sent, buf, netmsg, delivered>>
  BY DEF R!SendQuery, R!mainVars, ReceiveInv
<1>2. PICK x \in Item : ~Carries(x) /\ wire' = Append(wire, x)
  BY DEF R!SendQuery, R!Query, R!Sign, Item, Carries, R!ReceiveAssumption
<1>3. Ordered(wire') /\ AllBefore(wire', left' + 1, sent') /\ wire' \in Seq(Item)
  BY <1>1, <1>2, Consigns DEF ReceiveInv
<1>4. buf'.is = "message" => Precedes(buf', left' + 1, sent') /\ AllAfter(wire', buf')
  BY <1>1, <1>2, Consigns DEF ReceiveInv
<1>5. ASSUME NEW i \in DOMAIN delivered'
      PROVE  /\ R!Number(i)' \in 0 .. left' /\ AllNewer(wire', R!Number(i)')
             /\ buf'.is = "message" => R!Number(i)' < buf'.of
  <2>1. R!Number(i)' = R!Number(i) /\ i \in DOMAIN delivered
    BY <1>1 DEF R!Number
  <2>2. AllNewer(wire, R!Number(i))
    BY <2>1 DEF ReceiveInv
  <2> QED
    BY <2>1, <2>2, <1>1, <1>2, Consigns DEF ReceiveInv
<1>6. R!DeliveredWhole'
  BY <1>1 DEF ReceiveInv, R!DeliveredWhole, R!Number
<1> QED
  BY <1>1, <1>3, <1>4, <1>5, <1>6 DEF ReceiveInv

LEMMA ReceiveStep ==
  ASSUME R!ReceiveAssumption, ReceiveInv, [R!Next]_(R!vars)
  PROVE  ReceiveInv'
<1>0. /\ wire \in Seq(Item) /\ Leaves(wire, wire) /\ buf \in Buffers /\ netmsg \in [of : Nat, data : Pairs]
      /\ R!Idle \in Buffers /\ R!Idle.is = "idle" /\ R!Bad \in Buffers /\ R!Bad.is = "bad"
  BY LeavesSame, SignIs DEF ReceiveInv, R!Idle, R!Bad, R!ReceiveAssumption
<1>1. CASE R!DatagramArrives
  BY <1>0, <1>1, ReceiveThins DEF R!DatagramArrives, R!mainVars
<1>2. CASE R!SendNext
  BY <1>2, ReceiveSends
<1>3. CASE R!SendQuery
  BY <1>3, ReceiveQueries
<1>4. CASE R!Bytes
  BY <1>4, ReceiveBytes
<1>5. CASE R!Fault
  <2>1. wire' \in Seq(Item) /\ Leaves(wire, wire')
    BY <1>0, <1>5, AfterLeaves DEF R!Fault
  <2>2. buf' \in {buf, R!Bad} /\ UNCHANGED <<left, sent, netmsg, delivered>>
    BY <1>5 DEF R!Fault, R!mainVars
  <2> QED
    BY <2>1, <2>2, <1>0, ReceiveThins
<1>6. CASE R!WaitControl
  <2>1. UNCHANGED <<left, sent, netmsg, delivered>> /\ (R!SetReady \/ UNCHANGED <<buf, wire>>)
    BY <1>6 DEF R!WaitControl
  <2> QED
    BY <2>1, <1>0, ReadyLeaves, ReceiveThins
<1>7. CASE R!Alarm
  BY <1>0, <1>7, ReceiveThins DEF R!Alarm
<1>8. CASE R!Process
  BY <1>8, ReceiveProcess
<1>9. CASE R!RxTimeout
  <2>1. UNCHANGED <<left, sent, netmsg, delivered>> /\ R!SetReady
    BY <1>9 DEF R!RxTimeout, R!TimedOut
  <2> QED
    BY <2>1, <1>0, ReadyLeaves, ReceiveThins
<1>10. CASE UNCHANGED R!vars
  BY <1>0, <1>10, ReceiveThins DEF R!vars
<1> QED
  BY <1>1, <1>2, <1>3, <1>4, <1>5, <1>6, <1>7, <1>8, <1>9, <1>10 DEF R!Next, R!Thread

(* From the wifi processor to the main one.                                *)
LEMMA ReceivedWhole ==
  ASSUME R!ReceiveAssumption
  PROVE  R!Spec => []R!DeliveredWhole
<1>1. ReceiveInv => R!DeliveredWhole
  BY DEF ReceiveInv
<1> QED
  BY <1>1, ReceiveStarts, ReceiveStep, PTL DEF R!Spec

-----------------------------------------------------------------------------
(* From the main processor to the wifi processor.                          *)

LEMMA FlushLeaves ==
  ASSUME NEW w \in Seq(Item), NEW v \in S!Flush(w)
  PROVE  v \in Seq(Item) /\ Leaves(w, v)
<1>1. CASE \E i \in 1 .. Len(w) + 1 : v = SubSeq(w, i, Len(w))
  BY <1>1, LeavesSuffix
<1>2. CASE \E i \in {j \in DOMAIN w : w[j].is = "message"} :
             v = <<S!Rest(w[i])>> \o SubSeq(w, i + 1, Len(w))
  <2>1. PICK i \in DOMAIN w : w[i].is = "message" /\ v = <<Gives(w[i])>> \o SubSeq(w, i + 1, Len(w))
    BY <1>2 DEF S!Rest, Gives
  <2> QED
    BY <2>1, LeavesRest
<1> QED
  BY <1>1, <1>2 DEF S!Flush

LEMMA LeavesTwice ==
  ASSUME NEW u \in Seq(Item), NEW v \in Seq(Item), NEW w \in Seq(Item), Leaves(u, v), Leaves(v, w)
  PROVE  Leaves(u, w)
<1>1. PICK k \in Nat : \A i \in DOMAIN v : i + k \in DOMAIN u /\ Same(v[i], u[i + k])
  BY DEF Leaves
<1>2. PICK l \in Nat : \A i \in DOMAIN w : i + l \in DOMAIN v /\ Same(w[i], v[i + l])
  BY DEF Leaves
<1>0. PICK m \in Nat : m = l + k
  OBVIOUS
<1>3. ASSUME NEW i \in DOMAIN w PROVE i + m \in DOMAIN u /\ Same(w[i], u[i + m])
  <2>1. i \in Int /\ (i + l) + k = i + m
    BY <1>0
  <2>2. i + l \in DOMAIN v /\ (i + l) + k \in DOMAIN u /\ Same(v[i + l], u[(i + l) + k]) /\ Same(w[i], v[i + l])
    BY <1>1, <1>2
  <2>3. u[(i + l) + k] = u[i + m]
    BY <2>1
  <2> QED
    BY <2>1, <2>2, <2>3 DEF Same
<1> QED
  BY <1>3 DEF Leaves

(* Nothing new is sent on either side.                                     *)
LEMMA SendThins ==
  ASSUME SendInv, serial' \in Seq(Item), Leaves(serial, serial'), UNCHANGED <<next, part, outgoing>>,
         udp' \in [of : Nat, data : Pairs], busy' \in BOOLEAN, busy' => busy
  PROVE  SendInv'
<1>1. Ordered(serial') /\ AllBefore(serial', next', part')
  BY LeavesKeeps DEF SendInv
<1>2. ASSUME NEW i \in DOMAIN outgoing'
      PROVE  /\ S!Number(i)' \in Nat
             /\ S!Number(i)' < next' \/ (S!Number(i)' = next' /\ part' = Chunks + 1)
             /\ AllNewer(serial', S!Number(i)')
  <2>1. S!Number(i)' = S!Number(i) /\ i \in DOMAIN outgoing
    BY DEF S!Number
  <2>2. AllNewer(serial, S!Number(i))
    BY <2>1 DEF SendInv
  <2>3. AllNewer(serial', S!Number(i))
    BY <2>2, LeavesKeeps DEF SendInv
  <2> QED
    BY <2>1, <2>3 DEF SendInv
<1>3. S!SentWhole'
  BY DEF SendInv, S!SentWhole, S!Number
<1>4. next' \in Nat /\ part' \in 0 .. Chunks + 1 /\ outgoing' \in Seq(Pairs) /\ (busy' => part' <= Chunks)
  BY DEF SendInv
<1> QED
  BY <1>1, <1>2, <1>3, <1>4 DEF SendInv

LEMMA ResetIs ==
  ASSUME Chunks \in Nat
  PROVE  /\ S!Reset \in Item /\ ~Carries(S!Reset) /\ <<S!Reset>> \in Seq(Item)
         /\ Ordered(<<S!Reset>>) /\ \A d, n : AllBefore(<<S!Reset>>, d, n)
         /\ \A d : AllNewer(<<S!Reset>>, d)
         /\ S!Nobody \in [of : Nat, data : Pairs]
<1>1. S!Reset \in Item /\ ~Carries(S!Reset)
  BY DEF S!Reset, Item, Carries
<1>2. S!Nobody \in [of : Nat, data : Pairs]
  BY DEF S!Nobody, Pairs
<1> HIDE DEF Item
<1>3. <<S!Reset>> \in Seq(Item) /\ \A i \in DOMAIN <<S!Reset>> : ~Carries(<<S!Reset>>[i])
  BY <1>1
<1> QED
  BY <1>1, <1>2, <1>3 DEF Ordered, AllBefore, AllNewer

LEMMA SendStarts == S!SendAssumption /\ S!Init => SendInv
<1> SUFFICES ASSUME S!SendAssumption, S!Init PROVE SendInv
  OBVIOUS
<1>1. /\ next = 0 /\ part = 0 /\ busy = FALSE /\ serial = <<S!Reset>> /\ udp = S!Nobody
      /\ outgoing = << >> /\ Chunks \in Nat \ {0}
  BY DEF S!Init, S!SendAssumption
<1>2. next \in Nat /\ part \in 0 .. Chunks + 1 /\ outgoing \in Seq(Pairs) /\ DOMAIN outgoing = {}
  BY <1>1
<1> QED
  BY <1>1, <1>2, ResetIs DEF SendInv, S!SentWhole

(* The wifi processor is reset: what was on the wire is lost.              *)
LEMMA SendChecks ==
  ASSUME S!SendAssumption, SendInv, S!Check
  PROVE  SendInv'
<1>1. UNCHANGED <<next, part, busy, outgoing>> /\ Chunks \in Nat
  BY DEF S!Check, S!SendAssumption
<1>2. CASE UNCHANGED <<serial, udp>>
  BY <1>1, <1>2, SendThins, LeavesSame DEF SendInv
<1>3. CASE serial' = <<S!Reset>> /\ udp' = S!Nobody
  <2>1. ASSUME NEW i \in DOMAIN outgoing'
        PROVE  /\ S!Number(i)' \in Nat
               /\ S!Number(i)' < next' \/ (S!Number(i)' = next' /\ part' = Chunks + 1)
               /\ AllNewer(serial', S!Number(i)')
    <3>1. S!Number(i)' = S!Number(i) /\ i \in DOMAIN outgoing
      BY <1>1 DEF S!Number
    <3> QED
      BY <3>1, <1>1, <1>3, ResetIs DEF SendInv
  <2>2. S!SentWhole'
    BY <1>1 DEF SendInv, S!SentWhole, S!Number
  <2>3. /\ serial' \in Seq(Item) /\ Ordered(serial') /\ AllBefore(serial', next', part')
        /\ udp' \in [of : Nat, data : Pairs]
    BY <1>1, <1>3, ResetIs
  <2>4. next' \in Nat /\ part' \in 0 .. Chunks + 1 /\ outgoing' \in Seq(Pairs) /\ busy' \in BOOLEAN /\ (busy' => part' <= Chunks)
    BY <1>1 DEF SendInv
  <2> QED
    BY <2>1, <2>2, <2>3, <2>4 DEF SendInv
<1> QED
  BY <1>2, <1>3 DEF S!Check

(* A call of wifi_i8_send_udp, and a part of its datagram.                 *)
LEMMA SendCalls ==
  ASSUME S!SendAssumption, SendInv, S!SendUdp \/ S!SendPart
  PROVE  SendInv'
<1>0. /\ next \in Nat /\ part \in 0 .. Chunks + 1 /\ serial \in Seq(Item) /\ outgoing \in Seq(Pairs)
      /\ Chunks \in Nat \ {0} /\ UNCHANGED <<udp, outgoing>> /\ udp \in [of : Nat, data : Pairs]
  BY DEF SendInv, S!SendUdp, S!SendPart, S!SendAssumption
<1>1. \A i \in DOMAIN outgoing : S!Number(i)' = S!Number(i)
  BY <1>0 DEF S!Number
<1>2. S!SentWhole'
  BY <1>0 DEF SendInv, S!SentWhole, S!Number
<1>3. ASSUME NEW i \in DOMAIN serial PROVE serial[i].of \in Nat /\ serial[i].part \in Nat
  <2>1. serial[i] \in Item
    BY <1>0
  <2> QED
    BY <2>1, <1>0 DEF Item
<1>4. CASE S!SendUdp
  <2>1. next' = next + 1 /\ part' = 0 /\ busy' = TRUE /\ UNCHANGED serial
    BY <1>4 DEF S!SendUdp
  <2>2. AllBefore(serial', next', part') /\ Ordered(serial')
    BY <1>0, <1>3, <2>1 DEF SendInv, AllBefore, Precedes
  <2>3. ASSUME NEW i \in DOMAIN outgoing'
        PROVE  S!Number(i)' \in Nat /\ S!Number(i)' < next' /\ AllNewer(serial', S!Number(i)')
    <3>1. i \in DOMAIN outgoing /\ S!Number(i)' = S!Number(i)
      BY <1>0, <1>1
    <3>2. S!Number(i) \in Nat /\ S!Number(i) <= next /\ AllNewer(serial, S!Number(i))
      BY <3>1, <1>0 DEF SendInv
    <3> QED
      BY <3>1, <3>2, <1>0, <2>1
  <2>4. next' \in Nat /\ part' \in 0 .. Chunks + 1 /\ busy' \in BOOLEAN /\ part' <= Chunks
    BY <1>0, <2>1
  <2> QED
    BY <1>0, <1>2, <2>1, <2>2, <2>3, <2>4 DEF SendInv
<1>5. CASE S!SendPart
  <2>1. busy /\ next' = next /\ part' = part + 1 /\ busy' = (part < Chunks) /\ part \in 0 .. Chunks
    BY <1>0, <1>5 DEF S!SendPart, SendInv
  <2>2. PICK x \in Item : x.is = "message" /\ x.of = next /\ x.part = part /\ serial' = Append(serial, x)
    <3>1. S!Message(next, part) \in Item /\ S!Message(next, part).is = "message"
          /\ S!Message(next, part).of = next /\ S!Message(next, part).part = part
      BY <1>0, <2>1 DEF S!Message, Item
    <3> QED
      BY <3>1, <1>5 DEF S!SendPart
  <2>3. Carries(x) /\ Precedes(x, next', part') /\ next' \in Nat /\ part' \in 0 .. Chunks + 1
    BY <1>0, <2>1, <2>2 DEF Carries, Precedes
  <2>4. AllBefore(serial, next', part')
    BY <1>0, <1>3, <2>1 DEF SendInv, AllBefore, Precedes
  <2>5. Ordered(serial) /\ AllBefore(serial, x.of, x.part)
    BY <2>2 DEF SendInv
  <2>6. serial' \in Seq(Item) /\ Ordered(serial') /\ AllBefore(serial', next', part')
    BY <1>0, <2>2, <2>3, <2>4, <2>5, Consigns
  <2>7. ASSUME NEW i \in DOMAIN outgoing'
        PROVE  S!Number(i)' \in Nat /\ S!Number(i)' < next' /\ AllNewer(serial', S!Number(i)')
    <3>1. i \in DOMAIN outgoing /\ S!Number(i)' = S!Number(i)
      BY <1>0, <1>1
    <3>2. S!Number(i) \in Nat /\ S!Number(i) < next /\ AllNewer(serial, S!Number(i))
      BY <3>1, <1>0, <2>1 DEF SendInv
    <3>3. AllNewer(serial', S!Number(i))
      BY <3>2, <1>0, <2>2, Consigns
    <3> QED
      BY <3>1, <3>2, <3>3, <2>1
  <2>8. busy' \in BOOLEAN /\ (busy' => part' <= Chunks)
    <3>1. CASE part < Chunks
      <4>1. busy' = TRUE
        BY <2>1, <3>1
      <4> QED
        BY <4>1, <3>1, <1>0, <2>1
    <3>2. CASE ~(part < Chunks)
      <4>1. (part < Chunks) = FALSE
        BY <3>2
      <4>2. busy' = (part < Chunks)
        BY <2>1
      <4>3. busy' = FALSE
        BY <4>1, <4>2, Zenon
      <4> QED
        BY <4>3
    <3> QED
      BY <3>1, <3>2
  <2> QED
    BY <1>0, <1>2, <2>3, <2>6, <2>7, <2>8 DEF SendInv
<1> QED
  BY <1>4, <1>5

(* The rest of a message is read, with what is flushed after it.           *)
LEMMA SendReads ==
  ASSUME S!SendAssumption, SendInv, S!ReadMessage
  PROVE  SendInv'
<1> DEFINE w == Tail(serial)
<1>0. /\ next \in Nat /\ part \in 0 .. Chunks + 1 /\ serial \in Seq(Item) /\ serial # << >> /\ outgoing \in Seq(Pairs)
      /\ Chunks \in Nat \ {0} /\ udp \in [of : Nat, data : Pairs] /\ UNCHANGED <<next, part, busy>>
  BY DEF SendInv, S!ReadMessage, S!mainVars, S!SendAssumption
<1>1. PICK x \in Item : x = Head(serial) /\ x = serial[1] /\ 1 \in DOMAIN serial
  BY <1>0, LeavesTail
<1>2. w \in Seq(Item) /\ Leaves(serial, w) /\ serial' \in S!Flush(w)
  BY <1>0, LeavesTail DEF S!ReadMessage, S!SetReady
<1>3. serial' \in Seq(Item) /\ Leaves(w, serial')
  BY <1>2, FlushLeaves
<1> HIDE DEF w
<1>4. Leaves(serial, serial')
  BY <1>0, <1>2, <1>3, LeavesTwice
<1>5. x.of \in Nat /\ x.part \in 0 .. Chunks /\ x.part \in Nat /\ udp.of \in Nat /\ udp.data \in Pairs
  BY <1>0 DEF Item
<1>6. PICK data \in Pairs :
        /\ data = Append(udp.data, <<x.of, x.part>>)
        /\ Len(data) = Len(udp.data) + 1 /\ Len(data) \in Nat /\ data[Len(data)] = <<x.of, x.part>>
  BY <1>5, AppendPair
<1>7. udp' \in [of : Nat, data : Pairs] /\ busy \in BOOLEAN
  <2>1. /\ [of |-> x.of, data |-> << >>] \in [of : Nat, data : Pairs]
        /\ [udp EXCEPT !.data = data] \in [of : Nat, data : Pairs]
    <3>1. << >> \in Pairs
      BY DEF Pairs
    <3> QED
      BY <3>1, <1>0, <1>5
  <2>2. udp' \in {udp, [of |-> x.of, data |-> << >>], [udp EXCEPT !.data = data]}
    BY <1>1, <1>6 DEF S!ReadMessage, S!Header, S!Data
  <2> QED
    BY <2>1, <2>2, <1>0 DEF SendInv
<1>8. CASE UNCHANGED outgoing
  BY <1>0, <1>3, <1>4, <1>7, <1>8, SendThins
<1>9. CASE ~UNCHANGED outgoing
  <2>1. /\ x.is = "rest" /\ outgoing' = Append(outgoing, data) /\ Len(data) = Chunks /\ S!CrcOK(data, udp.of)
    BY <1>1, <1>6, <1>9 DEF S!ReadMessage, S!Header, S!Data
  <2>2. data = WholeOf(udp.of)
    BY <2>1 DEF S!CrcOK, WholeOf
  <2>3. data[1] = <<udp.of, 1>> /\ data[Chunks] = <<udp.of, Chunks>>
    BY <2>2, <1>0 DEF WholeOf
  <2>4. x.of = udp.of /\ x.part = Chunks /\ Carries(x)
    BY <2>1, <2>3, <1>5, <1>6 DEF Carries
  <2>0. PICK n \in Nat : n = Len(outgoing)
    BY <1>0
  <2>5. /\ outgoing' \in Seq(Pairs) /\ DOMAIN outgoing' = 1 .. n + 1
        /\ outgoing'[n + 1] = data
        /\ \A i \in 1 .. n : i \in DOMAIN outgoing /\ outgoing'[i] = outgoing[i]
    BY <2>0, <2>1, <1>0
  <2>6. \A i \in 1 .. n : S!Number(i)' = S!Number(i) /\ S!Number(i) \in Nat /\ S!Number(i) < x.of
    <3>1. ASSUME NEW i \in 1 .. n
          PROVE  S!Number(i)' = S!Number(i) /\ S!Number(i) \in Nat /\ S!Number(i) < x.of
      <4>1. i \in DOMAIN outgoing /\ S!Number(i)' = S!Number(i)
        BY <2>5 DEF S!Number
      <4>2. S!Number(i) \in Nat /\ AllNewer(serial, S!Number(i))
        BY <4>1 DEF SendInv
      <4> QED
        BY <4>1, <4>2, <1>1, <2>4 DEF AllNewer
    <3> QED
      BY <3>1
  <2>7. S!Number(n + 1)' = x.of
    BY <2>3, <2>4, <2>5 DEF S!Number
  <2>8. AllNewer(serial', x.of) /\ (x.of < next \/ (x.of = next /\ part = Chunks + 1))
    <3>1. AllAfter(w, x)
      BY <1>0, <1>1, <2>4, FirstOf DEF SendInv, w
    <3>2. AllNewer(w, x.of)
      BY <3>1, <1>0, <1>2, <1>5, <2>4, AfterLast
    <3>3. Precedes(x, next, part)
      BY <1>1, <2>4 DEF SendInv, AllBefore
    <3> QED
      BY <3>2, <3>3, <1>0, <1>2, <1>3, <1>5, <2>4, LeavesKeeps DEF Precedes
  <2>9. ASSUME NEW i \in DOMAIN outgoing'
        PROVE  /\ S!Number(i)' \in Nat
               /\ S!Number(i)' < next' \/ (S!Number(i)' = next' /\ part' = Chunks + 1)
               /\ AllNewer(serial', S!Number(i)')
    <3>1. CASE i = n + 1
      BY <3>1, <2>7, <2>8, <1>0, <1>5
    <3>2. CASE i # n + 1
      <4>1. i \in 1 .. n /\ i \in DOMAIN outgoing
        BY <3>2, <2>5
      <4>2. AllNewer(serial', S!Number(i))
        BY <4>1, <1>0, <1>3, <1>4, LeavesKeeps DEF SendInv
      <4> QED
        BY <4>1, <4>2, <2>6, <1>0 DEF SendInv
    <3> QED
      BY <3>1, <3>2
  <2>10. S!SentWhole'
    <3>1. ASSUME NEW i \in DOMAIN outgoing' PROVE outgoing'[i] = [c \in 1 .. Chunks |-> <<S!Number(i)', c>>]
      <4>1. CASE i = n + 1
        BY <4>1, <2>2, <2>4, <2>5, <2>7 DEF WholeOf
      <4>2. CASE i # n + 1
        <5>1. i \in 1 .. n
          BY <4>2, <2>5
        <5> QED
          BY <5>1, <2>5, <2>6 DEF SendInv, S!SentWhole
      <4> QED
        BY <4>1, <4>2
    <3>2. ASSUME NEW i \in DOMAIN outgoing', NEW j \in DOMAIN outgoing', i < j PROVE S!Number(i)' < S!Number(j)'
      <4>1. i \in 1 .. n
        BY <3>2, <2>5
      <4>2. CASE j = n + 1
        BY <4>1, <4>2, <2>6, <2>7
      <4>3. CASE j # n + 1
        <5>1. j \in 1 .. n
          BY <4>3, <2>5
        <5>2. S!Number(i) < S!Number(j)
          BY <3>2, <4>1, <5>1, <2>5 DEF SendInv, S!SentWhole
        <5> QED
          BY <4>1, <5>1, <5>2, <2>6
      <4> QED
        BY <4>2, <4>3
    <3> QED
      BY <3>1, <3>2 DEF S!SentWhole
  <2>11. Ordered(serial') /\ AllBefore(serial', next', part')
    BY <1>0, <1>3, <1>4, LeavesKeeps DEF SendInv
  <2>12. next' \in Nat /\ part' \in 0 .. Chunks + 1 /\ busy' \in BOOLEAN /\ (busy' => part' <= Chunks)
    BY <1>0 DEF SendInv
  <2> QED
    BY <1>3, <1>7, <2>5, <2>9, <2>10, <2>11, <2>12 DEF SendInv
<1> QED
  BY <1>8, <1>9

LEMMA SendStep ==
  ASSUME S!SendAssumption, SendInv, [S!Next]_(S!vars)
  PROVE  SendInv'
<1>0. /\ serial \in Seq(Item) /\ Leaves(serial, serial) /\ udp \in [of : Nat, data : Pairs] /\ busy \in BOOLEAN
      /\ serial # << >> => Head(serial) = serial[1] /\ Tail(serial) \in Seq(Item) /\ Leaves(serial, Tail(serial))
  BY LeavesSame, LeavesTail DEF SendInv
<1>1. CASE S!Check
  BY <1>1, SendChecks
<1>2. CASE S!SendUdp \/ S!SendPart
  BY <1>2, SendCalls
<1>3. CASE S!SendError
  BY <1>0, <1>3, SendThins DEF S!SendError
<1>4. ASSUME serial # << >>, serial[1].is = "message"
      PROVE  LET v == <<S!Rest(serial[1])>> \o Tail(serial)
             IN  v \in Seq(Item) /\ Leaves(serial, v)
  <2>1. Tail(serial) = SubSeq(serial, 1 + 1, Len(serial)) /\ 1 \in DOMAIN serial
    BY <1>0, <1>4
  <2>2. S!Rest(serial[1]) = Gives(serial[1])
    BY DEF S!Rest, Gives
  <2> QED
    BY <2>1, <2>2, <1>0, <1>4, LeavesRest
<1>5. CASE S!ReadControl
  <2>1. UNCHANGED <<next, part, busy, udp, outgoing>> /\ serial # << >>
    BY <1>5 DEF S!ReadControl, S!mainVars
  <2>2. \/ serial[1].is = "message" /\ serial' = <<S!Rest(serial[1])>> \o Tail(serial)
        \/ serial' \in S!Flush(Tail(serial))
        \/ serial' = Tail(serial)
    BY <1>0, <1>5 DEF S!ReadControl, S!SetReady
  <2>3. serial' \in Seq(Item) /\ Leaves(serial, serial')
    <3>1. CASE serial[1].is = "message" /\ serial' = <<S!Rest(serial[1])>> \o Tail(serial)
      BY <3>1, <2>1, <1>4
    <3>2. CASE serial' \in S!Flush(Tail(serial))
      BY <3>2, <2>1, <1>0, FlushLeaves, LeavesTwice
    <3>3. CASE serial' = Tail(serial)
      BY <3>3, <2>1, <1>0
    <3> QED
      BY <2>2, <3>1, <3>2, <3>3
  <2> QED
    BY <2>1, <2>3, <1>0, SendThins
<1>6. CASE S!CommTimeout
  <2>1. UNCHANGED <<next, part, busy, udp, outgoing>> /\ serial' \in S!Flush(serial)
    BY <1>6 DEF S!CommTimeout, S!mainVars, S!SetReady
  <2> QED
    BY <2>1, <1>0, FlushLeaves, SendThins
<1>7. CASE S!ReadMessage
  BY <1>7, SendReads
<1>8. CASE S!Fault
  <2>1. UNCHANGED <<next, part, busy, udp, outgoing>> /\ serial # << >>
    BY <1>8 DEF S!Fault, S!mainVars
  <2>2. \/ serial[1].is = "message" /\ serial' = <<S!Rest(serial[1])>> \o Tail(serial)
        \/ serial' = Tail(serial)
    BY <1>0, <1>8 DEF S!Fault
  <2> QED
    BY <2>1, <2>2, <1>0, <1>4, SendThins
<1>9. CASE UNCHANGED S!vars
  BY <1>0, <1>9, SendThins DEF S!vars
<1> QED
  BY <1>1, <1>2, <1>3, <1>5, <1>6, <1>7, <1>8, <1>9 DEF S!Next, S!Main, S!Wifi

(* From the main processor to the wifi one.                                *)
LEMMA SentWhole ==
  ASSUME S!SendAssumption
  PROVE  S!Spec => []S!SentWhole
<1>1. SendInv => S!SentWhole
  BY DEF SendInv
<1> QED
  BY <1>1, SendStarts, SendStep, PTL DEF S!Spec

(* In both directions of the link only whole datagrams come out, in the    *)
(* order in which they were sent and each once, whatever the line damages  *)
(* or loses: process_tx and wifi_i8_rx_data_received one way,              *)
(* _wifi_i8_internal_send_msg and intf_v_process the other.                *)
THEOREM LinkWhole ==
  ASSUME R!ReceiveAssumption, S!SendAssumption
  PROVE  R!Spec /\ S!Spec => []DatagramsWhole
BY ReceivedWhole, SentWhole, PTL DEF DatagramsWhole

-----------------------------------------------------------------------------
(* The ports and the queues of datagrams.                                  *)

Datagram == [port : Ports, number : Nat]
Tables == [Slot -> Ports \cup {0}]

(* A port is in one place of each table, and in the same one of all three. *)
OnePlace(t, u) == \A i, j \in Slot : t[i] = u[j] /\ t[i] # 0 => i = j

(* A port that the wifi processor is still to open has nothing queued.     *)
Unopened(t) == \A i \in Slot : t[i] # 0 /\ t[i] # local[i] => Queued(t[i]) = 0

PortsTypes ==
  /\ table \in Tables /\ ports \in Tables /\ local \in Tables
  /\ request \in BOOLEAN /\ depth \in [Slot -> 0 .. Width - 1]
  /\ rxq \in Seq(Ports) /\ txq \in Seq(Datagram) /\ out \in Seq(Datagram)
  /\ accepted \in SUBSET Datagram /\ IsFiniteSet(accepted)

PortsPlaces ==
  /\ OnePlace(table, table) /\ OnePlace(ports, ports) /\ OnePlace(local, local)
  /\ OnePlace(table, ports) /\ OnePlace(table, local) /\ OnePlace(ports, local)
  /\ Unopened(table) /\ Unopened(ports)
  /\ \A i \in Slot : table[i] # 0 /\ table[i] # ports[i] => table[i] # local[i]
  /\ ~request => local = ports

Numbered == \A d \in accepted : d.number < Cardinality(accepted)

PortsInv == PortsTypes /\ PortsPlaces /\ Numbered /\ DepthTrue /\ NothingDropped

Count(q, p) == Cardinality({i \in DOMAIN q : q[i] = p})

LEMMA CountOf ==
  ASSUME NEW q \in Seq(Ports), NEW p
  PROVE  /\ Count(q, p) \in Nat /\ IsFiniteSet({i \in DOMAIN q : q[i] = p})
         /\ Count(q, p) = 0 <=> \A i \in DOMAIN q : q[i] # p
<1> DEFINE Q == {i \in DOMAIN q : q[i] = p}
<1>1. Q \subseteq 1 .. Len(q) /\ IsFiniteSet(1 .. Len(q))
  BY FS_Interval
<1>2. IsFiniteSet(Q)
  BY <1>1, FS_Subset
<1>3. (Cardinality(Q) = 0) <=> (Q = {})
  BY <1>2, FS_EmptySet
<1>4. Cardinality(Q) \in Nat
  BY <1>2, FS_CardinalityType
<1> QED
  BY <1>2, <1>3, <1>4 DEF Count

LEMMA CountAppend ==
  ASSUME NEW q \in Seq(Ports), NEW x \in Ports, NEW p
  PROVE  Count(Append(q, x), p) = IF x = p THEN Count(q, p) + 1 ELSE Count(q, p)
<1> DEFINE Q == {i \in DOMAIN q : q[i] = p}
           v == Append(q, x)
           T == {i \in DOMAIN v : v[i] = p}
           n == Len(q) + 1
<1>1. IsFiniteSet(Q)
  BY CountOf
<1>2. /\ DOMAIN v = 1 .. n /\ DOMAIN q = 1 .. Len(q) /\ Len(q) \in Nat /\ v[n] = x
      /\ \A i \in DOMAIN q : v[i] = q[i]
  OBVIOUS
<1> HIDE DEF v
<1>3. n \notin Q
  BY <1>2
<1>4. CASE x = p
  <2>1. T = Q \cup {n}
    BY <1>2, <1>4
  <2>2. Cardinality(Q \cup {n}) = Cardinality(Q) + 1
    BY <1>1, <1>3, FS_AddElement
  <2> QED
    BY <1>4, <2>1, <2>2 DEF Count, v
<1>5. CASE x # p
  <2>1. T = Q
    BY <1>2, <1>5
  <2> QED
    BY <1>5, <2>1 DEF Count, v
<1> QED
  BY <1>4, <1>5

LEMMA CountTail ==
  ASSUME NEW q \in Seq(Ports), q # << >>, NEW p
  PROVE  Count(Tail(q), p) = IF Head(q) = p THEN Count(q, p) - 1 ELSE Count(q, p)
<1> DEFINE Q == {i \in DOMAIN q : q[i] = p}
           v == Tail(q)
           T == {i \in DOMAIN v : v[i] = p}
           f == [i \in T |-> i + 1]
<1>1. IsFiniteSet(Q)
  BY CountOf
<1>2. /\ Len(q) \in Nat \ {0} /\ DOMAIN v = 1 .. Len(q) - 1 /\ DOMAIN q = 1 .. Len(q) /\ Head(q) = q[1]
      /\ \A i \in DOMAIN v : v[i] = q[i + 1]
      /\ v \in Seq(Ports)
  OBVIOUS
<1> HIDE DEF v
<1>0. v \in Seq(Ports)
  BY <1>2
<1>3. IsFiniteSet(T)
  <2> HIDE DEF f
  <2> QED
    BY <1>0, CountOf
<1>4. \A i \in T : i + 1 \in Q \ {1}
  BY <1>2
<1>5. \A j \in Q \ {1} : j - 1 \in T
  BY <1>2
<1>6. T \subseteq Int /\ Q \subseteq Int
  BY <1>2
<1> HIDE DEF T, Q
<1>7. f \in Bijection(T, Q \ {1})
  <2>1. f \in [T -> Q \ {1}]
    BY <1>4
  <2>2. \A i, j \in T : f[i] = f[j] => i = j
    BY <1>6
  <2>3. \A j \in Q \ {1} : j - 1 \in T /\ f[j - 1] = j
    BY <1>5, <1>6
  <2> HIDE DEF f
  <2>4. \A j \in Q \ {1} : \E i \in T : f[i] = j
    BY <2>3
  <2> QED
    BY <2>1, <2>2, <2>4 DEF Bijection, Injection, Surjection, IsInjective
<1> HIDE DEF f
<1>8. Cardinality(Q \ {1}) = Cardinality(T)
  BY <1>3, <1>7, FS_Bijection DEF ExistsBijection
<1>9. Cardinality(Q \ {1}) = IF 1 \in Q THEN Cardinality(Q) - 1 ELSE Cardinality(Q)
  BY <1>1, FS_RemoveElement
<1>10. 1 \in Q <=> Head(q) = p
  BY <1>2 DEF Q
<1> QED
  BY <1>8, <1>9, <1>10 DEF Count, Q, T, v

LEMMA FirstIsIn ==
  ASSUME NEW Q \in SUBSET Slot, Q # {}
  PROVE  First(Q) \in Q
<1>1. Q \subseteq Nat
  BY DEF Slot
<1> DEFINE less == OpToRel(<, Nat)
<1>2. IsWellFoundedOn(less, Nat)
  BY NatLessThanWellFounded
<1>3. \A x, y \in Nat : x < y => <<x, y>> \in less
  BY DEF OpToRel
<1> HIDE DEF less
<1>4. PICK x \in Q : \A y \in Q : ~(<<y, x>> \in less)
  BY <1>1, <1>2, WFMin
<1>5. \A y \in Q : x <= y
  <2> SUFFICES ASSUME NEW y \in Q PROVE x <= y
    OBVIOUS
  <2>1. x \in Nat /\ y \in Nat /\ ~(y < x)
    BY <1>1, <1>3, <1>4
  <2> QED
    BY <2>1
<1> QED
  BY <1>5 DEF First

-----------------------------------------------------------------------------
LEMMA QueuedIs ==
  ASSUME NEW p
  PROVE  Queued(p) = Count(rxq, p) /\ Queued(p)' = Count(rxq', p)
BY DEF Queued, Count

LEMMA PortsStart ==
  ASSUME PortsAssumption, Init
  PROVE  PortsInv
<1>1. /\ table = [i \in Slot |-> 0] /\ ports = table /\ local = table /\ depth = table /\ request = FALSE
      /\ rxq = << >> /\ txq = << >> /\ out = << >> /\ accepted = {} /\ Width \in Nat \ {0}
  BY DEF Init, PortsAssumption
<1>2. IsFiniteSet({}) /\ Cardinality({}) = 0
  BY FS_EmptySet
<1>3. PortsTypes
  <2>1. table \in Tables /\ ports \in Tables /\ local \in Tables
    BY <1>1 DEF Tables
  <2>2. depth \in [Slot -> 0 .. Width - 1]
    BY <1>1
  <2>3. rxq \in Seq(Ports) /\ txq \in Seq(Datagram) /\ out \in Seq(Datagram)
    BY <1>1
  <2> QED
    BY <1>1, <1>2, <2>1, <2>2, <2>3 DEF PortsTypes
<1>4. PortsPlaces
  BY <1>1 DEF PortsPlaces, OnePlace, Unopened
<1>5. Numbered /\ DepthTrue
  BY <1>1 DEF Numbered, DepthTrue
<1>6. NothingDropped
  BY <1>1, <1>2 DEF NothingDropped, ToSet
<1> QED
  BY <1>3, <1>4, <1>5, <1>6 DEF PortsInv

-----------------------------------------------------------------------------
(* The transmit queue.                                                     *)

LEMMA SetOfSeq ==
  ASSUME NEW Q, NEW q \in Seq(Q)
  PROVE  /\ \A x \in Q : ToSet(Append(q, x)) = ToSet(q) \cup {x}
         /\ q # << >> => ToSet(q) = ToSet(Tail(q)) \cup {Head(q)}
<1>1. ASSUME NEW x \in Q PROVE ToSet(Append(q, x)) = ToSet(q) \cup {x}
  <2>1. /\ DOMAIN Append(q, x) = 1 .. Len(q) + 1 /\ DOMAIN q = 1 .. Len(q) /\ Len(q) \in Nat
        /\ Append(q, x)[Len(q) + 1] = x /\ \A i \in 1 .. Len(q) : Append(q, x)[i] = q[i]
    OBVIOUS
  <2> QED
    BY <2>1 DEF ToSet
<1>2. ASSUME q # << >> PROVE ToSet(q) = ToSet(Tail(q)) \cup {Head(q)}
  <2>1. /\ Len(q) \in Nat \ {0} /\ DOMAIN Tail(q) = 1 .. Len(q) - 1 /\ DOMAIN q = 1 .. Len(q)
        /\ Head(q) = q[1] /\ \A i \in 1 .. Len(q) - 1 : Tail(q)[i] = q[i + 1]
    BY <1>2
  <2>2. ToSet(q) \subseteq ToSet(Tail(q)) \cup {Head(q)}
    <3> SUFFICES ASSUME NEW i \in 1 .. Len(q), i # 1 PROVE q[i] \in ToSet(Tail(q))
      BY <2>1 DEF ToSet
    <3>1. i - 1 \in 1 .. Len(q) - 1 /\ Tail(q)[i - 1] = q[i]
      BY <2>1
    <3> QED
      BY <3>1, <2>1 DEF ToSet
  <2>3. ToSet(Tail(q)) \cup {Head(q)} \subseteq ToSet(q)
    BY <2>1 DEF ToSet
  <2> QED
    BY <2>2, <2>3
<1> QED
  BY <1>1, <1>2

LEMMA SendUdpKeeps ==
  ASSUME PortsInv, NEW p \in Ports, SendUdp(p)
  PROVE  /\ txq' \in Seq(Datagram) /\ accepted' \in SUBSET Datagram /\ IsFiniteSet(accepted')
         /\ Numbered' /\ NothingDropped'
<1>1. Cardinality(accepted) \in Nat /\ IsFiniteSet(accepted) /\ txq \in Seq(Datagram) /\ out \in Seq(Datagram)
      /\ accepted \in SUBSET Datagram
  BY FS_CardinalityType DEF PortsInv, PortsTypes
<1>2. PICK d \in Datagram : /\ d.number = Cardinality(accepted)
                            /\ txq' = Append(txq, d) /\ accepted' = accepted \cup {d}
  <2>1. [port |-> p, number |-> Cardinality(accepted)] \in Datagram
    BY <1>1 DEF Datagram
  <2> QED
    BY <2>1 DEF SendUdp
<1>3. d \notin accepted
  BY <1>1, <1>2 DEF PortsInv, Numbered
<1>4. IsFiniteSet(accepted') /\ Cardinality(accepted') = Cardinality(accepted) + 1
  BY <1>1, <1>2, <1>3, FS_AddElement
<1>5. Numbered'
  <2> SUFFICES ASSUME NEW e \in accepted' PROVE e.number < Cardinality(accepted')
    BY DEF Numbered
  <2>1. e \in accepted => e.number < Cardinality(accepted) /\ e.number \in Nat
    BY <1>1 DEF PortsInv, Numbered, Datagram
  <2> QED
    BY <2>1, <1>1, <1>2, <1>4
<1>6. NothingDropped'
  <2>1. ToSet(txq') = ToSet(txq) \cup {d} /\ Len(txq') = Len(txq) + 1 /\ out' = out
    BY <1>1, <1>2, SetOfSeq DEF SendUdp
  <2>2. Len(txq) \in Nat /\ Len(out) \in Nat
    BY <1>1
  <2> QED
    BY <2>1, <2>2, <1>1, <1>2, <1>4 DEF PortsInv, NothingDropped
<1> QED
  BY <1>1, <1>2, <1>4, <1>5, <1>6

LEMMA TailIs ==
  ASSUME NEW Q, NEW q \in Seq(Q), q # << >>
  PROVE  /\ Head(q) \in Q /\ Tail(q) \in Seq(Q) /\ Len(q) \in Nat /\ Len(Tail(q)) \in Nat
         /\ Len(q) = Len(Tail(q)) + 1
OBVIOUS

LEMMA TransmitKeeps ==
  ASSUME PortsInv, Transmit, UNCHANGED accepted
  PROVE  txq' \in Seq(Datagram) /\ out' \in Seq(Datagram) /\ Numbered' /\ NothingDropped'
<1>1. txq \in Seq(Datagram) /\ out \in Seq(Datagram) /\ Numbered'
  BY DEF PortsInv, PortsTypes, Numbered
<1>2. CASE txq = << >>
  BY <1>1, <1>2 DEF Transmit, PortsInv, NothingDropped
<1>3. CASE txq # << >>
  <2>1. PICK d \in Datagram : d = Head(txq)
    BY <1>1, <1>3, TailIs
  <2>0. Tail(txq) \in Seq(Datagram)
    BY <1>1, <1>3, TailIs
  <2>2. PICK q \in Seq(Datagram) : q = Tail(txq)
    BY <2>0
  <2>3. ToSet(txq) = ToSet(q) \cup {d} /\ Len(txq) = Len(q) + 1 /\ Len(q) \in Nat /\ Len(out) \in Nat
    BY <1>1, <1>3, <2>1, <2>2, SetOfSeq, TailIs
  <2>4. \/ txq' = q /\ out' = Append(out, d)
        \/ txq' = Append(q, d) /\ out' = out
    BY <1>3, <2>1, <2>2 DEF Transmit, Requeued
  <2>5. /\ ToSet(Append(q, d)) = ToSet(q) \cup {d} /\ ToSet(Append(out, d)) = ToSet(out) \cup {d}
        /\ Len(Append(q, d)) = Len(q) + 1 /\ Len(Append(out, d)) = Len(out) + 1
        /\ Append(q, d) \in Seq(Datagram) /\ Append(out, d) \in Seq(Datagram)
    BY <1>1, SetOfSeq
  <2>6. CASE txq' = q /\ out' = Append(out, d)
    <3>1. ToSet(txq') \cup ToSet(out') = ToSet(txq) \cup ToSet(out) /\ Len(txq') + Len(out') = Len(txq) + Len(out)
      BY <2>3, <2>5, <2>6
    <3> QED
      BY <1>1, <2>5, <2>6, <3>1 DEF PortsInv, NothingDropped
  <2>7. CASE txq' = Append(q, d) /\ out' = out
    <3>1. ToSet(txq') \cup ToSet(out') = ToSet(txq) \cup ToSet(out) /\ Len(txq') + Len(out') = Len(txq) + Len(out)
      BY <2>3, <2>5, <2>7
    <3> QED
      BY <1>1, <2>5, <2>7, <3>1 DEF PortsInv, NothingDropped
  <2> QED
    BY <2>4, <2>6, <2>7
<1> QED
  BY <1>2, <1>3

-----------------------------------------------------------------------------
(* The tables and the receive queue.                                       *)

LEMMA OpenKeeps ==
  ASSUME PortsAssumption, ~Reopens, PortsInv, NEW p \in Ports, Open(p)
  PROVE  table' \in Tables /\ PortsPlaces' /\ DepthTrue'
<1>1. PICK k \in Slot : table[k] = 0 /\ table' = [table EXCEPT ![k] = p]
  <2>1. At(table, 0) \subseteq Slot /\ At(table, 0) # {}
    BY DEF Open, At
  <2>2. First(At(table, 0)) \in At(table, 0)
    BY <2>1, FirstIsIn
  <2> QED
    BY <2>2 DEF Open, At
<1>2. /\ p # 0 /\ Queued(p) = 0
      /\ \A i \in Slot : ports[i] # p /\ local[i] # p /\ table[i] # p
  BY DEF Open, MayOpen, At, PortsAssumption
<1>3. UNCHANGED <<ports, request, local, depth, rxq>> /\ \A x : Queued(x)' = Queued(x)
  BY DEF Open, wifiVars, Queued
<1>4. table \in Tables /\ table' \in Tables /\ \A i \in Slot : table'[i] = IF i = k THEN p ELSE table[i]
  BY <1>1 DEF PortsInv, PortsTypes, Tables
<1>5. OnePlace(table', table')
  BY <1>2, <1>4 DEF PortsInv, PortsPlaces, OnePlace
<1>6. OnePlace(table', ports') /\ OnePlace(table', local')
  BY <1>2, <1>3, <1>4 DEF PortsInv, PortsPlaces, OnePlace
<1>7. Unopened(table)'
  BY <1>2, <1>3, <1>4 DEF PortsInv, PortsPlaces, Unopened
<1>8. \A i \in Slot : table'[i] # 0 /\ table'[i] # ports'[i] => table'[i] # local'[i]
  BY <1>2, <1>3, <1>4 DEF PortsInv, PortsPlaces
<1>9. Unopened(ports)' /\ DepthTrue'
  BY <1>3 DEF PortsInv, PortsPlaces, Unopened, DepthTrue
<1> QED
  BY <1>3, <1>4, <1>5, <1>6, <1>7, <1>8, <1>9 DEF PortsInv, PortsPlaces

LEMMA CloseKeeps ==
  ASSUME PortsAssumption, PortsInv, NEW p \in Ports, Close(p)
  PROVE  table' \in Tables /\ PortsPlaces' /\ DepthTrue'
<1>1. PICK k \in Slot : table[k] = p /\ table' = [table EXCEPT ![k] = 0]
  <2>1. At(table, p) \subseteq Slot /\ At(table, p) # {}
    BY DEF Close, At
  <2>2. First(At(table, p)) \in At(table, p)
    BY <2>1, FirstIsIn
  <2> QED
    BY <2>2 DEF Close, At
<1>3. UNCHANGED <<ports, request, local, depth, rxq>> /\ \A x : Queued(x)' = Queued(x)
  BY DEF Close, wifiVars, Queued
<1>4. table \in Tables /\ table' \in Tables /\ \A i \in Slot : table'[i] = IF i = k THEN 0 ELSE table[i]
  BY <1>1 DEF PortsInv, PortsTypes, Tables
<1>5. OnePlace(table', table') /\ OnePlace(table', ports') /\ OnePlace(table', local')
  BY <1>3, <1>4 DEF PortsInv, PortsPlaces, OnePlace
<1>6. Unopened(table)' /\ \A i \in Slot : table'[i] # 0 /\ table'[i] # ports'[i] => table'[i] # local'[i]
  BY <1>3, <1>4 DEF PortsInv, PortsPlaces, Unopened
<1>7. Unopened(ports)' /\ DepthTrue'
  BY <1>3 DEF PortsInv, PortsPlaces, Unopened, DepthTrue
<1> QED
  BY <1>3, <1>4, <1>5, <1>6, <1>7 DEF PortsInv, PortsPlaces

LEMMA SendPortsKeeps ==
  ASSUME PortsInv, SendPorts
  PROVE  ports' \in Tables /\ request' \in BOOLEAN /\ PortsPlaces' /\ DepthTrue'
<1>1. UNCHANGED <<table, local, depth, rxq>> /\ \A x : Queued(x)' = Queued(x)
  BY DEF SendPorts, Queued
<1>2. DepthTrue'
  BY <1>1 DEF PortsInv, DepthTrue
<1>3. CASE UNCHANGED <<ports, request>>
  BY <1>1, <1>2, <1>3 DEF PortsInv, PortsTypes, PortsPlaces, OnePlace, Unopened
<1>4. CASE ports' = table /\ request' = TRUE
  <2>1. OnePlace(table', table') /\ OnePlace(table', ports') /\ OnePlace(ports', ports')
    BY <1>1, <1>4 DEF PortsInv, PortsPlaces
  <2>2. OnePlace(local', local') /\ OnePlace(table', local') /\ OnePlace(ports', local')
    BY <1>1, <1>4 DEF PortsInv, PortsPlaces
  <2>3. Unopened(table)' /\ Unopened(ports)'
    BY <1>1, <1>4 DEF PortsInv, PortsPlaces, Unopened
  <2> QED
    BY <1>1, <1>2, <1>4, <2>1, <2>2, <2>3 DEF PortsInv, PortsTypes, PortsPlaces
<1> QED
  BY <1>3, <1>4 DEF SendPorts

LEMMA OneMore ==
  ASSUME NEW w \in Nat, NEW d \in 0 .. w - 1, d + 1 < w
  PROVE  (d + 1) % w = d + 1 /\ d + 1 \in 0 .. w - 1
<1>1. w > 0 /\ 0 <= d + 1 /\ d + 1 < w /\ d + 1 \in Int
  OBVIOUS
<1> QED
  BY <1>1

LEMMA ProcessKeeps ==
  ASSUME PortsAssumption, PortsInv, NEW n \in {0} \cup Slot, Process(n)
  PROVE  /\ local' \in Tables /\ request' \in BOOLEAN /\ depth' \in [Slot -> 0 .. Width - 1] /\ rxq' \in Seq(Ports)
         /\ PortsPlaces' /\ DepthTrue'
<1>1. /\ table \in Tables /\ ports \in Tables /\ local \in Tables /\ request \in BOOLEAN
      /\ depth \in [Slot -> 0 .. Width - 1] /\ rxq \in Seq(Ports) /\ Width \in Nat /\ PortDepth \in Nat /\ PortDepth < Width
      /\ 0 \notin Slot
  BY DEF PortsInv, PortsTypes, PortsAssumption, Slot
<1>2. \A i \in Slot : Local[i] = ports[i]
  BY DEF Local, PortsInv, PortsPlaces
<1>3. local' = ports /\ UNCHANGED <<table, ports>> /\ request' = FALSE
  BY <1>1, <1>2 DEF Process, Local, Tables
<1>4. /\ Depth \in [Slot -> 0 .. Width - 1]
      /\ \A i \in Slot : ports[i] # 0 => Depth[i] = Queued(ports[i])
  <2>1. \A i \in Slot : Depth[i] = IF Stale(i) THEN 0 ELSE depth[i]
    BY DEF Depth
  <2>2. Depth \in [Slot -> 0 .. Width - 1]
    BY <1>1 DEF Depth
  <2>3. ASSUME NEW i \in Slot, ports[i] # 0 PROVE Depth[i] = Queued(ports[i])
    <3>1. CASE ports[i] = local[i]
      BY <2>1, <2>3, <3>1 DEF Stale, PortsInv, DepthTrue
    <3>2. CASE ports[i] # local[i]
      BY <2>1, <2>3, <3>2 DEF Stale, PortsInv, PortsPlaces, Unopened
    <3> QED
      BY <3>1, <3>2
  <2> QED
    BY <2>2, <2>3
<1>5. /\ depth' \in [Slot -> 0 .. Width - 1] /\ rxq' \in Seq(Ports)
      /\ \A i \in Slot : ports[i] # 0 => depth'[i] = Count(rxq', ports[i])
      /\ \A x : Count(rxq, x) = 0 /\ (n # 0 => x # ports[n]) => Count(rxq', x) = 0
  <2>1. CASE depth' = Depth /\ UNCHANGED rxq
    BY <1>1, <1>4, <2>1, QueuedIs
  <2>2. CASE ~(depth' = Depth /\ UNCHANGED rxq)
    <3>1. /\ n \in Slot /\ Depth[n] < PortDepth /\ ports[n] # 0
          /\ depth' = [Depth EXCEPT ![n] = (Depth[n] + 1) % Width] /\ rxq' = Append(rxq, ports[n])
      BY <1>1, <1>2, <1>4, <2>2 DEF Process, Receive
    <3>2. ports[n] \in Ports
      BY <1>1, <3>1 DEF Tables
    <3>3. (Depth[n] + 1) % Width = Depth[n] + 1 /\ Depth[n] + 1 \in 0 .. Width - 1
      <4>1. Depth[n] \in 0 .. Width - 1 /\ Depth[n] + 1 < Width
        BY <1>1, <1>4, <3>1
      <4> QED
        BY <1>1, <4>1, OneMore
    <3>4. \A x : Count(rxq', x) = IF ports[n] = x THEN Count(rxq, x) + 1 ELSE Count(rxq, x)
      BY <1>1, <3>1, <3>2, CountAppend
    <3>5. \A i \in Slot : depth'[i] = IF i = n THEN Depth[n] + 1 ELSE Depth[i]
      BY <1>4, <3>1, <3>3
    <3>6. depth' \in [Slot -> 0 .. Width - 1]
      BY <1>4, <3>1, <3>3
    <3>7. rxq' \in Seq(Ports)
      BY <1>1, <3>1, <3>2
    <3>8. ASSUME NEW i \in Slot, ports[i] # 0 PROVE depth'[i] = Count(rxq', ports[i])
      <4>1. ports[i] = ports[n] => i = n
        BY <3>1, <3>8 DEF PortsInv, PortsPlaces, OnePlace
      <4>2. Depth[i] = Count(rxq, ports[i])
        BY <1>4, <3>8, QueuedIs
      <4> QED
        BY <3>4, <3>5, <4>1, <4>2
    <3> QED
      BY <1>1, <3>1, <3>4, <3>6, <3>7, <3>8
  <2> QED
    BY <2>1, <2>2
<1>6. Unopened(table)'
  <2> SUFFICES ASSUME NEW i \in Slot, table[i] # 0, table[i] # ports[i] PROVE Count(rxq', table[i]) = 0
    BY <1>3, QueuedIs DEF Unopened, Queued, Count
  <2>1. Count(rxq, table[i]) = 0
    BY QueuedIs DEF PortsInv, PortsPlaces, Unopened
  <2>2. n # 0 => table[i] # ports[n]
    BY DEF PortsInv, PortsPlaces, OnePlace
  <2> QED
    BY <1>5, <2>1, <2>2
<1>7. Unopened(ports)'
  BY <1>3 DEF Unopened
<1>8. DepthTrue'
  BY <1>3, <1>5 DEF DepthTrue, Queued, Count
<1>9. /\ OnePlace(table', table') /\ OnePlace(ports', ports') /\ OnePlace(local', local')
      /\ OnePlace(table', ports') /\ OnePlace(table', local') /\ OnePlace(ports', local')
  BY <1>3 DEF PortsInv, PortsPlaces
<1>10. \A i \in Slot : table'[i] # 0 /\ table'[i] # ports'[i] => table'[i] # local'[i]
  BY <1>3
<1> QED
  BY <1>1, <1>3, <1>5, <1>6, <1>7, <1>8, <1>9, <1>10 DEF PortsPlaces

LEMMA ForwardKeeps ==
  ASSUME PortsAssumption, PortsInv, Forward
  PROVE  depth' \in [Slot -> 0 .. Width - 1] /\ rxq' \in Seq(Ports) /\ PortsPlaces' /\ DepthTrue'
<1>1. /\ local \in Tables /\ depth \in [Slot -> 0 .. Width - 1] /\ rxq \in Seq(Ports) /\ Width \in Nat /\ 0 \notin Ports
      /\ rxq # << >>
  BY DEF Forward, PortsInv, PortsTypes, PortsAssumption
<1>2. rxq' = Tail(rxq) /\ UNCHANGED <<table, ports, request, local>>
  BY DEF Forward
<1>3. PICK h \in Ports : h = Head(rxq)
  BY <1>1, TailIs
<1>4. rxq' \in Seq(Ports)
  BY <1>1, <1>2, TailIs
<1>5. \A x : /\ Count(rxq, x) \in Nat
             /\ Count(rxq', x) \in Nat
             /\ Count(rxq', x) = IF h = x THEN Count(rxq, x) - 1 ELSE Count(rxq, x)
  BY <1>1, <1>2, <1>3, <1>4, CountOf, CountTail
<1>6. \A x : Count(rxq, x) = 0 => Count(rxq', x) = 0
  BY <1>5
<1>7. Unopened(table)' /\ Unopened(ports)'
  <2>1. Unopened(table)'
    <3> SUFFICES ASSUME NEW i \in Slot, table[i] # 0, table[i] # local[i] PROVE Count(rxq', table[i]) = 0
      BY <1>2 DEF Unopened, Queued, Count
    <3>1. Count(rxq, table[i]) = 0
      BY QueuedIs DEF PortsInv, PortsPlaces, Unopened
    <3> QED
      BY <1>6, <3>1
  <2>2. Unopened(ports)'
    <3> SUFFICES ASSUME NEW i \in Slot, ports[i] # 0, ports[i] # local[i] PROVE Count(rxq', ports[i]) = 0
      BY <1>2 DEF Unopened, Queued, Count
    <3>1. Count(rxq, ports[i]) = 0
      BY QueuedIs DEF PortsInv, PortsPlaces, Unopened
    <3> QED
      BY <1>6, <3>1
  <2> QED
    BY <2>1, <2>2
<1>8. /\ depth' \in [Slot -> 0 .. Width - 1]
      /\ \A i \in Slot : local[i] # 0 => depth'[i] = Count(rxq', local[i])
  <2>0. \A i \in Slot : local[i] # 0 => depth[i] = Count(rxq, local[i])
    BY QueuedIs DEF PortsInv, DepthTrue
  <2>1. CASE At(local, h) = {}
    <3>1. depth' = depth /\ \A i \in Slot : local[i] # h
      BY <1>3, <2>1 DEF Forward, At
    <3> QED
      BY <1>1, <1>5, <2>0, <3>1
  <2>2. CASE At(local, h) # {}
    <3>1. PICK k \in Slot : local[k] = h /\ depth' = [depth EXCEPT ![k] = (depth[k] - 1) % Width]
      <4>1. First(At(local, h)) \in At(local, h)
        BY <2>2, FirstIsIn DEF At
      <4> QED
        BY <1>3, <2>2, <4>1 DEF Forward, At
    <3>2. depth[k] = Count(rxq, h) /\ Count(rxq, h) - 1 \in Nat
      BY <1>1, <1>5, <2>0, <3>1
    <3>3. (depth[k] - 1) % Width = depth[k] - 1 /\ depth[k] - 1 \in 0 .. Width - 1
      BY <1>1, <3>2
    <3>4. ASSUME NEW i \in Slot, local[i] # 0 PROVE depth'[i] = Count(rxq', local[i])
      <4>1. local[i] = h => i = k
        BY <3>1, <3>4 DEF PortsInv, PortsPlaces, OnePlace
      <4> QED
        BY <1>1, <1>5, <2>0, <3>1, <3>2, <3>3, <3>4, <4>1
    <3> QED
      BY <1>1, <3>1, <3>3, <3>4
  <2> QED
    BY <2>1, <2>2
<1>9. DepthTrue'
  BY <1>2, <1>8 DEF DepthTrue, Queued, Count
<1>10. /\ OnePlace(table', table') /\ OnePlace(ports', ports') /\ OnePlace(local', local')
       /\ OnePlace(table', ports') /\ OnePlace(table', local') /\ OnePlace(ports', local')
       /\ (\A i \in Slot : table'[i] # 0 /\ table'[i] # ports'[i] => table'[i] # local'[i])
       /\ (~request' => local' = ports')
  BY <1>2 DEF PortsInv, PortsPlaces
<1> QED
  BY <1>4, <1>7, <1>8, <1>9, <1>10 DEF PortsPlaces

-----------------------------------------------------------------------------
LEMMA PortsStep ==
  ASSUME PortsAssumption, ~Reopens, PortsInv, [Next]_vars
  PROVE  PortsInv'
<1> USE DEF PortsInv
<1>1. ASSUME NEW p \in Ports, Open(p) PROVE PortsInv'
  <2>1. UNCHANGED <<ports, request, local, depth, rxq, txq, out, accepted>>
    BY <1>1 DEF Open, wifiVars
  <2>2. table' \in Tables /\ PortsPlaces' /\ DepthTrue'
    BY <1>1, OpenKeeps
  <2> QED
    BY <2>1, <2>2 DEF PortsTypes, Numbered, NothingDropped
<1>2. ASSUME NEW p \in Ports, Close(p) PROVE PortsInv'
  <2>1. UNCHANGED <<ports, request, local, depth, rxq, txq, out, accepted>>
    BY <1>2 DEF Close, wifiVars
  <2>2. table' \in Tables /\ PortsPlaces' /\ DepthTrue'
    BY <1>2, CloseKeeps
  <2> QED
    BY <2>1, <2>2 DEF PortsTypes, Numbered, NothingDropped
<1>3. ASSUME NEW p \in Ports, SendUdp(p) PROVE PortsInv'
  <2>1. UNCHANGED <<table, ports, request, local, depth, rxq, out>>
    BY <1>3 DEF SendUdp
  <2>2. PortsPlaces' /\ DepthTrue'
    BY <2>1 DEF PortsPlaces, OnePlace, Unopened, DepthTrue, Queued
  <2> QED
    BY <1>3, <2>1, <2>2, SendUdpKeeps DEF PortsTypes
<1>4. CASE SendPorts
  <2>1. UNCHANGED <<table, local, depth, rxq, txq, out, accepted>>
    BY <1>4 DEF SendPorts
  <2> QED
    BY <1>4, <2>1, SendPortsKeeps DEF PortsTypes, Numbered, NothingDropped
<1>5. CASE Forward
  <2>1. UNCHANGED <<table, ports, request, local, txq, out, accepted>>
    BY <1>5 DEF Forward
  <2> QED
    BY <1>5, <2>1, ForwardKeeps DEF PortsTypes, Numbered, NothingDropped
<1>6. ASSUME NEW n \in {0} \cup Slot, Process(n) PROVE PortsInv'
  <2>1. UNCHANGED <<table, ports, accepted>> /\ Transmit
    BY <1>6 DEF Process
  <2> QED
    BY <1>6, <2>1, ProcessKeeps, TransmitKeeps DEF PortsTypes
<1>7. CASE UNCHANGED vars
  BY <1>7 DEF vars, PortsTypes, PortsPlaces, OnePlace, Unopened, DepthTrue, Queued, Numbered, NothingDropped
<1> QED
  BY <1>1, <1>2, <1>3, <1>4, <1>5, <1>6, <1>7 DEF Next

(* wifi_v_process and wifi_v_rx_udp_clear_last keep port_rx_depth equal to *)
(* the datagrams that wait, and a datagram that was queued to go out is    *)
(* queued or gone, once, however the tables of ports come and change --    *)
(* as long as no port is opened again while datagrams for it still wait.   *)
THEOREM QueuesCounted ==
  ASSUME PortsAssumption, ~Reopens
  PROVE  Spec => []QueuesAccounted
<1>1. Init => PortsInv
  BY PortsStart
<1>2. PortsInv /\ [Next]_vars => PortsInv'
  BY PortsStep
<1>3. PortsInv => QueuesAccounted
  BY DEF PortsInv, QueuesAccounted
<1> QED
  BY <1>1, <1>2, <1>3, PTL DEF Spec

-----------------------------------------------------------------------------
(* Segments of a sequence.                                                 *)

IsSegment(q, E, a, b) ==
  /\ q \in Seq(Int) /\ Len(q) = b - a
  /\ \A x \in 1 .. b - a : q[x] = E[a + x]

LEMMA SegmentIs ==
  ASSUME NEW E \in Seq(Int), NEW a \in Nat, NEW b \in Nat, a <= b, b <= Len(E)
  PROVE  /\ IsSegment(SubSeq(E, a + 1, b), E, a, b)
         /\ a = b => SubSeq(E, a + 1, b) = << >>
         /\ SubSeq(E, a + 1, b) = << >> => a = b
<1> DEFINE q == SubSeq(E, a + 1, b)
<1>1. q \in Seq(Int) /\ Len(q) = b - a
  BY SubSeqProperties
<1>2. \A x \in 1 .. b - a : q[x] = E[a + x]
  OBVIOUS
<1> HIDE DEF q
<1>3. IsSegment(q, E, a, b)
  BY <1>1, <1>2 DEF IsSegment
<1>4. q = << >> <=> a = b
  BY <1>1
<1> QED
  BY <1>3, <1>4 DEF q

(* A sequence of the right length and elements is a segment.               *)
LEMMA SegmentMade ==
  ASSUME NEW E \in Seq(Int), NEW a \in Nat, NEW b \in Nat, a <= b, b <= Len(E),
         NEW q, IsSegment(q, E, a, b)
  PROVE  q = SubSeq(E, a + 1, b)
<1> DEFINE r == SubSeq(E, a + 1, b)
<1>1. IsSegment(r, E, a, b)
  BY SegmentIs
<1> HIDE DEF r
<1>2. q \in Seq(Int) /\ r \in Seq(Int) /\ Len(q) = Len(r)
  BY <1>1 DEF IsSegment
<1>3. \A x \in 1 .. Len(q) : q[x] = r[x]
  BY <1>1 DEF IsSegment
<1>4. q = r
  BY <1>2, <1>3, SeqEqual
<1> QED
  BY <1>4 DEF r

(* The head of a segment goes to the end of the one before it.             *)
LEMMA SegmentMoves ==
  ASSUME NEW E \in Seq(Int), NEW i \in Nat, NEW j \in Nat, i < j, j <= Len(E)
  PROVE  /\ Tail(SubSeq(E, i + 1, j)) = SubSeq(E, i + 2, j)
         /\ Append(SubSeq(E, 1, i), Head(SubSeq(E, i + 1, j))) = SubSeq(E, 1, i + 1)
<1> DEFINE s == SubSeq(E, i + 1, j)
           f == SubSeq(E, 0 + 1, i)
           t == SubSeq(E, (i + 1) + 1, j)
           g == SubSeq(E, 0 + 1, i + 1)
<1>1. IsSegment(s, E, i, j)
  BY SegmentIs
<1>2. IsSegment(f, E, 0, i)
  BY SegmentIs
<1>3. f = SubSeq(E, 1, i) /\ t = SubSeq(E, i + 2, j) /\ g = SubSeq(E, 1, i + 1)
  <2>1. (i + 1) + 1 = i + 2 /\ 0 + 1 = 1
    OBVIOUS
  <2> QED
    BY <2>1
<1>4. ASSUME NEW q, IsSegment(q, E, i + 1, j) PROVE q = t
  <2>1. i + 1 \in Nat /\ i + 1 <= j
    OBVIOUS
  <2> QED
    BY <1>4, <2>1, SegmentMade
<1>5. ASSUME NEW q, IsSegment(q, E, 0, i + 1) PROVE q = g
  <2>1. i + 1 \in Nat /\ 0 \in Nat /\ 0 <= i + 1 /\ i + 1 <= Len(E)
    OBVIOUS
  <2> QED
    BY <1>5, <2>1, SegmentMade
<1> HIDE DEF s, f, t, g
<1>6. Tail(s) = t
  <2> DEFINE q == Tail(s)
  <2>1. s \in Seq(Int) /\ Len(s) = j - i /\ Len(s) > 0
    BY <1>1 DEF IsSegment
  <2>2. q \in Seq(Int) /\ Len(q) = j - (i + 1) /\ \A x \in 1 .. Len(q) : q[x] = s[x + 1]
    BY <2>1
  <2> HIDE DEF q
  <2>3. ASSUME NEW x \in 1 .. j - (i + 1) PROVE q[x] = E[(i + 1) + x]
    <3>1. x + 1 \in 1 .. j - i /\ i + (x + 1) = (i + 1) + x
      OBVIOUS
    <3>2. s[x + 1] = E[i + (x + 1)]
      BY <1>1, <3>1 DEF IsSegment
    <3>3. q[x] = s[x + 1]
      BY <2>2
    <3> QED
      BY <3>1, <3>2, <3>3
  <2>4. IsSegment(q, E, i + 1, j)
    BY <2>2, <2>3 DEF IsSegment
  <2> QED
    BY <1>4, <2>4 DEF q
<1>7. Append(f, Head(s)) = g
  <2> DEFINE q == Append(f, Head(s))
  <2>1. Head(s) = E[i + 1] /\ Head(s) \in Int
    BY <1>1 DEF IsSegment
  <2>2. f \in Seq(Int) /\ Len(f) = i /\ \A x \in 1 .. i : f[x] = E[x]
    BY <1>2 DEF IsSegment
  <2>3. /\ q \in Seq(Int) /\ Len(q) = (i + 1) - 0
        /\ q[i + 1] = E[i + 1] /\ \A x \in 1 .. i : q[x] = f[x]
    BY <2>1, <2>2
  <2> HIDE DEF q
  <2>4. ASSUME NEW x \in 1 .. (i + 1) - 0 PROVE q[x] = E[0 + x]
    <3>1. 0 + x = x /\ (x = i + 1 \/ x \in 1 .. i)
      OBVIOUS
    <3> QED
      BY <2>2, <2>3, <3>1
  <2>5. IsSegment(q, E, 0, i + 1)
    BY <2>3, <2>4 DEF IsSegment
  <2> QED
    BY <1>5, <2>5 DEF q
<1> QED
  BY <1>3, <1>6, <1>7 DEF s

-----------------------------------------------------------------------------
(* The pixel driver.  Of the frame, i are sent, those up to the j-th are   *)
(* with the channel that sends, those up to the k-th with the other.       *)

Framed == IF mode = "apa102" THEN 1 ELSE 0
Loaded == current + Framed + (IF trailer THEN 1 ELSE 0)

UnderwayAt(E, i, j, k) ==
  /\ i <= j /\ j <= k /\ k <= Len(E) /\ k = Loaded
  /\ frame = SubSeq(E, 1, i)
  /\ current \in 0 .. count /\ trailer \in BOOLEAN
  /\ trailer => mode = "apa102" /\ current = count
  /\ channel \in [Channels -> Seq(Int)] /\ irq \subseteq Channels
  /\ IF sending = "none" THEN i = Len(E)
     ELSE /\ sending \in Channels \ irq /\ i < j /\ j - i <= perBuf /\ k - j <= perBuf
          /\ channel[sending] = SubSeq(E, i + 1, j)
          /\ channel[Other(sending)] = SubSeq(E, j + 1, k)
          /\ j < k => irq = {} /\ double
          /\ j = k /\ irq = {} => k = Len(E)
  /\ ~double => k = Len(E)
  /\ timer \in Int /\ timer >= Len(E) - i

Underway == \E i, j, k \in Nat : UnderwayAt(Expected, i, j, k)

DriverInv ==
  /\ mode \in Modes \cup {"off"} /\ count \in 0 .. Word - 1 /\ setting \in {Quiet, "mode", "count"}
  /\ perBuf \in {PerBuf[m] : m \in Modes} /\ double \in BOOLEAN /\ clean \in BOOLEAN
  /\ setting # "count" => count \in 1 .. MaxPixels
  /\ ~cut
  /\ clean => setting = Quiet /\ Underway

LEMMA ExpectedIs ==
  ASSUME count \in Nat
  PROVE  /\ Expected \in Seq(Int) /\ Len(Expected) = count + 2 * Framed /\ Framed \in {0, 1}
         /\ \A x \in 1 .. count : Expected[x + Framed] = x - 1
         /\ Framed = 1 => Expected[1] = Header /\ Expected[count + 2] = Trailer
<1> DEFINE all == [i \in 1 .. count |-> i - 1]
<1>1. all \in Seq(Int) /\ Len(all) = count /\ \A x \in 1 .. count : all[x] = x - 1
  OBVIOUS
<1>2. CASE mode = "apa102"
  <2>1. Expected = <<Header>> \o all \o <<Trailer>>
    BY <1>2 DEF Expected
  <2>2. Header \in Int /\ Trailer \in Int /\ <<Header>> \in Seq(Int) /\ <<Trailer>> \in Seq(Int)
    BY DEF Header, Trailer
  <2> HIDE DEF all
  <2>3. /\ <<Header>> \o all \in Seq(Int) /\ Len(<<Header>> \o all) = count + 1
        /\ (<<Header>> \o all)[1] = Header
        /\ \A x \in 1 .. count : (<<Header>> \o all)[x + 1] = x - 1
    BY <1>1, <2>2, ConcatProperties
  <2> DEFINE b == <<Header>> \o all
  <2>4. b \in Seq(Int) /\ Len(b) = count + 1 /\ b[1] = Header /\ \A x \in 1 .. count : b[x + 1] = x - 1
    BY <2>3
  <2> HIDE DEF b
  <2>5. /\ b \o <<Trailer>> \in Seq(Int) /\ Len(b \o <<Trailer>>) = count + 2
        /\ \A x \in 1 .. count + 1 : (b \o <<Trailer>>)[x] = b[x]
        /\ (b \o <<Trailer>>)[count + 2] = Trailer
    BY <2>2, <2>4, ConcatProperties
  <2>6. Expected = b \o <<Trailer>>
    BY <2>1 DEF b
  <2> QED
    BY <1>2, <2>4, <2>5, <2>6 DEF Framed
<1>3. CASE mode # "apa102"
  BY <1>1, <1>3 DEF Expected, Framed
<1> QED
  BY <1>2, <1>3

(* The next pixels from the p-th on, as many as a buffer holds.            *)
LEMMA FillIs ==
  ASSUME DriverAssumption, count \in 0 .. MaxPixels, perBuf \in Nat \ {0}, NEW p \in 0 .. count
  PROVE  \E n \in Nat :
           /\ n <= perBuf /\ p + n <= count /\ (n = 0 <=> p = count)
           /\ Fill(p) = SubSeq(Expected, (p + Framed) + 1, p + Framed + n)
           /\ Fill(p) \in Seq(Int) /\ Len(Fill(p)) = n
<1>1. MaxPixels \in Nat /\ Word \in Nat /\ MaxPixels < Word
  BY DEF DriverAssumption
<1>2. Remaining(p) = count - p
  BY <1>1 DEF Remaining
<1> DEFINE n == IF perBuf > count - p THEN count - p ELSE perBuf
<1>3. n \in Nat /\ n <= perBuf /\ p + n <= count /\ (n = 0 <=> p = count)
  BY <1>1
<1>4. Fill(p) = [x \in 1 .. n |-> p + x - 1]
  BY <1>2 DEF Fill
<1> HIDE DEF n
<1>5. Fill(p) \in Seq(Int) /\ Len(Fill(p)) = n /\ \A x \in 1 .. n : Fill(p)[x] = p + x - 1
  BY <1>3, <1>4
<1>6. /\ Expected \in Seq(Int) /\ Len(Expected) = count + 2 * Framed /\ Framed \in {0, 1}
      /\ \A x \in 1 .. count : Expected[x + Framed] = x - 1
  BY ExpectedIs
<1>7. ASSUME NEW x \in 1 .. n PROVE p + x \in 1 .. count /\ Fill(p)[x] = Expected[(p + x) + Framed]
  <2>1. p + x \in 1 .. count
    BY <1>3
  <2>2. Expected[(p + x) + Framed] = (p + x) - 1
    BY <1>6, <2>1
  <2> QED
    BY <1>5, <2>1, <2>2
<1>8. PICK a \in Nat : a = p + Framed
  BY <1>6
<1>9. a + n <= Len(Expected) /\ \A x \in 1 .. n : Fill(p)[x] = Expected[a + x]
  BY <1>3, <1>6, <1>7, <1>8
<1>10. PICK b \in Nat : b = a + n
  BY <1>3
<1>11. Len(Fill(p)) = b - a /\ \A x \in 1 .. b - a : Fill(p)[x] = Expected[a + x]
  BY <1>3, <1>5, <1>9, <1>10
<1>12. Fill(p) = SubSeq(Expected, a + 1, b)
  <2>1. IsSegment(Fill(p), Expected, a, b)
    BY <1>5, <1>11 DEF IsSegment
  <2>2. Expected \in Seq(Int) /\ a <= b /\ b <= Len(Expected)
    BY <1>3, <1>6, <1>9, <1>10
  <2> QED
    BY <2>1, <2>2, SegmentMade
<1> QED
  BY <1>3, <1>5, <1>6, <1>8, <1>10, <1>12

(* What a step that changes no setting keeps of a frame.                   *)
LEMMA FrameSame ==
  ASSUME mode' = mode, count' = count
  PROVE  Expected' = Expected /\ Framed' = Framed
BY DEF Expected, Framed

LEMMA PerBufIs ==
  ASSUME DriverAssumption, BuffersFit, DriverInv
  PROVE  perBuf \in Nat \ {0} /\ perBuf < Gap /\ Gap \in Nat /\ Watchdog \in Nat
BY DEF DriverAssumption, BuffersFit, DriverInv

LEMMA SmallMod ==
  ASSUME NEW x \in Nat, NEW w \in Nat, x < w
  PROVE  x % w = x
OBVIOUS

(* The interrupt of a channel that has sent its buffer.                    *)
LEMMA DmaKeeps ==
  ASSUME DriverAssumption, BuffersFit, DriverInv, clean, NEW c \in Channels, DmaIsr(c)
  PROVE  Underway'
<1>1. /\ c \in irq /\ irq' = irq \ {c}
      /\ UNCHANGED <<mode, count, setting, perBuf, sending, clean, frame, cut, changes>>
  BY DEF DmaIsr
<1>2. count \in 1 .. MaxPixels /\ MaxPixels \in Nat /\ MaxPixels < Word /\ Word \in Nat
  BY DEF DriverInv, DriverAssumption, Quiet
<1>3. PICK N \in Nat, E \in Seq(Int), d \in {0, 1} : E = Expected /\ N = Len(E) /\ N = count + 2 * d /\ d = Framed
  BY <1>2, ExpectedIs
<1>4. E = Expected' /\ d = Framed'
  BY <1>1, <1>3, FrameSame
<1>5. PICK i \in Nat, j \in Nat, k \in Nat : UnderwayAt(E, i, j, k)
  BY <1>3 DEF DriverInv, Underway
<1>6. /\ i <= j /\ j <= k /\ k <= N /\ k = current + d + (IF trailer THEN 1 ELSE 0)
      /\ frame = SubSeq(E, 1, i)
      /\ current \in 0 .. count /\ trailer \in BOOLEAN
      /\ trailer => mode = "apa102" /\ current = count
      /\ channel \in [Channels -> Seq(Int)] /\ irq \subseteq Channels
      /\ ~double => k = N
      /\ timer \in Int /\ timer >= N - i
  BY <1>3, <1>5 DEF UnderwayAt, Loaded
<1>7. perBuf \in Nat \ {0} /\ perBuf < Gap /\ Gap \in Nat
  BY PerBufIs
<1> DEFINE more == Fill(current)
<1>8. PICK n \in Nat : /\ n <= perBuf /\ current + n <= count /\ (n = 0 <=> current = count)
                        /\ more = SubSeq(E, (current + d) + 1, current + d + n)
                        /\ more \in Seq(Int) /\ Len(more) = n
  <2>1. \A p \in 0 .. count : \E n \in Nat :
           /\ n <= perBuf /\ p + n <= count /\ (n = 0 <=> p = count)
           /\ Fill(p) = SubSeq(Expected, (p + Framed) + 1, p + Framed + n)
           /\ Fill(p) \in Seq(Int) /\ Len(Fill(p)) = n
    BY <1>2, <1>7, FillIs
  <2> QED
    BY <1>3, <1>6, <2>1
<1>9. /\ current' = (current + Len(more)) % Word
      /\ channel' = [channel EXCEPT ![c] = IF more # << >> THEN more
                                           ELSE IF NeedsTrailer THEN <<Trailer>> ELSE << >>]
      /\ trailer' = (trailer \/ (more = << >> /\ NeedsTrailer))
      /\ IF channel'[c] # << >> THEN UNCHANGED <<double, timer>> ELSE double' = FALSE /\ timer' = Gap
  BY DEF DmaIsr
<1> HIDE DEF more
<1>10. (n = 0 <=> more = << >>) /\ current' = current + n
  <2>1. n = 0 <=> more = << >>
    BY <1>8, EmptySeq
  <2>2. current + n \in Nat /\ current + n < Word
    BY <1>2, <1>6, <1>8
  <2> QED
    BY <1>2, <1>8, <1>9, <2>1, <2>2, SmallMod
<1> DEFINE put == IF more # << >> THEN more ELSE IF NeedsTrailer THEN <<Trailer>> ELSE << >>
<1>11. put \in Seq(Int) /\ channel'[c] = put /\ channel' \in [Channels -> Seq(Int)]
       /\ \A x \in Channels \ {c} : channel'[x] = channel[x]
  <2>1. put \in Seq(Int)
    BY <1>8 DEF Trailer
  <2>2. channel' = [channel EXCEPT ![c] = put]
    BY <1>9
  <2> HIDE DEF put
  <2> QED
    BY <1>6, <2>1, <2>2
<1> HIDE DEF put
<1>12. CASE sending = "none"
  <2>1. i = N /\ k = N /\ j = N
    BY <1>3, <1>5, <1>6, <1>12 DEF UnderwayAt
  <2>2. n = 0 /\ ~NeedsTrailer /\ current = count
    <3>1. current = count
      BY <1>2, <1>3, <1>6, <2>1
    <3>2. mode = "apa102" => trailer
      BY <1>2, <1>3, <1>6, <2>1, <3>1 DEF Framed
    <3> QED
      BY <1>8, <3>1, <3>2 DEF NeedsTrailer
  <2>3. put = << >> /\ timer' = Gap /\ double' = FALSE /\ trailer' = trailer /\ current' = current
    BY <1>6, <1>9, <1>10, <1>11, <2>2 DEF put
  <2>4. UnderwayAt(E, N, N, N)'
    <3>1. N = Loaded' /\ frame' = SubSeq(E, 1, N)
      BY <1>1, <1>3, <1>4, <1>6, <2>1, <2>3 DEF Loaded
    <3>2. /\ current' \in 0 .. count' /\ trailer' \in BOOLEAN
          /\ trailer' => mode' = "apa102" /\ current' = count'
      BY <1>1, <1>6, <2>3
    <3>3. channel' \in [Channels -> Seq(Int)] /\ irq' \subseteq Channels /\ sending' = "none"
      BY <1>1, <1>6, <1>11, <1>12
    <3>4. timer' \in Int /\ timer' >= Len(E) - N
      BY <1>3, <1>7, <2>3
    <3>5. (IF sending = "none" THEN N = Len(E)
     ELSE /\ sending \in Channels \ irq /\ N < N /\ N - N <= perBuf /\ N - N <= perBuf
          /\ channel[sending] = SubSeq(E, N + 1, N)
          /\ channel[Other(sending)] = SubSeq(E, N + 1, N)
          /\ N < N => irq = {} /\ double
          /\ N = N /\ irq = {} => N = Len(E))'
      BY <1>3, <3>3
    <3>6. N <= N /\ N <= Len(E) /\ N = Len(E)
      BY <1>3
    <3> QED
      BY <3>1, <3>2, <3>3, <3>4, <3>5, <3>6 DEF UnderwayAt
  <2> QED
    BY <1>3, <1>4, <2>4 DEF Underway
<1>13. CASE sending # "none"
  <2>1. /\ sending \in Channels /\ sending \notin irq /\ i < j /\ j - i <= perBuf /\ k - j <= perBuf
        /\ channel[sending] = SubSeq(E, i + 1, j)
        /\ j = k
    BY <1>1, <1>3, <1>5, <1>6, <1>13 DEF UnderwayAt
  <2>2. c = Other(sending) /\ Other(sending) # sending /\ irq = {c} /\ irq' = {} /\ sending # c
    BY <1>1, <1>6, <2>1 DEF Channels, Other
  <2>3. channel'[sending] = SubSeq(E, i + 1, j)
    BY <1>11, <2>1, <2>2
  <2>4. CASE n > 0
    <3>1. ~trailer /\ k = current + d /\ k < N /\ double
      BY <1>2, <1>3, <1>6, <1>8, <2>4
    <3>2. more # << >> /\ put = more
      BY <1>10, <2>4 DEF put
    <3>3. trailer' = FALSE /\ double' = double /\ timer' = timer
      BY <1>9, <1>11, <3>1, <3>2
    <3>4. PICK m \in Nat : m = k + n
      OBVIOUS
    <3>5. channel'[Other(sending)] = SubSeq(E, k + 1, m)
      BY <1>8, <1>11, <2>2, <3>1, <3>2, <3>4
    <3>6. k <= m /\ m <= N /\ m = current' + d /\ m - k <= perBuf /\ k < m
      BY <1>2, <1>3, <1>6, <1>8, <1>10, <2>4, <3>1, <3>4
    <3>7. UnderwayAt(E, i, j, m)'
      <4>1. m = Loaded' /\ frame' = SubSeq(E, 1, i)
        BY <1>1, <1>3, <1>4, <1>6, <3>3, <3>6 DEF Loaded
      <4>2. /\ current' \in 0 .. count' /\ trailer' \in BOOLEAN
            /\ trailer' => mode' = "apa102" /\ current' = count'
        <5>1. current + n \in 0 .. count
          BY <1>2, <1>6, <1>8
        <5> QED
          BY <1>1, <1>10, <3>3, <5>1
      <4>3. channel' \in [Channels -> Seq(Int)] /\ irq' \subseteq Channels
        BY <1>1, <1>6, <1>11
      <4>4. /\ sending' # "none" /\ sending' \in Channels \ irq' /\ i < j /\ j - i <= perBuf' /\ m - j <= perBuf'
            /\ channel'[sending'] = SubSeq(E, i + 1, j)
            /\ channel'[Other(sending')] = SubSeq(E, j + 1, m)
            /\ irq' = {} /\ double'
        BY <1>1, <1>13, <2>1, <2>2, <2>3, <3>1, <3>3, <3>5, <3>6
      <4>5. timer' \in Int /\ timer' >= Len(E) - i
        BY <1>3, <1>6, <3>3
      <4>6. (IF sending = "none" THEN i = Len(E)
             ELSE /\ sending \in Channels \ irq /\ i < j /\ j - i <= perBuf /\ m - j <= perBuf
                  /\ channel[sending] = SubSeq(E, i + 1, j)
                  /\ channel[Other(sending)] = SubSeq(E, j + 1, m)
                  /\ j < m => irq = {} /\ double
                  /\ j = m /\ irq = {} => m = Len(E))'
        BY <1>3, <2>1, <3>6, <4>4
      <4> QED
        <5>1. i <= j /\ j <= m /\ m <= Len(E) /\ (~double => m = Len(E))'
          BY <1>3, <1>6, <2>1, <3>6, <4>4
        <5> QED
          BY <4>1, <4>2, <4>3, <4>5, <4>6, <5>1 DEF UnderwayAt
    <3> QED
      BY <1>4, <3>7 DEF Underway
  <2>5. CASE n = 0 /\ NeedsTrailer
    <3>1. mode = "apa102" /\ ~trailer /\ d = 1 /\ current = count /\ k = count + 1 /\ N = count + 2 /\ double
      BY <1>2, <1>3, <1>6, <1>8, <2>5 DEF NeedsTrailer, Framed
    <3>2. put = <<Trailer>> /\ put # << >>
      BY <1>10, <2>5 DEF put
    <3>3. trailer' = TRUE /\ double' = double /\ timer' = timer
      BY <1>9, <1>10, <1>11, <2>5, <3>2
    <3>4. SubSeq(E, k + 1, N) = put
      <4>1. E[count + 2] = Trailer
        BY <1>2, <1>3, <3>1, ExpectedIs
      <4>2. Len(put) = N - k /\ \A x \in 1 .. N - k : put[x] = E[k + x]
        BY <1>2, <3>1, <3>2, <4>1
      <4> QED
        <5>1. IsSegment(put, E, k, N)
          BY <1>11, <4>2 DEF IsSegment
        <5>2. E \in Seq(Int) /\ k \in Nat /\ N \in Nat /\ k <= N /\ N <= Len(E)
          BY <1>3, <1>6, <3>1
        <5> QED
          BY <5>1, <5>2, SegmentMade
    <3>5. channel'[Other(sending)] = SubSeq(E, k + 1, N)
      BY <1>11, <2>2, <3>4
    <3>6. UnderwayAt(E, i, j, N)'
      BY <1>1, <1>2, <1>3, <1>4, <1>6, <1>7, <1>10, <1>11, <1>13, <2>1, <2>2, <2>3, <2>5, <3>1, <3>3, <3>5 DEF UnderwayAt, Loaded
    <3> QED
      BY <1>4, <3>6 DEF Underway
  <2>6. CASE n = 0 /\ ~NeedsTrailer
    <3>1. current = count /\ k = N
      BY <1>2, <1>3, <1>6, <1>8, <2>6 DEF NeedsTrailer, Framed
    <3>2. put = << >> /\ double' = FALSE /\ timer' = Gap /\ trailer' = trailer /\ current' = current
      BY <1>6, <1>9, <1>10, <1>11, <2>6 DEF put
    <3>3. channel'[Other(sending)] = SubSeq(E, j + 1, k)
      BY <1>3, <1>6, <1>11, <2>1, <2>2, <3>2, SegmentIs
    <3>4. UnderwayAt(E, i, j, k)'
      <4>1. k = Loaded' /\ frame' = SubSeq(E, 1, i)
        BY <1>1, <1>3, <1>4, <1>6, <3>2 DEF Loaded
      <4>2. /\ current' \in 0 .. count' /\ trailer' \in BOOLEAN
            /\ trailer' => mode' = "apa102" /\ current' = count'
        BY <1>1, <1>6, <3>2
      <4>3. channel' \in [Channels -> Seq(Int)] /\ irq' \subseteq Channels
        BY <1>1, <1>6, <1>11
      <4>4. /\ sending' # "none" /\ sending' \in Channels \ irq' /\ i < j /\ j - i <= perBuf' /\ k - j <= perBuf'
            /\ channel'[sending'] = SubSeq(E, i + 1, j)
            /\ channel'[Other(sending')] = SubSeq(E, j + 1, k)
        BY <1>1, <1>13, <2>1, <2>2, <2>3, <3>3
      <4>5. timer' \in Int /\ timer' >= Len(E) - i
        BY <1>3, <1>7, <2>1, <3>1, <3>2
      <4>6. (IF sending = "none" THEN i = Len(E)
             ELSE /\ sending \in Channels \ irq /\ i < j /\ j - i <= perBuf /\ k - j <= perBuf
                  /\ channel[sending] = SubSeq(E, i + 1, j)
                  /\ channel[Other(sending)] = SubSeq(E, j + 1, k)
                  /\ j < k => irq = {} /\ double
                  /\ j = k /\ irq = {} => k = Len(E))'
        BY <1>3, <1>6, <2>1, <3>1, <4>4
      <4> QED
        BY <1>3, <1>6, <2>1, <3>1, <4>1, <4>2, <4>3, <4>4, <4>5, <4>6 DEF UnderwayAt
    <3> QED
      BY <1>4, <3>4 DEF Underway
  <2> QED
    BY <2>4, <2>5, <2>6
<1> QED
  BY <1>12, <1>13

(* A pixel is sent.                                                        *)
LEMMA TickKeeps ==
  ASSUME DriverAssumption, BuffersFit, DriverInv, clean, Tick
  PROVE  Underway'
<1>1. /\ ~Urgent /\ (sending # "none" \/ timer > 0)
      /\ timer' = IF timer > 0 THEN timer - 1 ELSE timer
      /\ SendNext
      /\ UNCHANGED <<mode, count, setting, perBuf, current, trailer, double, clean, cut, changes>>
  BY DEF Tick
<1>2. count \in 1 .. MaxPixels /\ MaxPixels \in Nat /\ MaxPixels < Word /\ Word \in Nat
  BY DEF DriverInv, DriverAssumption, Quiet
<1>3. PICK N \in Nat, E \in Seq(Int), d \in {0, 1} : E = Expected /\ N = Len(E) /\ N = count + 2 * d /\ d = Framed
  BY <1>2, ExpectedIs
<1>4. E = Expected' /\ d = Framed'
  BY <1>1, <1>3, FrameSame
<1>5. PICK i \in Nat, j \in Nat, k \in Nat : UnderwayAt(E, i, j, k)
  BY <1>3 DEF DriverInv, Underway
<1>6. /\ i <= j /\ j <= k /\ k <= N /\ k = Loaded
      /\ frame = SubSeq(E, 1, i)
      /\ current \in 0 .. count /\ trailer \in BOOLEAN
      /\ trailer => mode = "apa102" /\ current = count
      /\ channel \in [Channels -> Seq(Int)] /\ irq \subseteq Channels
      /\ ~double => k = N
      /\ timer \in Int /\ timer >= N - i
  BY <1>3, <1>5 DEF UnderwayAt
<1>7. k = Loaded' /\ (~double => k = N)'
  BY <1>1, <1>3, <1>4, <1>6 DEF Loaded
<1>8. (current \in 0 .. count /\ trailer \in BOOLEAN /\ (trailer => mode = "apa102" /\ current = count))'
  BY <1>1, <1>6
<1>9. CASE sending = "none"
  <2>1. i = N /\ j = N /\ k = N
    BY <1>3, <1>5, <1>6, <1>9 DEF UnderwayAt
  <2>2. UNCHANGED <<channel, sending, irq, frame>> /\ timer > 0 /\ timer' = timer - 1
    BY <1>1, <1>9 DEF SendNext
  <2>3. (channel \in [Channels -> Seq(Int)] /\ irq \subseteq Channels /\ frame = SubSeq(E, 1, N) /\ sending = "none")'
    BY <1>6, <1>9, <2>1, <2>2
  <2>4. (timer \in Int /\ timer >= Len(E) - N)'
    BY <1>3, <1>6, <2>2
  <2>5. (N <= N /\ N <= Len(E) /\ N = Len(E) /\ N = Loaded)'
    BY <1>3, <1>7, <2>1
  <2>6. UnderwayAt(E, N, N, N)'
    BY <1>8, <2>3, <2>4, <2>5 DEF UnderwayAt
  <2> QED
    BY <1>3, <1>4, <2>6 DEF Underway
<1>10. CASE sending # "none"
  <2>1. /\ sending \in Channels /\ sending \notin irq /\ i < j /\ j - i <= perBuf /\ k - j <= perBuf
        /\ channel[sending] = SubSeq(E, i + 1, j)
        /\ channel[Other(sending)] = SubSeq(E, j + 1, k)
        /\ j < k => irq = {} /\ double
        /\ j = k /\ irq = {} => k = N
    BY <1>3, <1>5, <1>6, <1>10 DEF UnderwayAt
  <2>2. Other(sending) \in Channels /\ Other(sending) # sending /\ Other(sending) # "none"
        /\ Other(Other(sending)) = sending /\ Channels = {sending, Other(sending)}
    BY <2>1 DEF Channels, Other
  <2>3. PICK a \in Nat : a = i + 1
    OBVIOUS
  <2>4. /\ channel[sending] \in Seq(Int) /\ Len(channel[sending]) = j - i /\ channel[sending] # << >>
        /\ Tail(channel[sending]) = SubSeq(E, a + 1, j) /\ Tail(channel[sending]) \in Seq(Int)
        /\ frame' = SubSeq(E, 1, a)
    <3>0. i <= j /\ i < j /\ j <= Len(E)
      BY <1>3, <1>6, <2>1
    <3>1. /\ channel[sending] \in Seq(Int) /\ Len(channel[sending]) = j - i /\ channel[sending] # << >>
      <4>1. SubSeq(E, i + 1, j) \in Seq(Int) /\ Len(SubSeq(E, i + 1, j)) = j - i /\ SubSeq(E, i + 1, j) # << >>
        <5>1. IsSegment(SubSeq(E, i + 1, j), E, i, j)
          BY <3>0, SegmentIs
        <5>2. SubSeq(E, i + 1, j) = << >> => i = j
          BY <3>0, SegmentIs
        <5>3. SubSeq(E, i + 1, j) \in Seq(Int) /\ Len(SubSeq(E, i + 1, j)) = j - i
          BY <5>1 DEF IsSegment
        <5> QED
          BY <3>0, <5>2, <5>3
      <4> QED
        BY <2>1, <4>1
    <3>2. /\ Tail(channel[sending]) = SubSeq(E, i + 2, j)
          /\ Append(frame, Head(channel[sending])) = SubSeq(E, 1, i + 1)
      <4>1. /\ Tail(SubSeq(E, i + 1, j)) = SubSeq(E, i + 2, j)
            /\ Append(SubSeq(E, 1, i), Head(SubSeq(E, i + 1, j))) = SubSeq(E, 1, i + 1)
        BY <3>0, SegmentMoves
      <4> QED
        BY <1>6, <2>1, <4>1
    <3>3. frame' = Append(frame, Head(channel[sending]))
      BY <1>1, <1>10 DEF SendNext
    <3>4. Tail(channel[sending]) \in Seq(Int)
      BY <3>1
    <3>5. a + 1 = i + 2
      BY <2>3
    <3> QED
      BY <2>3, <3>1, <3>2, <3>3, <3>4, <3>5
  <2>5. /\ channel' \in [Channels -> Seq(Int)]
        /\ channel'[sending] = SubSeq(E, a + 1, j) /\ channel'[Other(sending)] = SubSeq(E, j + 1, k)
    <3>1. channel' = [channel EXCEPT ![sending] = Tail(@)]
      BY <1>1, <1>10 DEF SendNext
    <3> QED
      BY <1>6, <2>1, <2>2, <2>4, <3>1
  <2>6. timer' \in Int /\ timer' >= N - a
    BY <1>1, <1>6, <2>1, <2>3
  <2>7. CASE j - i > 1
    <3>1. sending' = sending /\ irq' = irq
      BY <1>1, <1>10, <2>4, <2>7 DEF SendNext
    <3>2. (sending \in Channels \ irq /\ irq \subseteq Channels /\ sending # "none")'
      BY <1>6, <1>10, <2>1, <3>1
    <3>3. a < j /\ j - a <= perBuf' /\ k - j <= perBuf'
      BY <1>1, <1>2, <1>7, <2>1, <2>3, <2>7, PerBufIs
    <3>4. (IF sending = "none" THEN a = Len(E)
             ELSE /\ sending \in Channels \ irq /\ a < j /\ j - a <= perBuf /\ k - j <= perBuf
                  /\ channel[sending] = SubSeq(E, a + 1, j)
                  /\ channel[Other(sending)] = SubSeq(E, j + 1, k)
                  /\ j < k => irq = {} /\ double
                  /\ j = k /\ irq = {} => k = Len(E))'
      BY <1>1, <1>3, <2>1, <2>5, <3>1, <3>2, <3>3
    <3>5. (a <= j /\ j <= k /\ k <= Len(E) /\ (~double => k = Len(E)) /\ timer \in Int /\ timer >= Len(E) - a)'
      BY <1>3, <1>6, <1>7, <2>6, <3>3
    <3>6. UnderwayAt(E, a, j, k)'
      BY <1>7, <1>8, <2>4, <2>5, <3>2, <3>4, <3>5 DEF UnderwayAt
    <3> QED
      BY <1>4, <3>6 DEF Underway
  <2>8. CASE j - i = 1
    <3>1. irq = {} /\ a = j
      <4>1. a = j
        BY <2>3, <2>8
      <4>2. Len(channel[sending]) <= 1
        BY <2>4, <2>8
      <4>3. irq = {}
        BY <1>1, <4>2 DEF Urgent
      <4> QED
        BY <4>1, <4>3
    <3>2. irq' = {sending}
          /\ sending' = IF double /\ channel[Other(sending)] # << >> THEN Other(sending) ELSE "none"
      BY <1>1, <1>10, <2>4, <2>8, <3>1 DEF SendNext
    <3>3. channel[Other(sending)] = << >> <=> j = k
      <4>1. j <= k /\ k <= Len(E)
        BY <1>3, <1>6
      <4>2. SubSeq(E, j + 1, k) = << >> <=> j = k
        BY <4>1, SegmentIs
      <4> QED
        BY <2>1, <4>2
    <3>4. CASE j = k
      <4>1. sending' = "none" /\ k = N /\ a = N
        BY <2>1, <3>1, <3>2, <3>3, <3>4
      <4>2. (irq \subseteq Channels /\ sending = "none" /\ a <= k /\ k <= k /\ k <= Len(E) /\ a = Len(E) /\ k = Len(E)
             /\ timer \in Int /\ timer >= Len(E) - a)'
        BY <1>3, <1>6, <2>1, <2>6, <3>2, <4>1
      <4>3. UnderwayAt(E, a, k, k)'
        BY <1>7, <1>8, <2>4, <2>5, <4>2 DEF UnderwayAt
      <4> QED
        BY <1>4, <4>3 DEF Underway
    <3>5. CASE j < k
      <4>1. sending' = Other(sending) /\ double'
        BY <1>1, <2>1, <3>2, <3>3, <3>5
      <4>2. a < k /\ k - a <= perBuf' /\ k - k <= perBuf'
        BY <1>1, <2>1, <3>1, <3>5, PerBufIs
      <4>3. SubSeq(E, k + 1, k) = << >> /\ SubSeq(E, a + 1, j) = << >>
        BY <1>3, <1>6, <3>1, SegmentIs
      <4>4. channel'[sending'] = SubSeq(E, a + 1, k) /\ channel'[Other(sending')] = SubSeq(E, k + 1, k)
        BY <2>2, <2>5, <3>1, <4>1, <4>3
      <4>5. (sending \in Channels \ irq /\ irq \subseteq Channels /\ sending # "none" /\ irq # {})'
        BY <2>1, <2>2, <3>2, <4>1
      <4>6. (IF sending = "none" THEN a = Len(E)
             ELSE /\ sending \in Channels \ irq /\ a < k /\ k - a <= perBuf /\ k - k <= perBuf
                  /\ channel[sending] = SubSeq(E, a + 1, k)
                  /\ channel[Other(sending)] = SubSeq(E, k + 1, k)
                  /\ k < k => irq = {} /\ double
                  /\ k = k /\ irq = {} => k = Len(E))'
        BY <4>2, <4>4, <4>5
      <4>7. (a <= k /\ k <= k /\ k <= Len(E) /\ (~double => k = Len(E)) /\ timer \in Int /\ timer >= Len(E) - a)'
        BY <1>3, <1>6, <2>6, <4>1, <4>2
      <4>8. UnderwayAt(E, a, k, k)'
        BY <1>7, <1>8, <2>4, <2>5, <4>5, <4>6, <4>7 DEF UnderwayAt
      <4> QED
        BY <1>4, <4>8 DEF Underway
    <3> QED
      BY <1>6, <3>4, <3>5
  <2> QED
    BY <2>1, <2>7, <2>8
<1> QED
  BY <1>9, <1>10

(* A frame is begun: the channels hold its first segments.                 *)
LEMMA StartIs ==
  ASSUME DriverAssumption, BuffersFit, DriverInv, setting = Quiet, ~double, StartFrame,
         timer' = Watchdog, irq' = {}, UNCHANGED <<mode, count, setting, perBuf>>
  PROVE  Underway'
<1>1. count \in 1 .. MaxPixels /\ MaxPixels \in Nat /\ MaxPixels < Word /\ Word \in Nat
  BY DEF DriverInv, DriverAssumption, Quiet
<1>2. PICK N \in Nat, E \in Seq(Int), d \in {0, 1} :
        /\ E = Expected /\ N = Len(E) /\ N = count + 2 * d /\ d = Framed
        /\ d = 1 => E[1] = Header
  BY <1>1, ExpectedIs
<1>3. E = Expected' /\ d = Framed'
  BY <1>2, FrameSame
<1>4. perBuf \in Nat \ {0} /\ perBuf < Gap /\ Gap \in Nat /\ Watchdog \in Nat /\ MaxPixels + Gap < Watchdog
  BY PerBufIs DEF DriverAssumption
<1>5. \A p \in 0 .. count : \E n \in Nat :
         /\ n <= perBuf /\ p + n <= count /\ (n = 0 <=> p = count)
         /\ Fill(p) = SubSeq(E, (p + d) + 1, p + d + n)
         /\ Fill(p) \in Seq(Int) /\ Len(Fill(p)) = n
  <2>1. \A p \in 0 .. count : \E n \in Nat :
           /\ n <= perBuf /\ p + n <= count /\ (n = 0 <=> p = count)
           /\ Fill(p) = SubSeq(Expected, (p + Framed) + 1, p + Framed + n)
           /\ Fill(p) \in Seq(Int) /\ Len(Fill(p)) = n
    BY <1>1, <1>4, FillIs
  <2> QED
    BY <1>2, <2>1
<1> DEFINE first == IF mode = "apa102" THEN <<Header>> ELSE Fill(0)
           later  == IF mode = "apa102" THEN 0 ELSE Len(first)
<1>6. /\ trailer' = FALSE /\ channel' = [A |-> first, B |-> Fill(later)]
      /\ current' = later + Len(channel'["B"]) /\ double' = (double \/ channel'["B"] # << >>)
      /\ sending' = "A" /\ frame' = << >>
  BY DEF StartFrame, TrailerReset
<1>7. PICK j \in Nat : /\ first = SubSeq(E, 0 + 1, j) /\ first \in Seq(Int) /\ later \in 0 .. count
                        /\ j = later + d /\ 0 < j /\ j <= perBuf
  <2>1. CASE mode = "apa102"
    <3>1. d = 1 /\ first = <<Header>> /\ later = 0 /\ E[0 + 1] = Header
      BY <1>2, <2>1 DEF Framed
    <3>2. first \in Seq(Int) /\ Len(first) = 1 - 0 /\ \A x \in 1 .. 1 - 0 : first[x] = E[0 + x]
      BY <3>1 DEF Header
    <3>3. 0 <= 1 /\ 1 <= Len(E) /\ 1 \in Nat /\ 0 \in Nat
      BY <1>1, <1>2
    <3> HIDE DEF first, later
    <3>4. first = SubSeq(E, 0 + 1, 1)
      <4>1. IsSegment(first, E, 0, 1)
        BY <3>2 DEF IsSegment
      <4> QED
        BY <3>3, <4>1, SegmentMade
    <3> QED
      BY <1>1, <1>4, <3>1, <3>2, <3>4
  <2>2. CASE mode # "apa102"
    <3>1. d = 0 /\ first = Fill(0) /\ later = Len(first)
      BY <1>2, <2>2 DEF Framed
    <3>2. PICK n \in Nat : /\ n <= perBuf /\ 0 + n <= count /\ (n = 0 <=> 0 = count)
                           /\ Fill(0) = SubSeq(E, (0 + d) + 1, 0 + d + n)
                           /\ Fill(0) \in Seq(Int) /\ Len(Fill(0)) = n
      BY <1>1, <1>5
    <3> HIDE DEF first, later
    <3>3. first = SubSeq(E, 0 + 1, n) /\ later = n
      BY <3>1, <3>2
    <3> QED
      BY <1>1, <3>1, <3>2, <3>3
  <2> QED
    BY <2>1, <2>2
<1> HIDE DEF first, later
<1>8. PICK n \in Nat : /\ n <= perBuf /\ later + n <= count /\ (n = 0 <=> later = count)
                       /\ Fill(later) = SubSeq(E, (later + d) + 1, later + d + n)
                       /\ Fill(later) \in Seq(Int) /\ Len(Fill(later)) = n
  BY <1>5, <1>7
<1>9. PICK k \in Nat : k = j + n
  OBVIOUS
<1>10. j <= k /\ k <= N /\ k - j <= perBuf /\ (j = k => k = N) /\ k = later + n + d
  <2>1. n = 0 => d = 0
    BY <1>1, <1>2, <1>6, <1>7, <1>8 DEF Framed, later
  <2> QED
    BY <1>1, <1>2, <1>7, <1>8, <1>9, <2>1
<1>11. Fill(later) = SubSeq(E, j + 1, k)
  BY <1>7, <1>8, <1>9
<1>12. /\ channel' \in [Channels -> Seq(Int)] /\ channel'["A"] = SubSeq(E, 0 + 1, j)
       /\ channel'["B"] = SubSeq(E, j + 1, k) /\ channel'["B"] = Fill(later)
  <2>1. channel'["A"] = first /\ channel'["B"] = Fill(later) /\ DOMAIN channel' = Channels
    BY <1>6 DEF Channels
  <2>2. channel' = [x \in Channels |-> channel'[x]]
    BY <1>6 DEF Channels
  <2>3. \A x \in Channels : channel'[x] \in Seq(Int)
    BY <1>7, <1>8, <2>1 DEF Channels
  <2> QED
    BY <1>7, <1>11, <2>1, <2>2, <2>3
<1>13. /\ current' = later + n /\ (double' <=> n # 0)
  <2>1. Fill(later) = << >> <=> n = 0
    BY <1>8, EmptySeq
  <2> QED
    BY <1>6, <1>8, <1>12, <2>1
<1>14. (current \in 0 .. count /\ trailer \in BOOLEAN /\ (trailer => mode = "apa102" /\ current = count) /\ k = Loaded)'
  <2>1. trailer' = FALSE /\ current' = later + n /\ Framed' = d
    BY <1>3, <1>6, <1>13
  <2>2. later + n \in 0 .. count /\ k = (later + n) + d + 0
    BY <1>1, <1>2, <1>7, <1>8, <1>10
  <2> QED
    BY <2>1, <2>2 DEF Loaded
<1>15. (sending \in Channels \ irq /\ irq \subseteq Channels /\ sending # "none" /\ Other(sending) = "B" /\ sending = "A" /\ irq = {})'
  BY <1>6 DEF Channels, Other
<1>16. (IF sending = "none" THEN 0 = Len(E)
        ELSE /\ sending \in Channels \ irq /\ 0 < j /\ j - 0 <= perBuf /\ k - j <= perBuf
             /\ channel[sending] = SubSeq(E, 0 + 1, j)
             /\ channel[Other(sending)] = SubSeq(E, j + 1, k)
             /\ j < k => irq = {} /\ double
             /\ j = k /\ irq = {} => k = Len(E))'
  <2>1. 0 < j /\ j - 0 <= perBuf' /\ k - j <= perBuf'
    BY <1>4, <1>7, <1>10
  <2>2. j < k => double'
    BY <1>9, <1>13
  <2>3. j = k => k = Len(E)
    BY <1>2, <1>10
  <2> QED
    BY <1>12, <1>15, <2>1, <2>2, <2>3
<1>17. (0 <= j /\ j <= k /\ k <= Len(E) /\ (~double => k = Len(E)) /\ timer \in Int /\ timer >= Len(E) - 0)'
  BY <1>1, <1>2, <1>4, <1>7, <1>9, <1>10, <1>13
<1>18. frame' = SubSeq(E, 1, 0)
  BY <1>6
<1>19. UnderwayAt(E, 0, j, k)'
  BY <1>12, <1>14, <1>15, <1>16, <1>17, <1>18 DEF UnderwayAt
<1> QED
  BY <1>3, <1>19 DEF Underway

(* When the timer goes off the frame is complete.                          *)
LEMMA TimerEnds ==
  ASSUME DriverAssumption, DriverInv, clean, timer = 0
  PROVE  frame = Expected
<1>1. count \in Nat
  BY DEF DriverInv
<1>2. Expected \in Seq(Int)
  BY <1>1, ExpectedIs
<1>3. PICK E \in Seq(Int) : E = Expected
  BY <1>2
<1>4. PICK i \in Nat, j \in Nat, k \in Nat : UnderwayAt(E, i, j, k)
  BY <1>3 DEF DriverInv, Underway
<1>5. i = Len(E) /\ frame = SubSeq(E, 1, i)
  BY <1>4 DEF UnderwayAt
<1>6. SubSeq(E, 1, Len(E)) = E
  OBVIOUS
<1> QED
  BY <1>3, <1>5, <1>6

LEMMA TimerKeeps ==
  ASSUME DriverAssumption, BuffersFit, DriverInv, TimerIsr
  PROVE  ~cut' /\ (clean' => Underway') /\ clean' \in BOOLEAN /\ double' \in BOOLEAN
<1>1. timer = 0 /\ irq = {} /\ timer' = Watchdog /\ UNCHANGED <<mode, count, setting, perBuf, irq, changes>>
  BY DEF TimerIsr, Rearmed
<1>2. CASE Idle
  <2>1. UNCHANGED <<trailer, channel, current, double, sending, clean, frame, cut>>
    BY <1>2 DEF TimerIsr
  <2>2. ASSUME clean PROVE Underway'
    <3>1. PICK E \in Seq(Int) : E = Expected
      BY ExpectedIs DEF DriverInv
    <3>2. PICK i \in Nat, j \in Nat, k \in Nat : UnderwayAt(E, i, j, k)
      BY <2>2, <3>1 DEF DriverInv, Underway
    <3>3. E = Expected' /\ Framed' = Framed
      BY <1>1, <3>1, FrameSame
    <3>4. Loaded' = Loaded
      BY <2>1, <3>3 DEF Loaded
    <3>5. timer >= Len(E) - i /\ Watchdog \in Nat
      BY <3>2 DEF UnderwayAt, DriverAssumption
    <3>6. (timer \in Int /\ timer >= Len(E) - i)'
      BY <1>1, <3>5
    <3>7. UnderwayAt(E, i, j, k)'
      BY <1>1, <2>1, <3>2, <3>4, <3>6 DEF UnderwayAt
    <3> QED
      BY <3>3, <3>7 DEF Underway
  <2> QED
    BY <2>1, <2>2 DEF DriverInv
<1>3. CASE ~Idle
  <2>1. StartFrame
    BY <1>3 DEF TimerIsr
  <2>2. ~cut'
    <3>1. clean => frame = Expected
      BY <1>1, TimerEnds
    <3> QED
      BY <2>1, <3>1 DEF StartFrame, DriverInv
  <2>3. clean' = (setting = Quiet /\ ~double)
    BY <2>1 DEF StartFrame
  <2>4. clean' => Underway'
    BY <1>1, <2>1, <2>3, StartIs
  <2>5. double' \in BOOLEAN
    BY <2>1 DEF StartFrame, DriverInv
  <2> QED
    BY <2>2, <2>3, <2>4, <2>5
<1> QED
  BY <1>2, <1>3

LEMMA DriverStep ==
  ASSUME DriverAssumption, BuffersFit, DriverInv, [DriverNext]_driverVars
  PROVE  DriverInv'
<1>1. CASE UNCHANGED driverVars
  <2>1. UNCHANGED <<mode, count, setting, perBuf, current, trailer, channel, sending, double, irq, timer, clean, frame, cut>>
    BY <1>1 DEF driverVars, driver
  <2>2. ASSUME Underway PROVE Underway'
    <3>1. Expected' = Expected /\ Loaded' = Loaded
      BY <2>1, FrameSame DEF Loaded
    <3>2. ASSUME NEW E, NEW i \in Nat, NEW j \in Nat, NEW k \in Nat, UnderwayAt(E, i, j, k) PROVE UnderwayAt(E, i, j, k)'
      BY <2>1, <3>1, <3>2 DEF UnderwayAt
    <3>3. PICK E : E = Expected
      OBVIOUS
    <3> QED
      BY <2>2, <3>1, <3>2, <3>3 DEF Underway
  <2> QED
    BY <2>1, <2>2 DEF DriverInv
<1>2. CASE TimerIsr
  <2>1. UNCHANGED <<mode, count, setting, perBuf>> /\ (clean' => setting = Quiet)
    BY <1>2 DEF TimerIsr, StartFrame, DriverInv
  <2> QED
    BY <1>2, <2>1, TimerKeeps DEF DriverInv
<1>3. ASSUME NEW c \in Channels, DmaIsr(c) PROVE DriverInv'
  <2>1. UNCHANGED <<mode, count, setting, perBuf, clean, cut>> /\ double' \in BOOLEAN
    BY <1>3 DEF DmaIsr, DriverInv
  <2>2. clean => Underway'
    BY <1>3, DmaKeeps
  <2> QED
    BY <2>1, <2>2 DEF DriverInv
<1>4. CASE Tick
  <2>1. UNCHANGED <<mode, count, setting, perBuf, double, clean, cut>>
    BY <1>4 DEF Tick
  <2>2. clean => Underway'
    BY <1>4, TickKeeps
  <2> QED
    BY <2>1, <2>2 DEF DriverInv
<1>5. ASSUME NEW m \in Modes \cup {"off"}, SetMode(m) PROVE DriverInv'
  BY <1>5 DEF SetMode, Change, driver, DriverInv, Quiet
<1>6. ASSUME NEW n \in Counts, SetCount(n) PROVE DriverInv'
  <2>1. n \in 0 .. Word - 1
    BY DEF DriverAssumption
  <2> QED
    BY <1>6, <2>1 DEF SetCount, Change, driver, DriverInv, Quiet
<1>7. CASE CheckCount
  <2>1. MaxPixels \in Nat \ {0} /\ Word \in Nat /\ MaxPixels < Word
    BY DEF DriverAssumption
  <2>2. count' \in 1 .. MaxPixels /\ count' \in 0 .. Word - 1
    BY <1>7, <2>1 DEF CheckCount, DriverInv
  <2> QED
    BY <1>7, <2>2 DEF CheckCount, driver, DriverInv, Quiet
<1>8. CASE InitDriver
  <2>1. setting = "mode" /\ setting' = Quiet /\ clean' = FALSE /\ UNCHANGED <<mode, count, double, cut>>
    BY <1>8 DEF InitDriver
  <2>2. perBuf' \in {PerBuf[m] : m \in Modes}
    <3>1. CASE mode = "off"
      BY <1>8, <3>1 DEF InitDriver, Reset, DriverInv
    <3>2. CASE mode # "off"
      BY <1>8, <3>2 DEF InitDriver, Reset, DriverInv
    <3> QED
      BY <3>1, <3>2
  <2> QED
    BY <2>1, <2>2 DEF DriverInv, Quiet
<1> QED
  BY <1>1, <1>2, <1>3, <1>4, <1>5, <1>6, <1>7, <1>8 DEF DriverNext, Interrupt, Handler

LEMMA DriverSound ==
  ASSUME DriverAssumption, DriverInv
  PROVE  FramesWhole
<1>1. ASSUME clean PROVE IsPrefix(frame, Expected)
  <2>1. PICK E \in Seq(Int) : E = Expected
    BY ExpectedIs DEF DriverInv
  <2>2. PICK i \in Nat, j \in Nat, k \in Nat : UnderwayAt(E, i, j, k)
    BY <1>1, <2>1 DEF DriverInv, Underway
  <2>3. i <= Len(E) /\ frame = SubSeq(E, 1, i)
    BY <2>2 DEF UnderwayAt
  <2>4. Len(frame) = i /\ Len(frame) <= Len(E) /\ SubSeq(frame, 1, Len(frame)) = SubSeq(E, 1, Len(frame))
    BY <2>3
  <2> QED
    BY <2>1, <2>4 DEF IsPrefix
<1> QED
  BY <1>1 DEF DriverInv, FramesWhole

(* A frame begun with settings that are whole sends each pixel once and in *)
(* order (StartFrame, DmaIsr, SendNext), however late the interrupts of    *)
(* the DMA are, and the timer never cuts one short: for every size of the  *)
(* strip and of the buffers that fits the gap between two frames.          *)
THEOREM FramesAreWhole ==
  ASSUME DriverAssumption, BuffersFit
  PROVE  DriverSpec => []FramesWhole
<1>1. DriverInit => DriverInv
  <2> SUFFICES ASSUME DriverInit PROVE DriverInv
    OBVIOUS
  <2>1. MaxPixels \in Nat \ {0} /\ Word \in Nat /\ MaxPixels < Word
    BY DEF DriverAssumption
  <2>2. /\ mode \in Modes /\ count = MaxPixels /\ setting = Quiet /\ perBuf = PerBuf[mode]
        /\ double = FALSE /\ clean = FALSE /\ cut = FALSE
    BY DEF DriverInit
  <2>3. count \in 0 .. Word - 1 /\ count \in 1 .. MaxPixels
    BY <2>1, <2>2
  <2>4. perBuf \in {PerBuf[m] : m \in Modes}
    BY <2>2
  <2> QED
    BY <2>2, <2>3, <2>4 DEF DriverInv, Quiet
<1>2. DriverInv /\ [DriverNext]_driverVars => DriverInv'
  BY DriverStep
<1>3. DriverInv => FramesWhole
  BY DriverSound
<1> QED
  BY <1>1, <1>2, <1>3, PTL DEF DriverSpec

-----------------------------------------------------------------------------
(* The loader.  The messages come one by one: what holds after all of      *)
(* them is shown for the first after which it would not.                   *)

(* A set of numbers has a least one.                                       *)
LEMMA LeastOf ==
  ASSUME NEW K \in SUBSET Nat, K # {}
  PROVE  \E m \in K : \A k \in K : m <= k
<1>1. PICK n \in Nat : n \in K
  OBVIOUS
<1> DEFINE N == 0 .. n
           T == {0 .. k : k \in K \cap N}
<1>2. IsFiniteSet(N)
  BY FS_Interval
<1>3. IsWellFoundedOn(StrictSubsetOrdering(N), FiniteSubsetsOf(N))
  BY FS_StrictSubsetOrderingWellFounded
<1>4. \A k \in K \cap N : 0 .. k \in SUBSET N /\ IsFiniteSet(0 .. k)
  BY FS_Interval
<1>5. T \subseteq FiniteSubsetsOf(N)
  BY <1>4 DEF FiniteSubsetsOf
<1>6. 0 .. n \in T
  BY <1>1
<1> HIDE DEF T, N
<1>7. PICK x \in T : \A y \in T : ~(<<y, x>> \in StrictSubsetOrdering(N))
  BY <1>3, <1>5, <1>6, WFMin
<1>8. PICK m \in K \cap N : x = 0 .. m
  BY DEF T
<1>9. ASSUME NEW k \in K, ~(m <= k) PROVE FALSE
  <2>1. k \in K \cap N /\ m \in Nat /\ k \in Nat
    BY <1>8, <1>9 DEF N
  <2>2. 0 .. k \in T
    BY <2>1 DEF T
  <2>3. 0 .. k \subseteq 0 .. m /\ 0 .. k # 0 .. m
    BY <1>9, <2>1
  <2>4. 0 .. k \in SUBSET N /\ 0 .. m \in SUBSET N
    BY <1>8, <2>1 DEF N
  <2>5. <<0 .. k, 0 .. m>> \in StrictSubsetOrdering(N)
    BY <2>3, <2>4 DEF StrictSubsetOrdering
  <2> QED
    BY <1>7, <1>8, <2>2, <2>5
<1> QED
  BY <1>8, <1>9

(* The runner after each of the messages.                                  *)
Course(r, p, n, lost, c) ==
  /\ r[0] = Now
  /\ \A k \in 1 .. n : r[k] = IF k \in lost THEN r[k - 1] ELSE Received(r[k - 1], Messages(p)[k], c)

LEMMA AfterIs ==
  ASSUME NEW p, NEW n \in Nat, NEW lost, NEW c
  PROVE  \E r : Course(r, p, n, lost, c) /\ After(p, n, lost, c) = r[n]
<1> DEFINE Goes(r, m) ==
      r = [k \in 0 .. m |-> IF k = 0 THEN Now
                            ELSE IF k \in lost THEN r[k - 1] ELSE Received(r[k - 1], Messages(p)[k], c)]
           K == {m \in Nat : ~\E r : Goes(r, m)}
<1>1. K = {}
  <2> SUFFICES ASSUME K # {} PROVE FALSE
    OBVIOUS
  <2>1. PICK m \in K : \A k \in K : m <= k
    <3> K \in SUBSET Nat
      OBVIOUS
    <3> HIDE DEF K
    <3> QED
      BY LeastOf
  <2>2. CASE m = 0
    <3> DEFINE f == [k \in 0 .. 0 |-> Now]
    <3>1. Goes(f, 0)
      OBVIOUS
    <3> QED
      BY <2>1, <2>2, <3>1
  <2>3. CASE m # 0
    <3>1. m \in Nat /\ m - 1 \in Nat /\ m - 1 \notin K
      BY <2>1, <2>3
    <3>2. PICK f : Goes(f, m - 1)
      BY <3>1
    <3> DEFINE g == [k \in 0 .. m |-> IF k < m THEN f[k]
                       ELSE IF m \in lost THEN f[m - 1] ELSE Received(f[m - 1], Messages(p)[m], c)]
    <3>3. \A k \in 0 .. m : g[k] = IF k = 0 THEN Now
                     ELSE IF k \in lost THEN g[k - 1] ELSE Received(g[k - 1], Messages(p)[k], c)
      <4> SUFFICES ASSUME NEW k \in 0 .. m
                   PROVE g[k] = IF k = 0 THEN Now
                     ELSE IF k \in lost THEN g[k - 1] ELSE Received(g[k - 1], Messages(p)[k], c)
        OBVIOUS
      <4>1. CASE k < m
        <5>1. f[k] = IF k = 0 THEN Now
                     ELSE IF k \in lost THEN f[k - 1] ELSE Received(f[k - 1], Messages(p)[k], c)
          BY <3>1, <3>2, <4>1
        <5>2. k # 0 => g[k - 1] = f[k - 1]
          BY <3>1, <4>1
        <5> QED
          BY <3>1, <4>1, <5>1, <5>2
      <4>2. CASE k = m
        <5>1. g[k - 1] = f[k - 1]
          BY <3>1, <4>2
        <5> QED
          BY <3>1, <4>2, <5>1, <2>3
      <4> QED
        BY <3>1, <4>1, <4>2
    <3>4. g = [k \in 0 .. m |-> g[k]]
      OBVIOUS
    <3> HIDE DEF g
    <3>5. Goes(g, m)
      BY <3>3, <3>4
    <3> QED
      BY <2>1, <3>5
  <2> QED
    BY <2>2, <2>3
<1>2. PICK r : Goes(r, n)
  BY <1>1
<1> DEFINE course == CHOOSE q : q = [k \in 0 .. n |-> IF k = 0 THEN Now
                         ELSE IF k \in lost THEN q[k - 1] ELSE Received(q[k - 1], Messages(p)[k], c)]
<1>3. Goes(course, n)
  BY <1>2
<1>4. After(p, n, lost, c) = course[n]
  BY DEF After
<1> HIDE DEF course
<1>5. Course(course, p, n, lost, c)
  BY <1>3 DEF Course
<1> QED
  BY <1>4, <1>5

(* What runs is whole: whatever messages are lost.                         *)
Sound(x) == x.vm.status = Ok => Whole(x.slab) \/ x.slab = Changed

LEMMA ReceivedSound ==
  ASSUME NEW x, NEW m, NEW c, Sound(x)
  PROVE  Sound(Received(x, m, c))
<1>1. Ok # Unknown /\ Ok # Failed /\ Fresh.status = Unknown /\ [Fresh EXCEPT !.status = Failed].status = Failed
  BY DEF Ok, Unknown, Failed, Fresh
<1>2. CASE m = Clear
  <2>1. Received(x, m, c) = [slab |-> << >>, vm |-> Fresh]
    BY <1>2 DEF Received, Clear, End
  <2> QED
    BY <1>1, <2>1 DEF Sound
<1>3. CASE m # Clear /\ m = End
  <2>1. Received(x, m, c) = [slab |-> x.slab, vm |-> IF CrcOK(x.slab) THEN [status |-> Ok, code |-> c]
                                                    ELSE [status |-> Failed, code |-> Unknown]]
    BY <1>3 DEF Received, Clear, End
  <2> QED
    BY <1>1, <2>1 DEF Sound, CrcOK
<1>4. CASE m # Clear /\ m # End
  <2>1. Received(x, m, c) = IF Len(x.slab) >= Slab THEN [slab |-> x.slab, vm |-> [Fresh EXCEPT !.status = Failed]]
                            ELSE [slab |-> Append(x.slab, m), vm |-> Fresh]
    BY <1>4 DEF Received, StatusReset
  <2>2. Received(x, m, c).vm \in {Fresh, [Fresh EXCEPT !.status = Failed]}
    BY <2>1
  <2> QED
    BY <1>1, <2>2 DEF Sound
<1> QED
  BY <1>2, <1>3, <1>4

LEMMA AfterSound ==
  ASSUME NEW p, NEW n \in Nat, NEW lost, NEW c, Sound(Now)
  PROVE  Sound(After(p, n, lost, c))
<1>1. PICK r : Course(r, p, n, lost, c) /\ After(p, n, lost, c) = r[n]
  BY AfterIs
<1> DEFINE K == {k \in 0 .. n : ~Sound(r[k])}
<1>2. K = {}
  <2> SUFFICES ASSUME K # {} PROVE FALSE
    OBVIOUS
  <2>1. PICK m \in K : \A k \in K : m <= k
    <3> K \in SUBSET Nat
      OBVIOUS
    <3> HIDE DEF K
    <3> QED
      BY LeastOf
  <2>2. m \in 0 .. n /\ ~Sound(r[m])
    BY <2>1
  <2>3. m # 0
    BY <1>1, <2>2 DEF Course
  <2>4. m - 1 \in 0 .. n /\ m - 1 \notin K
    BY <2>1, <2>2, <2>3
  <2>5. Sound(r[m - 1])
    BY <2>4
  <2>6. r[m] = IF m \in lost THEN r[m - 1] ELSE Received(r[m - 1], Messages(p)[m], c)
    BY <1>1, <2>2, <2>3 DEF Course
  <2> QED
    BY <2>2, <2>5, <2>6, ReceivedSound
<1>3. Sound(r[n])
  BY <1>2
<1> QED
  BY <1>1, <1>3

(* What a program is sent as, part by part.                                *)
LEMMA MessagesAre ==
  ASSUME LoaderAssumption, NEW p \in Programs, files[p] # "bad"
  PROVE  /\ Messages(p)[1] = Clear /\ Messages(p)[Parts + 2] = End
         /\ \A k \in 1 .. Parts : Messages(p)[k + 1] = <<p, k>>
         /\ Len(Messages(p)) = Parts + 2
<1>1. Parts \in Nat \ {0}
  BY DEF LoaderAssumption
<1> DEFINE V == Programs \X Int \cup {Clear, End}
           image == Image(p)
<1>2. image \in Seq(V) /\ Len(image) = Parts /\ \A k \in 1 .. Parts : image[k] = <<p, k>>
  BY <1>1 DEF Image
<1>3. <<Clear>> \in Seq(V) /\ <<End>> \in Seq(V)
  OBVIOUS
<1>4. Messages(p) = <<Clear>> \o (image \o <<End>>)
  BY DEF Messages
<1> HIDE DEF V, image
<1> DEFINE rest == image \o <<End>>
<1>5. /\ rest \in Seq(V) /\ Len(rest) = Parts + 1 /\ rest[Parts + 1] = End
      /\ \A k \in 1 .. Parts : rest[k] = <<p, k>>
  BY <1>1, <1>2, <1>3, ConcatProperties
<1> HIDE DEF rest
<1>6. /\ <<Clear>> \o rest \in Seq(V) /\ Len(<<Clear>> \o rest) = Parts + 2
      /\ (<<Clear>> \o rest)[1] = Clear
      /\ \A k \in 1 .. Parts + 1 : (<<Clear>> \o rest)[k + 1] = rest[k]
  BY <1>1, <1>3, <1>5, ConcatProperties
<1>7. Messages(p) = <<Clear>> \o rest
  BY <1>4 DEF rest
<1>8. Parts + 1 \in 1 .. Parts + 1 /\ (Parts + 1) + 1 = Parts + 2
  BY <1>1
<1>9. (<<Clear>> \o rest)[Parts + 2] = rest[Parts + 1]
  BY <1>6, <1>8
<1>10. ASSUME NEW k \in 1 .. Parts PROVE Messages(p)[k + 1] = <<p, k>>
  <2>1. k \in 1 .. Parts + 1
    BY <1>1
  <2>2. rest[k] = <<p, k>>
    BY <1>5
  <2> QED
    BY <1>6, <1>7, <2>1, <2>2
<1>11. Messages(p)[1] = Clear /\ Messages(p)[Parts + 2] = End /\ Len(Messages(p)) = Parts + 2
  BY <1>5, <1>6, <1>7, <1>9
<1> QED
  BY <1>10, <1>11

(* When nothing is lost, the runner has put together what was sent.        *)
LEMMA AfterWhole ==
  ASSUME LoaderAssumption, NEW p \in Programs, files[p] # "bad", NEW c
  PROVE  After(p, Parts + 2, {}, c).slab = Image(p)
<1>1. Parts \in Nat \ {0} /\ Slab \in Nat /\ Parts <= Slab
  BY DEF LoaderAssumption
<1> DEFINE n == Parts + 2
<1>2. PICK r : Course(r, p, n, {}, c) /\ After(p, n, {}, c) = r[n]
  BY <1>1, AfterIs
<1>3. \A k \in 1 .. n : r[k] = Received(r[k - 1], Messages(p)[k], c)
  BY <1>2 DEF Course
<1> DEFINE image(k) == [x \in 1 .. k |-> <<p, x>>]
           K == {k \in 0 .. Parts : r[k + 1].slab # image(k)}
<1>4. K = {}
  <2> SUFFICES ASSUME K # {} PROVE FALSE
    OBVIOUS
  <2>1. PICK m \in K : \A k \in K : m <= k
    <3> K \in SUBSET Nat
      BY <1>1
    <3> HIDE DEF K
    <3> QED
      BY LeastOf
  <2>2. m \in 0 .. Parts /\ r[m + 1].slab # image(m)
    BY <2>1
  <2>3. m # 0
    <3>1. r[0 + 1] = Received(r[0], Clear, c)
      BY <1>1, <1>3, MessagesAre
    <3>2. r[0 + 1] = [slab |-> << >>, vm |-> Fresh]
      BY <3>1 DEF Received, Clear, End
    <3>3. image(0) = << >>
      OBVIOUS
    <3> QED
      BY <2>2, <3>2, <3>3
  <2>4. m \in 1 .. Parts /\ m - 1 \in 0 .. Parts /\ m - 1 \notin K /\ (m - 1) + 1 = m /\ m + 1 \in 1 .. n
    BY <1>1, <2>1, <2>2, <2>3
  <2>5. r[m].slab = image(m - 1)
    <3>1. r[(m - 1) + 1].slab = image(m - 1)
      BY <2>4
    <3> QED
      BY <2>4, <3>1
  <2>6. r[m + 1] = Received(r[m], <<p, m>>, c)
    <3>1. r[m + 1] = Received(r[(m + 1) - 1], Messages(p)[m + 1], c) /\ (m + 1) - 1 = m
      BY <1>3, <2>4
    <3>2. Messages(p)[m + 1] = <<p, m>>
      BY <2>4, MessagesAre
    <3> QED
      BY <3>1, <3>2
  <2>7. <<p, m>> # Clear /\ <<p, m>> # End
    BY DEF Programs, Clear, End
  <2>8. Len(image(m - 1)) = m - 1 /\ ~(Len(image(m - 1)) >= Slab)
    BY <1>1, <2>4
  <2>9. r[m + 1].slab = Append(image(m - 1), <<p, m>>)
    <3> HIDE DEF image
    <3> QED
      BY <2>5, <2>6, <2>7, <2>8 DEF Received
  <2>10. Append(image(m - 1), <<p, m>>) = image(m)
    BY <2>4
  <2> QED
    BY <2>2, <2>9, <2>10
<1>5. r[Parts + 1].slab = image(Parts)
  <2> HIDE DEF image
  <2>1. \A k \in 0 .. Parts : r[k + 1].slab = image(k)
    BY <1>4
  <2>2. Parts \in 0 .. Parts
    BY <1>1
  <2> QED
    BY <2>1, <2>2
<1>6. r[n] = Received(r[Parts + 1], End, c)
  <2>1. n \in 1 .. n /\ n - 1 = Parts + 1
    BY <1>1
  <2>2. Messages(p)[n] = End
    BY MessagesAre
  <2> QED
    BY <1>3, <2>1, <2>2
<1>7. r[n].slab = r[Parts + 1].slab
  BY <1>6 DEF Received, Clear, End
<1>8. image(Parts) = Image(p)
  BY DEF Image
<1> QED
  BY <1>2, <1>5, <1>7, <1>8

(* Only a program that was sent without loss is known to be the one that   *)
(* was loaded last.                                                        *)
LoaderInv ==
  /\ vmFaults \in Nat /\ files \in [Programs -> States]
  /\ Sound(Now)
  /\ vmFaults = 0 /\ stage \in {"check", "watch"} => slab \in {Image(loaded), Changed}

LEMMA LostCount ==
  ASSUME NEW n \in Nat, NEW lost \in SUBSET (1 .. n)
  PROVE  IsFiniteSet(lost) /\ Cardinality(lost) \in Nat
<1>1. IsFiniteSet(1 .. n)
  BY FS_Interval
<1>2. IsFiniteSet(lost)
  BY <1>1, FS_Subset
<1> QED
  BY <1>2, FS_CardinalityType

(* What the invariant needs of a step.                                     *)
LEMMA LoaderKept ==
  ASSUME LoaderInv, UNCHANGED files, Sound(Now)', vmFaults' \in Nat,
         \/ stage' \notin {"check", "watch"}
         \/ /\ stage' \in {"check", "watch"} => stage \in {"check", "watch"}
            /\ vmFaults' = 0 => vmFaults = 0
            /\ UNCHANGED loaded /\ slab' \in {slab, Changed}
  PROVE  LoaderInv'
<1>1. files' \in [Programs -> States]
  BY DEF LoaderInv
<1>2. ASSUME vmFaults' = 0, stage' \in {"check", "watch"} PROVE slab' \in {Image(loaded)', Changed}
  <2>1. Image(loaded)' = Image(loaded)
    BY <1>2 DEF Image
  <2> QED
    BY <1>2, <2>1 DEF LoaderInv
<1> QED
  BY <1>1, <1>2 DEF LoaderInv, Changed

LEMMA SendSound ==
  ASSUME LoaderInv, NEW p, NEW n, NEW lost, NEW c, Send(p, n, lost, c)
  PROVE  Sound(Now)' /\ vmFaults' \in Nat
<1>1. n \in Nat /\ Sound(Now)
  BY DEF Send, LoaderInv
<1>2. Sound(After(p, n, lost, c))
  BY <1>1, AfterSound
<1>3. slab' = After(p, n, lost, c).slab /\ vm' = After(p, n, lost, c).vm
  BY DEF Send
<1>4. Sound(Now)'
  BY <1>2, <1>3 DEF Sound, Now
<1>5. IsFiniteSet(lost) /\ Cardinality(lost) \in Nat
  <2>1. lost \in SUBSET (1 .. n)
    BY DEF Send
  <2> QED
    BY <1>1, <2>1, LostCount
<1>6. vmFaults' = vmFaults + (Cardinality(lost) + IF c = Ok THEN 0 ELSE 1)
  BY DEF Send, Costs
<1> QED
  BY <1>4, <1>5, <1>6 DEF LoaderInv

LEMMA LoadSound ==
  ASSUME LoaderAssumption, LoaderInv, NEW p \in Programs, Load(p)
  PROVE  LoaderInv'
<1>1. PICK c \in {Ok, Halted, Failed} : Succeeds(p, c) \/ Fails(p, c)
  BY DEF Load
<1>2. files' = files
  BY DEF Load
<1>3. CASE Succeeds(p, c)
  <2>1. PICK lost \in SUBSET (1 .. Parts + 2) : Send(p, Parts + 2, lost, c)
    BY <1>3 DEF Succeeds
  <2>2. files[p] = "good" /\ stage' = "check" /\ loaded' = p
    BY <1>3 DEF Succeeds
  <2>3. Sound(Now)' /\ vmFaults' \in Nat
    BY <2>1, SendSound
  <2>4. ASSUME vmFaults' = 0 PROVE slab' = Image(p)
    <3>1. vmFaults' = vmFaults + (Cardinality(lost) + IF c = Ok THEN 0 ELSE 1) /\ vmFaults \in Nat
      BY <2>1 DEF Send, Costs, LoaderInv
    <3>2. Parts + 2 \in Nat
      BY DEF LoaderAssumption
    <3>3. IsFiniteSet(lost) /\ Cardinality(lost) \in Nat
      BY <3>2, LostCount
    <3>4. Cardinality(lost) = 0
      BY <2>4, <3>1, <3>3
    <3>5. lost = {}
      BY <3>3, <3>4, FS_EmptySet
    <3>6. slab' = After(p, Parts + 2, {}, c).slab
      BY <2>1, <3>5 DEF Send
    <3> QED
      BY <2>2, <3>6, AfterWhole
  <2>5. Image(p) = Image(loaded)'
    BY <2>2 DEF Image
  <2>6. files' \in [Programs -> States]
    BY <1>2 DEF LoaderInv
  <2> QED
    BY <2>3, <2>4, <2>5, <2>6 DEF LoaderInv
<1>4. CASE Fails(p, c)
  <2>1. stage' \in {"second", "error"}
    BY <1>4 DEF Fails
  <2>2. Sound(Now)' /\ vmFaults' \in Nat
    <3>1. CASE UNCHANGED <<runner, vmFaults>>
      BY <3>1 DEF runner, Now, LoaderInv, Sound
    <3>2. CASE \E n, lost : Send(p, n, lost, c)
      BY <3>2, SendSound
    <3> QED
      BY <1>4, <3>1, <3>2 DEF Fails
  <2> QED
    BY <1>2, <2>1, <2>2, LoaderKept
<1> QED
  BY <1>1, <1>3, <1>4

LEMMA LoaderStep ==
  ASSUME LoaderAssumption, LoaderInv, [LoaderNext]_loaderVars
  PROVE  LoaderInv'
<1>1. vmFaults \in Nat /\ Sound(Now)
  BY DEF LoaderInv
<1>2. ASSUME UNCHANGED <<slab, vm>> PROVE Sound(Now)'
  BY <1>1, <1>2 DEF Now, Sound
<1>3. CASE Wakes \/ ErrorOver
  <2>1. UNCHANGED <<files, slab, vm, vmFaults>> /\ stage' \in {"settle", "idle"}
    BY <1>3 DEF Wakes, ErrorOver, runner
  <2> QED
    BY <1>1, <1>2, <2>1, LoaderKept
<1>4. CASE StartLoad \/ LoadSecond
  <2>1. PICK p \in Programs : Load(p)
    BY <1>4 DEF StartLoad, LoadSecond, Programs
  <2> QED
    BY <2>1, LoadSound
<1>5. CASE CheckPassed \/ CheckFailed
  <2>1. UNCHANGED <<loaded, files, slab, vm, vmFaults>> /\ stage = "check"
    BY <1>5 DEF CheckPassed, CheckFailed, runner
  <2> QED
    BY <1>1, <1>2, <2>1, LoaderKept
<1>6. CASE WatchOver
  <2>1. UNCHANGED files /\ stage' \in {"error", "idle"} /\ Stopped
    BY <1>6 DEF WatchOver
  <2>2. Sound(Now)' /\ vmFaults' \in Nat
    <3>1. CASE UNCHANGED runner /\ Costs(1)
      BY <1>1, <1>2, <3>1 DEF runner, Costs
    <3>2. CASE slab' = << >> /\ vm' = Fresh /\ UNCHANGED vmFaults
      BY <1>1, <3>2 DEF Now, Sound, Fresh, Ok, Unknown
    <3> QED
      BY <2>1, <3>1, <3>2 DEF Stopped
  <2> QED
    BY <2>1, <2>2, LoaderKept
<1>7. ASSUME UNCHANGED <<stage, loaded, files, slab, vm>>, vmFaults' = vmFaults \/ vmFaults' = vmFaults + 1
      PROVE  LoaderInv'
  BY <1>1, <1>2, <1>7, LoaderKept
<1>8. CASE Report
  BY <1>7, <1>8 DEF Report, loader, runner
<1>9. CASE ReportArrives
  BY <1>7, <1>9 DEF ReportArrives, loader, runner, Costs
<1>10. ASSUME NEW c \in {Ok, Halted, Failed}, RunFrame(c) PROVE LoaderInv'
  <2>1. /\ UNCHANGED <<stage, loaded, files>> /\ slab' \in {slab, Changed} /\ vm' = [vm EXCEPT !.code = c]
        /\ vmFaults' = vmFaults + IF c = Ok THEN 0 ELSE 1
    BY <1>10 DEF RunFrame, loader, Costs
  <2>2. vm'.status = Ok => vm.status = Ok
    <3>1. vm.status >= 0
      BY <1>10 DEF RunFrame
    <3> QED
      BY <2>1, <3>1
  <2>3. Sound(Now)'
    BY <1>1, <2>1, <2>2 DEF Now, Sound, Changed
  <2> QED
    BY <1>1, <2>1, <2>3, LoaderKept
<1>11. CASE \E b \in BOOLEAN : SetRun(b) \/ ResetKey(b)
  BY <1>7, <1>11 DEF SetRun, ResetKey, runner
<1>12. CASE Shutdown
  BY <1>7, <1>12 DEF Shutdown, runner
<1>13. CASE UNCHANGED loaderVars
  BY <1>7, <1>13 DEF loaderVars, loader, runner
<1> QED
  BY <1>3, <1>4, <1>5, <1>6, <1>7, <1>8, <1>9, <1>10, <1>11, <1>12, <1>13 DEF LoaderNext, Loader

(* What the runner runs is a whole program, whatever messages of the link  *)
(* are lost, and the one that was loaded last when none was: for a program *)
(* of any number of parts that the memory of the runner holds.             *)
THEOREM ProgramIsWhole ==
  ASSUME LoaderAssumption
  PROVE  LoaderSpec => []ProgramWhole
<1>1. LoaderInit => LoaderInv
  <2> SUFFICES ASSUME LoaderInit PROVE LoaderInv
    OBVIOUS
  <2>1. files \in [Programs -> States] /\ vmFaults = 0 /\ stage = "idle" /\ vm = Fresh
    BY DEF LoaderInit, LoaderAssumption
  <2>2. Sound(Now)
    BY <2>1 DEF Now, Sound, Fresh, Ok, Unknown
  <2> QED
    BY <2>1, <2>2 DEF LoaderInv
<1>2. LoaderInv /\ [LoaderNext]_loaderVars => LoaderInv'
  BY LoaderStep
<1>3. LoaderInv => ProgramWhole
  BY DEF LoaderInv, ProgramWhole, Sound, Now
<1> QED
  BY <1>1, <1>2, <1>3, PTL DEF LoaderSpec

=============================================================================

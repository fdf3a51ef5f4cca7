----------------------------- MODULE KeysProofs -----------------------------
(***************************************************************************)
(* TLAPS proofs about Sockets, Catbus, FileTransfer, KvDatabase and        *)
(* KvPersist, for any sockets, blocks, addresses, ports, files and         *)
(* time-outs, for a file of any length with any page and windows, and for  *)
(* any keys, data, tags, values and sizes.                                 *)
(*                                                                         *)
(* Sockets: every call keeps SocketsSound.  A datagram that is received or *)
(* looped back changes the sockets and the blocks at once, and is the same *)
(* operation in five actions: ReceivedSound states what it keeps, for      *)
(* sockets of which the sender may just have been given another remote     *)
(* address, and for a block that nobody owns.  Every other call changes    *)
(* one socket, which keeps its block (OneSocketSound) or gives it away     *)
(* (BlockLeaves).  Ports stay distinct since a socket only gets one that   *)
(* is not in use.                                                          *)
(*                                                                         *)
(* Catbus: every step keeps ServerSound.  An answer goes to the address of *)
(* the socket when it is sent, so RequestInv carries that this address is  *)
(* the asker's as long as the request waits, unless a check of a file      *)
(* started meanwhile; only the server's socket is open, nothing it sends   *)
(* is looped back, and so nothing else writes that address.  FilesInv      *)
(* counts what opens and closes a file: its users, a session's, a check's. *)
(*                                                                         *)
(* FileTransfer: every step keeps WholeTransfer.  Messages are repeated,   *)
(* lost and overtaken, but whatever their age they were true of the file   *)
(* (ToNodeTrue, ToClientTrue): a page is at its place, and an offset that  *)
(* was acknowledged is one that was stored.  Either side only appends at   *)
(* the end of what it has, so what it has is a beginning of the content.   *)
(*                                                                         *)
(* KvDatabase: every step keeps KvInv, and is a step of the map that       *)
(* KvMap specifies (KeysAreAMap).  Sorting finds an order (OrderExists, by *)
(* insertion) and keeps what is stored (KeptSorted); a binary search ends, *)
(* as its ranges become shorter, and finds what is there (FindExists,      *)
(* RightNext).  The map is that of the set of entries, so that each call   *)
(* is about one set: with an entry more (AddedIs), another (PutIs), or     *)
(* fewer (RemovedIs).                                                      *)
(*                                                                         *)
(* KvPersist: every step keeps PersistInv, of which WholeFile says that    *)
(* headers are at the odd places, each once, and values between them.  In  *)
(* such a file a seek meets the header or the end (SeekIs), both readers   *)
(* find the value that follows (BothRead), and what is written changes the *)
(* value of one key only (WrittenSetsOnly): so every step is one of        *)
(* PersistStore or of no effect on it (Meaning).                           *)
(***************************************************************************)
EXTENDS Catbus, FileTransfer, KvDatabase, KvPersist, FiniteSetTheorems, SequenceTheorems, WellFoundedInduction, TLAPS

States == {"idle", "waiting", "pending", "received", "timedout"}
Socket == [open : BOOLEAN, lport : Ports \cup {0}, state : States,
           buffer : Blocks \cup {None}, raddr : Addresses \cup {None}, setting : Nat, current : Nat]

(* What holds of sockets sk.                                               *)
Sound(sk) ==
  /\ sk \in [Sockets -> Socket]
  /\ \A s \in Sockets : sk[s].open => sk[s].lport \in Ports
  /\ \A s \in Sockets : ~sk[s].open => sk[s].buffer = None
  /\ \A s \in Sockets :
       /\ sk[s].state = "pending" => sk[s].buffer # None
       /\ sk[s].buffer # None => sk[s].state \in {"pending", "received"}
  /\ \A s, t \in Sockets : sk[s].open /\ sk[t].open /\ sk[s].lport = sk[t].lport => s = t
  /\ \A s, t \in Sockets : sk[s].buffer = sk[t].buffer /\ sk[s].buffer # None => s = t

(* ... and of the blocks: m are allocated, tk are the application's.       *)
Owned(sk, m, tk) ==
  /\ m \subseteq Blocks /\ tk \subseteq Blocks
  /\ \A b \in Blocks : b \in m <=> b \in tk \/ \E s \in Sockets : sk[s].buffer = b
  /\ \A s \in Sockets : sk[s].buffer \notin tk

IInv == Sound(sock) /\ Owned(sock, mem, taken) /\ ephemeral \in Low .. High - 1

-----------------------------------------------------------------------------
LEMMA NthInRange ==
  ASSUME ephemeral \in Low .. High - 1, NEW n \in Nat
  PROVE  Nth(n) \in Low .. High - 1
<1>1. High - Low \in Nat \ {0} /\ ephemeral - Low + n \in Nat
  BY SocketsAssumption DEF SocketsAssumption
<1>2. \A x \in Nat, d \in Nat \ {0} : x % d \in 0 .. d - 1
  OBVIOUS
<1>3. (ephemeral - Low + n) % (High - Low) \in 0 .. High - Low - 1
  BY <1>1, <1>2
<1> QED
  BY <1>3, SocketsAssumption DEF SocketsAssumption, Nth

-----------------------------------------------------------------------------
(* sock_v_recv: a block that nobody owns is taken by the socket of its     *)
(* port, in place of one it has, or freed.                                 *)
LEMMA ReceivedSound ==
  ASSUME NEW sk, NEW m, NEW tk, NEW b \in Blocks, NEW from \in Addresses, NEW p,
         Sound(sk), Owned(sk, m \ {b}, tk), b \notin tk, \A s \in Sockets : sk[s].buffer # b
  PROVE  LET r == Received(sk, m, b, from, p) IN Sound(r.sock) /\ Owned(r.sock, r.mem, tk)
<1> DEFINE takers == {s \in Sockets : sk[s].open /\ sk[s].lport = p}
           s == CHOOSE x \in takers : TRUE
           k == [sk[s] EXCEPT !.buffer = b, !.raddr = from, !.state = "pending"]
           to == [sk EXCEPT ![s] = k]
           left == Freed(m \cup {b}, sk[s].buffer)
           r == Received(sk, m, b, from, p)
<1>0. b # None
  BY SocketsAssumption DEF SocketsAssumption
<1>1. CASE takers # {} /\ Accepts(sk, s)
  <2>1. s \in Sockets /\ sk[s] \in Socket /\ sk[s].open
    BY <1>1 DEF Sound
  <2>2. r.sock = to /\ r.mem = left
    BY <1>1 DEF Received
  <2> HIDE DEF s
  <2>3. k \in Socket /\ k.buffer = b /\ k.state = "pending" /\ k.open = sk[s].open /\ k.lport = sk[s].lport
    BY <2>1 DEF Socket, States
  <2> HIDE DEF k
  <2>4. /\ to[s] \in Socket /\ to[s].buffer = b /\ to[s].state = "pending"
        /\ to[s].open = sk[s].open /\ to[s].lport = sk[s].lport
    BY <2>1, <2>3 DEF Sound
  <2>5. \A t \in Sockets : t # s => to[t] = sk[t]
    BY <2>1 DEF Sound
  <2>6. to \in [Sockets -> Socket]
    BY <2>3 DEF Sound
  <2> HIDE DEF to
  <2>7. Sound(to)
    <3>1. \A t \in Sockets : to[t].open = sk[t].open /\ to[t].lport = sk[t].lport
      BY <2>4, <2>5
    <3>2. \A t \in Sockets : ~to[t].open => to[t].buffer = None
      BY <2>1, <2>4, <2>5 DEF Sound
    <3>3. \A t \in Sockets :
            /\ to[t].state = "pending" => to[t].buffer # None
            /\ to[t].buffer # None => to[t].state \in {"pending", "received"}
      BY <1>0, <2>4, <2>5 DEF Sound
    <3>4. \A t, u \in Sockets : to[t].buffer = to[u].buffer /\ to[t].buffer # None => t = u
      BY <1>0, <2>1, <2>4, <2>5 DEF Sound
    <3> QED
      BY <2>6, <3>1, <3>2, <3>3, <3>4 DEF Sound
  <2>8. Owned(to, left, tk)
    <3>1. left = (m \cup {b}) \ {sk[s].buffer}
      BY DEF Freed
    <3>2. \A t \in Sockets : t # s /\ sk[t].buffer # None => sk[t].buffer # sk[s].buffer
      BY <2>1 DEF Sound
    <3>3. sk[s].buffer # b /\ sk[s].buffer \notin tk
      BY <2>1 DEF Owned
    <3>4. left \subseteq Blocks /\ tk \subseteq Blocks
      BY <3>1 DEF Owned
    <3>5. \A t \in Sockets : to[t].buffer \notin tk
      BY <2>4, <2>5 DEF Owned
    <3>6. ASSUME NEW c \in Blocks
          PROVE  c \in left <=> c \in tk \/ \E t \in Sockets : to[t].buffer = c
      <4>1. c # None
        BY SocketsAssumption DEF SocketsAssumption
      <4>2. CASE c = b
        BY <2>1, <2>4, <3>1, <3>3, <4>2
      <4>3. CASE c # b /\ c = sk[s].buffer
        BY <2>1, <2>4, <2>5, <3>1, <3>2, <3>3, <4>1, <4>3
      <4>4. CASE c # b /\ c # sk[s].buffer
        <5>1. c \in left <=> c \in m \ {b}
          BY <3>1, <4>4
        <5>2. (\E t \in Sockets : to[t].buffer = c) <=> \E t \in Sockets : sk[t].buffer = c
          BY <2>1, <2>4, <2>5, <4>4
        <5> QED
          BY <5>1, <5>2 DEF Owned
      <4> QED
        BY <4>2, <4>3, <4>4
    <3> QED
      BY <3>4, <3>5, <3>6 DEF Owned
  <2> QED
    BY <2>2, <2>7, <2>8
<1>2. CASE ~(takers # {} /\ Accepts(sk, s))
  <2>1. r.sock = sk /\ r.mem = m \ {b}
    BY <1>2 DEF Received, Freed
  <2> QED
    BY <2>1
<1> QED
  BY <1>1, <1>2

(* sock_i8_transmit, with a block that nobody owns any more.               *)
LEMMA TransmitSound ==
  ASSUME NEW s \in Sockets, NEW sk, NEW tk, NEW b \in Blocks,
         Sound(sk), sk[s].open, Owned(sk, mem \ {b}, tk), b \notin tk,
         \A t \in Sockets : sk[t].buffer # b,
         Transmit(s, sk, b)
  PROVE  Sound(sock') /\ Owned(sock', mem', tk)
<1>1. CASE sk[s].raddr.ip = Loop /\ Loopback(sk, b, s)
  <2>1. Local(sk[s].lport) \in Addresses
    BY DEF Sound, Addresses
  <2>2. LET r == Received(sk, mem, b, Local(sk[s].lport), sk[s].raddr.port)
        IN  Sound(r.sock) /\ Owned(r.sock, r.mem, tk)
    BY <2>1, ReceivedSound
  <2> QED
    BY <1>1, <2>2 DEF Loopback
<1>2. CASE sock' = sk /\ mem' = Freed(mem, b)
  BY <1>2 DEF Freed
<1> QED
  BY <1>1, <1>2 DEF Transmit

(* A change of one socket that keeps its block and its state true, and its *)
(* port, or gets one that is not in use.                                   *)
LEMMA OneSocketSound ==
  ASSUME NEW s \in Sockets, NEW sk, NEW k \in Socket, NEW m, NEW tk,
         Sound(sk), Owned(sk, m, tk),
         k.buffer = sk[s].buffer, ~k.open => k.buffer = None,
         k.open => \/ sk[s].open /\ k.lport = sk[s].lport
                   \/ k.lport \in Ports /\ \A t \in Sockets : sk[t].open => sk[t].lport # k.lport,
         k.state = "pending" => k.buffer # None,
         k.buffer # None => k.state \in {"pending", "received"}
  PROVE  Sound([sk EXCEPT ![s] = k]) /\ Owned([sk EXCEPT ![s] = k], m, tk)
<1> DEFINE to == [sk EXCEPT ![s] = k]
<1>1. to \in [Sockets -> Socket] /\ to[s] = k /\ \A t \in Sockets : t # s => to[t] = sk[t]
  BY DEF Sound
<1>2. \A t \in Sockets : to[t].buffer = sk[t].buffer
  BY <1>1
<1> HIDE DEF to
<1>3. Sound(to)
  BY <1>1, <1>2 DEF Sound
<1>4. Owned(to, m, tk)
  BY <1>2 DEF Owned
<1> QED
  BY <1>3, <1>4 DEF to

(* sock_v_set_raddr, or a datagram that is sent somewhere.                 *)
LEMMA Readdressed ==
  ASSUME NEW s \in Sockets, NEW a \in Addresses, Sound(sock), Owned(sock, mem, taken)
  PROVE  LET sk == [sock EXCEPT ![s] = [sock[s] EXCEPT !.raddr = a]]
         IN  /\ Sound(sk) /\ Owned(sk, mem, taken)
             /\ \A t \in Sockets : sk[t].buffer = sock[t].buffer /\ sk[t].open = sock[t].open
<1> DEFINE new == [sock[s] EXCEPT !.raddr = a]
           sk == [sock EXCEPT ![s] = new]
<1>1. sock[s] \in Socket /\ sock \in [Sockets -> Socket]
  BY DEF Sound
<1>2. /\ new \in Socket /\ new.open = sock[s].open /\ new.lport = sock[s].lport
      /\ new.buffer = sock[s].buffer /\ new.state = sock[s].state
  BY <1>1 DEF Socket
<1> HIDE DEF new
<1>3. Sound(sk) /\ Owned(sk, mem, taken)
  <2>1. /\ ~new.open => new.buffer = None
        /\ new.state = "pending" => new.buffer # None
        /\ new.buffer # None => new.state \in {"pending", "received"}
    BY <1>2 DEF Sound
  <2> QED
    BY <1>2, <2>1, OneSocketSound
<1>4. \A t \in Sockets : sk[t].buffer = sock[t].buffer /\ sk[t].open = sock[t].open
  BY <1>1, <1>2
<1> QED
  BY <1>3, <1>4 DEF new

(* A socket gives its block away, to tk or to nobody.                      *)
LEMMA BlockLeaves ==
  ASSUME NEW s \in Sockets, NEW k \in Socket, NEW m, NEW tk,
         Sound(sock), Owned(sock, mem, taken),
         k.buffer = None, k.state # "pending",
         k.open => sock[s].open /\ k.lport = sock[s].lport,
         \/ m = Freed(mem, sock[s].buffer) /\ tk = taken
         \/ m = mem /\ tk = taken \cup {sock[s].buffer} /\ sock[s].buffer # None
  PROVE  Sound([sock EXCEPT ![s] = k]) /\ Owned([sock EXCEPT ![s] = k], m, tk)
<1> DEFINE to == [sock EXCEPT ![s] = k]
<1>1. to \in [Sockets -> Socket] /\ to[s] = k /\ \A t \in Sockets : t # s => to[t] = sock[t]
  BY DEF Sound
<1> HIDE DEF to
<1>2. Sound(to)
  BY <1>1 DEF Sound
<1>3. \A t \in Sockets : t # s /\ sock[t].buffer # None => sock[t].buffer # sock[s].buffer
  BY DEF Sound
<1>4. None \notin Blocks /\ sock[s].buffer \in Blocks \cup {None}
  BY SocketsAssumption DEF SocketsAssumption, Sound, Socket
<1>5. m \subseteq Blocks /\ tk \subseteq Blocks
  BY <1>4 DEF Owned, Freed
<1>6. \A t \in Sockets : to[t].buffer \notin tk
  BY <1>1, <1>3, <1>4 DEF Owned
<1>7. ASSUME NEW b \in Blocks
      PROVE  b \in m <=> b \in tk \/ \E t \in Sockets : to[t].buffer = b
  <2>1. CASE b = sock[s].buffer
    BY <1>1, <1>3, <1>4, <2>1 DEF Owned, Freed
  <2>2. CASE b # sock[s].buffer
    BY <1>1, <1>4, <2>2 DEF Owned, Freed
  <2> QED
    BY <2>1, <2>2
<1>8. Owned(to, m, tk)
  BY <1>5, <1>6, <1>7 DEF Owned
<1> QED
  BY <1>2, <1>8 DEF to

-----------------------------------------------------------------------------
(* What a call makes of a socket stays a socket.                           *)
LEMMA PolledType ==
  ASSUME NEW k \in Socket
  PROVE  /\ Polled(k) \in Socket /\ Polled(k).open = k.open /\ Polled(k).lport = k.lport
         /\ Polled(k).state \in {"pending", "received"} => k.state = "pending" /\ Polled(k).buffer = k.buffer
         /\ Polled(k).state # "pending"
         /\ k.state = "received" => Polled(k).buffer = None
         /\ k.state # "received" => Polled(k).buffer = k.buffer
<1>1. k.state \in States
  BY DEF Socket
<1>2. CASE k.state = "idle"
  BY <1>2 DEF Polled, Socket, States
<1>3. CASE k.state = "waiting"
  BY <1>3 DEF Polled, Socket, States
<1>4. CASE k.state = "pending"
  BY <1>4 DEF Polled, Socket, States
<1>5. CASE k.state = "received"
  BY <1>5 DEF Polled, Socket, States
<1>6. CASE k.state = "timedout"
  BY <1>6 DEF Polled, Socket, States
<1> QED
  BY <1>1, <1>2, <1>3, <1>4, <1>5, <1>6 DEF States

LEMMA TickedType ==
  ASSUME NEW k \in Socket
  PROVE  /\ Ticked(k) \in Socket /\ Ticked(k).open = k.open /\ Ticked(k).lport = k.lport
         /\ Ticked(k).buffer = k.buffer
         /\ Ticked(k).state = k.state \/ (k.state = "waiting" /\ Ticked(k).state = "timedout")
<1> DEFINE over == k.setting > 0 /\ Less(k.current) = 0 /\ k.state = "waiting"
           st == IF over THEN "timedout" ELSE k.state
<1>1. Less(k.current) \in Nat /\ st \in States
  BY DEF Less, Socket, States
<1>2. st = k.state \/ (k.state = "waiting" /\ st = "timedout")
  OBVIOUS
<1>3. Ticked(k) = [k EXCEPT !.current = Less(k.current), !.state = st]
  BY DEF Ticked
<1> HIDE DEF st
<1> QED
  BY <1>1, <1>2, <1>3 DEF Socket

LEMMA NewBlockFree ==
  ASSUME FreeBlocks # {}
  PROVE  NewBlock \in Blocks /\ NewBlock \notin mem
BY DEF FreeBlocks, NewBlock

(* A block that is not allocated is nobody's.                              *)
LEMMA FreeIsNobodys ==
  ASSUME Owned(sock, mem, taken), NEW b \in Blocks, b \notin mem
  PROVE  Owned(sock, mem \ {b}, taken) /\ b \notin taken /\ \A s \in Sockets : sock[s].buffer # b
BY DEF Owned

(* ... and one of the application's is not once it is given away.          *)
LEMMA TakenIsGiven ==
  ASSUME Owned(sock, mem, taken), NEW b \in taken
  PROVE  /\ b \in Blocks /\ Owned(sock, mem \ {b}, taken \ {b})
         /\ \A s \in Sockets : sock[s].buffer # b
BY DEF Owned

LEMMA InitInvariant == Init => IInv
<1> SUFFICES ASSUME Init PROVE IInv
  OBVIOUS
<1>1. Closed \in Socket /\ Closed.buffer = None /\ Closed.open = FALSE /\ Closed.state = "idle"
  BY DEF Closed, Socket, States
<1>2. sock \in [Sockets -> Socket] /\ \A s \in Sockets : sock[s] = Closed
  BY <1>1 DEF Init
<1>3. Sound(sock)
  BY <1>1, <1>2 DEF Sound
<1>4. Owned(sock, mem, taken)
  BY <1>1, <1>2, SocketsAssumption DEF Init, Owned, SocketsAssumption
<1> QED
  BY <1>3, <1>4 DEF Init, IInv

(* A call changes one socket, or transmits.                                *)
LEMMA CallInvariant ==
  ASSUME IInv, NEW s \in Sockets, Call(s)
  PROVE  IInv'
<1> DEFINE k == sock[s]
           Keeps(x) == sock' = [sock EXCEPT ![s] = x] /\ mem' = mem /\ taken' = taken
<1>0. /\ k \in Socket /\ Sound(sock) /\ Owned(sock, mem, taken) /\ ephemeral \in Low .. High - 1
      /\ k.state = "pending" => k.buffer # None
      /\ k.buffer # None => k.state \in {"pending", "received"}
      /\ ~k.open => k.buffer = None
      /\ k.open => k.lport \in Ports
  BY DEF IInv, Sound
<1>1. CASE Create(s)
  <2>1. PICK n \in 1 .. High - Low :
          /\ FirstFree(n)
          /\ sock' = [sock EXCEPT ![s] = [Closed EXCEPT !.open = TRUE, !.lport = Nth(n)]]
          /\ ephemeral' = Nth(n)
    BY <1>1 DEF Create
  <2>2. Nth(n) \in Low .. High - 1 /\ Nth(n) \in Ports /\ Nth(n) \notin InUse
    BY <1>0, <2>1, NthInRange DEF FirstFree, Ports
  <2> DEFINE new == [Closed EXCEPT !.open = TRUE, !.lport = Nth(n)]
  <2>3. new \in Socket /\ new.open = TRUE /\ new.lport = Nth(n) /\ new.buffer = None /\ new.state = "idle"
    BY <2>2 DEF Closed, Socket, States
  <2>4. Keeps(new)
    BY <1>1, <2>1 DEF Create
  <2> HIDE DEF new
  <2>5. k.buffer = None /\ \A t \in Sockets : sock[t].open => sock[t].lport # new.lport
    BY <1>0, <1>1, <2>2, <2>3 DEF Create, InUse
  <2>6. Sound([sock EXCEPT ![s] = new]) /\ Owned([sock EXCEPT ![s] = new], mem, taken)
    BY <1>0, <2>2, <2>3, <2>5, OneSocketSound
  <2> QED
    BY <2>1, <2>2, <2>4, <2>6 DEF IInv
<1>2. CASE Release(s)
  <2>1. Closed \in Socket /\ Closed.buffer = None /\ Closed.open = FALSE /\ Closed.state = "idle"
    BY DEF Closed, Socket, States
  <2>2. Sound([sock EXCEPT ![s] = Closed]) /\ Owned([sock EXCEPT ![s] = Closed], Freed(mem, sock[s].buffer), taken)
    BY <1>0, <2>1, BlockLeaves
  <2> QED
    BY <1>0, <1>2, <2>2 DEF Release, IInv
<1>3. CASE \E p \in Services : Bind(s, p)
  <2>1. PICK p \in Services : Bind(s, p)
    BY <1>3
  <2> DEFINE new == [k EXCEPT !.lport = p]
  <2>2. /\ new \in Socket /\ new.open = k.open /\ new.lport = p /\ new.buffer = k.buffer
        /\ new.state = k.state /\ p \in Ports
    BY <1>0 DEF Socket, Ports
  <2>3. Keeps(new) /\ ephemeral' = ephemeral
    BY <2>1 DEF Bind
  <2> HIDE DEF new
  <2>4. \A t \in Sockets : sock[t].open => sock[t].lport # new.lport
    BY <2>1, <2>2 DEF Bind, InUse
  <2>5. Sound([sock EXCEPT ![s] = new]) /\ Owned([sock EXCEPT ![s] = new], mem, taken)
    BY <1>0, <2>2, <2>4, OneSocketSound
  <2> QED
    BY <1>0, <2>3, <2>5 DEF IInv
<1>4. CASE \E t \in Timeouts : SetTimeout(s, t)
  <2>1. PICK t \in Timeouts : SetTimeout(s, t)
    BY <1>4
  <2> DEFINE new == [k EXCEPT !.setting = t, !.current = 0]
  <2>2. /\ new \in Socket /\ new.open = k.open /\ new.lport = k.lport /\ new.buffer = k.buffer
        /\ new.state = k.state
    BY <1>0, SocketsAssumption DEF Socket, SocketsAssumption
  <2>3. Keeps(new) /\ ephemeral' = ephemeral
    BY <2>1 DEF SetTimeout
  <2> HIDE DEF new
  <2>4. Sound([sock EXCEPT ![s] = new]) /\ Owned([sock EXCEPT ![s] = new], mem, taken)
    BY <1>0, <2>2, OneSocketSound
  <2> QED
    BY <1>0, <2>3, <2>4 DEF IInv
<1>5. CASE \E a \in Remotes : SetRaddr(s, a)
  <2>1. PICK a \in Remotes : SetRaddr(s, a)
    BY <1>5
  <2> DEFINE new == [k EXCEPT !.raddr = a]
  <2>2. Sound([sock EXCEPT ![s] = new]) /\ Owned([sock EXCEPT ![s] = new], mem, taken)
    BY <1>0, Readdressed DEF Addresses
  <2>3. Keeps(new) /\ ephemeral' = ephemeral
    BY <2>1 DEF SetRaddr
  <2> HIDE DEF new
  <2> QED
    BY <1>0, <2>2, <2>3 DEF IInv
<1>6. CASE Poll(s)
  <2> DEFINE new == Polled(k)
  <2>1. new \in Socket /\ new.open = k.open /\ new.lport = k.lport
    BY <1>0, PolledType
  <2>2. sock' = [sock EXCEPT ![s] = new] /\ mem' = Freed(mem, Dropped(k)) /\ taken' = taken /\ ephemeral' = ephemeral
    BY <1>6 DEF Poll
  <2>3. CASE k.state = "received"
    <3>1. new.buffer = None /\ new.state # "pending" /\ Dropped(k) = sock[s].buffer
      BY <1>0, <2>3, PolledType DEF Dropped
    <3> HIDE DEF new
    <3>2. Sound([sock EXCEPT ![s] = new]) /\ Owned([sock EXCEPT ![s] = new], Freed(mem, sock[s].buffer), taken)
      BY <1>0, <1>6, <2>1, <3>1, BlockLeaves DEF Poll
    <3> QED
      BY <1>0, <2>2, <3>1, <3>2 DEF IInv
  <2>4. CASE k.state # "received"
    <3>1. /\ new.buffer = k.buffer /\ new.state # "pending"
          /\ k.buffer # None => new.state = "received"
          /\ mem' = mem
      <4>1. mem' = mem \ {None} /\ None \notin mem
        BY <1>0, <2>2, <2>4, SocketsAssumption DEF Dropped, Freed, Owned, SocketsAssumption
      <4>2. k.state = "pending" => new.state = "received"
        BY <1>0 DEF Polled, Socket
      <4> QED
        BY <1>0, <2>4, <4>1, <4>2, PolledType
    <3> HIDE DEF new
    <3>2. Sound([sock EXCEPT ![s] = new]) /\ Owned([sock EXCEPT ![s] = new], mem, taken)
      BY <1>0, <1>6, <2>1, <3>1, OneSocketSound DEF Poll
    <3> QED
      BY <1>0, <2>2, <3>1, <3>2 DEF IInv
  <2> QED
    BY <2>3, <2>4
<1>7. CASE TakeHandle(s)
  <2> DEFINE new == [k EXCEPT !.buffer = None]
  <2>1. /\ new \in Socket /\ new.open = k.open /\ new.lport = k.lport /\ new.buffer = None
        /\ new.state = "received"
    BY <1>0, <1>7 DEF TakeHandle, Socket
  <2>2. /\ sock' = [sock EXCEPT ![s] = new] /\ mem' = mem
        /\ taken' = taken \cup {sock[s].buffer} /\ ephemeral' = ephemeral
    BY <1>7 DEF TakeHandle
  <2> HIDE DEF new
  <2>3. /\ Sound([sock EXCEPT ![s] = new])
        /\ Owned([sock EXCEPT ![s] = new], mem, taken \cup {sock[s].buffer})
    BY <1>0, <1>7, <2>1, BlockLeaves DEF TakeHandle
  <2> QED
    BY <1>0, <2>2, <2>3 DEF IInv
<1>8. CASE Reply(s)
  <2>1. FreeBlocks # {} /\ sock[s].open /\ Transmit(s, sock, NewBlock) /\ taken' = taken /\ ephemeral' = ephemeral
    BY <1>8 DEF Reply
  <2> DEFINE b == NewBlock
  <2>2. b \in Blocks /\ b \notin mem
    BY <2>1, NewBlockFree
  <2> HIDE DEF b
  <2>3. Owned(sock, mem \ {b}, taken) /\ b \notin taken /\ \A t \in Sockets : sock[t].buffer # b
    BY <1>0, <2>2, FreeIsNobodys
  <2>4. Transmit(s, sock, b)
    BY <2>1 DEF b
  <2>5. Sound(sock') /\ Owned(sock', mem', taken)
    BY <1>0, <2>1, <2>2, <2>3, <2>4, TransmitSound
  <2> QED
    BY <1>0, <2>1, <2>5 DEF IInv
<1>9. CASE \E a \in Remotes : SendTo(s, a)
  <2>1. PICK a \in Remotes : SendTo(s, a)
    BY <1>9
  <2> DEFINE b == NewBlock
             new == [k EXCEPT !.raddr = a]
             sk == [sock EXCEPT ![s] = new]
  <2>2. /\ FreeBlocks # {} /\ sock[s].open /\ Transmit(s, sk, b)
        /\ taken' = taken /\ ephemeral' = ephemeral
    BY <2>1 DEF SendTo
  <2>3. b \in Blocks /\ b \notin mem
    BY <2>2, NewBlockFree
  <2>4. Sound(sk) /\ Owned(sk, mem, taken) /\ \A t \in Sockets : sk[t].buffer = sock[t].buffer /\ sk[t].open = sock[t].open
    BY <1>0, Readdressed DEF Addresses
  <2>5. sk[s].open
    BY <2>2, <2>4
  <2> HIDE DEF b, new, sk
  <2>6. Owned(sock, mem \ {b}, taken) /\ b \notin taken /\ \A t \in Sockets : sock[t].buffer # b
    BY <1>0, <2>3, FreeIsNobodys
  <2>7. Owned(sk, mem \ {b}, taken) /\ \A t \in Sockets : sk[t].buffer # b
    BY <2>4, <2>6 DEF Owned
  <2>8. Sound(sock') /\ Owned(sock', mem', taken)
    BY <2>2, <2>3, <2>4, <2>5, <2>6, <2>7, TransmitSound
  <2> QED
    BY <1>0, <2>2, <2>8 DEF IInv
<1>10. CASE \E b \in Blocks : ReplyTaken(s, b)
  <2>1. PICK b \in Blocks : ReplyTaken(s, b)
    BY <1>10
  <2>2. /\ sock[s].open /\ b \in taken /\ Transmit(s, sock, b)
        /\ taken' = taken \ {b} /\ ephemeral' = ephemeral
    BY <2>1 DEF ReplyTaken
  <2>3. Owned(sock, mem \ {b}, taken \ {b}) /\ \A t \in Sockets : sock[t].buffer # b
    BY <1>0, <2>2, TakenIsGiven
  <2>4. Sound(sock') /\ Owned(sock', mem', taken \ {b})
    BY <1>0, <2>2, <2>3, TransmitSound
  <2> QED
    BY <1>0, <2>2, <2>4 DEF IInv
<1> QED
  BY <1>1, <1>2, <1>3, <1>4, <1>5, <1>6, <1>7, <1>8, <1>9, <1>10 DEF Call

LEMMA StepInvariant == IInv /\ [Next]_vars => IInv'
<1> SUFFICES ASSUME IInv, [Next]_vars PROVE IInv'
  OBVIOUS
<1>1. CASE \E s \in Sockets : Call(s)
  BY <1>1, CallInvariant
<1>2. CASE \E b \in Blocks : FreeTaken(b)
  <2>1. PICK b \in taken : mem' = Freed(mem, b) /\ taken' = taken \ {b} /\ UNCHANGED <<sock, ephemeral>>
    BY <1>2 DEF FreeTaken
  <2>2. Owned(sock, mem \ {b}, taken \ {b})
    BY TakenIsGiven DEF IInv
  <2> QED
    BY <2>1, <2>2 DEF IInv, Freed
<1>3. CASE \E a \in Remotes, p \in Ports : a.ip # Loop /\ Arrive(a, p)
  <2>1. PICK a \in Remotes, p \in Ports : Arrive(a, p)
    BY <1>3
  <2> DEFINE b == NewBlock
             r == Received(sock, mem, b, a, p)
  <2>2. FreeBlocks # {} /\ sock' = r.sock /\ mem' = r.mem /\ taken' = taken /\ ephemeral' = ephemeral
    BY <2>1 DEF Arrive
  <2>3. b \in Blocks /\ b \notin mem
    BY <2>2, NewBlockFree
  <2> HIDE DEF b
  <2>4. Owned(sock, mem \ {b}, taken) /\ b \notin taken /\ \A t \in Sockets : sock[t].buffer # b
    BY <2>3, FreeIsNobodys DEF IInv
  <2>5. Sound(r.sock) /\ Owned(r.sock, r.mem, taken)
    BY <2>3, <2>4, ReceivedSound DEF IInv, Addresses
  <2> HIDE DEF r
  <2> QED
    BY <2>2, <2>5 DEF IInv
<1>4. CASE Tick
  <2>1. sock' = [s \in Sockets |-> IF sock[s].open THEN Ticked(sock[s]) ELSE sock[s]] /\ UNCHANGED <<ephemeral, mem, taken>>
    BY <1>4 DEF Tick
  <2>2. ASSUME NEW s \in Sockets
        PROVE  /\ sock'[s] \in Socket /\ sock'[s].open = sock[s].open /\ sock'[s].lport = sock[s].lport
               /\ sock'[s].buffer = sock[s].buffer
               /\ \/ sock'[s].state = sock[s].state
                  \/ sock[s].state = "waiting" /\ sock'[s].state = "timedout"
    <3>1. sock[s] \in Socket
      BY DEF IInv, Sound
    <3> QED
      BY <2>1, <3>1, TickedType
  <2>3. sock' \in [Sockets -> Socket]
    BY <2>1, <2>2
  <2>4. Sound(sock')
    BY <2>2, <2>3 DEF IInv, Sound
  <2>5. Owned(sock', mem', taken')
    BY <2>1, <2>2 DEF IInv, Owned
  <2> QED
    BY <2>1, <2>4, <2>5 DEF IInv
<1>5. CASE UNCHANGED vars
  BY <1>5 DEF vars, IInv
<1> QED
  BY <1>1, <1>2, <1>3, <1>4, <1>5 DEF Next

(* For any sockets, ports and blocks: no block leaks or is freed twice, no *)
(* assertion of the receiver fails, and no two sockets share a port.       *)
THEOREM SocketsAreSound == Spec => []SocketsSound
<1>1. IInv => SocketsSound
  <2> SUFFICES ASSUME IInv PROVE SocketsSound
    OBVIOUS
  <2>1. None \notin Blocks /\ \A s \in Sockets : sock[s].buffer \in Blocks \cup {None}
    BY SocketsAssumption DEF SocketsAssumption, IInv, Sound, Socket
  <2>2. HandlesOwned
    BY <2>1 DEF IInv, Sound, Owned, HandlesOwned, Held
  <2>3. StateTrue /\ PortsDistinct
    BY DEF IInv, Sound, StateTrue, PortsDistinct
  <2> QED
    BY <2>2, <2>3 DEF SocketsSound
<1> QED
  BY <1>1, InitInvariant, StepInvariant, PTL DEF Spec

(* TypeOK follows from the same invariant.                                 *)
THEOREM SocketsTypeOK == Spec => []TypeOK
<1>1. IInv => TypeOK
  BY SocketsAssumption DEF IInv, Sound, Owned, TypeOK, Socket, States, Ports, SocketsAssumption
<1> QED
  BY <1>1, InitInvariant, StepInvariant, PTL DEF Spec

-----------------------------------------------------------------------------
(* The server on its socket, which nobody else opens.                      *)

Others == Clients \cup {Broadcast}

Serves(sk) ==
  /\ sk \in [Sockets -> Socket]
  /\ sk[cb].open /\ sk[cb].lport = Port
  /\ \A s \in Sockets : s # cb => ~sk[s].open

(* While request r waits in socket one, the answer would go to who asked.  *)
Asked(one, r, c) ==
  one.state = "pending" => /\ one.buffer # None /\ one.raddr \in Others
                           /\ r.kind # "empty" => one.raddr = r.from \/ c

RequestInv ==
  /\ Serves(sock) /\ Asked(own, request, checked)
  /\ request \in [kind : Kinds, from : Clients] /\ checked \in BOOLEAN
  /\ RepliesReach

FilesInv ==
  /\ session \in [file : Files, timeout : 1 .. 255] \cup {None} /\ handle \in BOOLEAN
  /\ checks \subseteq [file : Files, to : Others] /\ files \subseteq Files
  /\ IsFiniteSet(checks) /\ IsFiniteSet(files)
  /\ \A c, d \in checks : c.file = d.file => c = d
  /\ \A c \in checks : session # None => c.file # session.file
  /\ FilesHeld

ServerInv == RequestInv /\ FilesInv

LEMMA ServerIs == cb \in Sockets /\ Port \in Services /\ Port \in Ports /\ Others \subseteq Addresses
BY CatbusAssumption DEF CatbusAssumption, cb, Port, Ports, Others, Addresses

(* What recvfrom leaves of a datagram that waited.                         *)
LEMMA PendingPolled ==
  ASSUME NEW one \in Socket, one.state = "pending"
  PROVE  /\ Polled(one) \in Socket /\ Polled(one).state = "received" /\ Polled(one).open = one.open
         /\ Polled(one).lport = one.lport /\ Polled(one).raddr = one.raddr
<1>1. Polled(one) = [one EXCEPT !.state = "received"]
  BY DEF Polled
<1> QED
  BY <1>1 DEF Socket, States

(* The server sends to other nodes only: nothing is looped back.           *)
LEMMA NothingLoops ==
  ASSUME NEW sk, NEW b, sk[cb].raddr \in Others, Transmit(cb, sk, b)
  PROVE  sock' = sk
BY CatbusAssumption DEF CatbusAssumption, Others, Transmit

(* One socket changes, and stays the server's.                             *)
LEMMA StillServes ==
  ASSUME NEW sk, Serves(sk), NEW one \in Socket, one.open, one.lport = Port
  PROVE  Serves([sk EXCEPT ![cb] = one]) /\ [sk EXCEPT ![cb] = one][cb] = one
BY ServerIs DEF Serves

LEMMA OwnIs ==
  ASSUME RequestInv
  PROVE  own \in Socket /\ own.open /\ own.lport = Port
BY ServerIs DEF RequestInv, Serves, own

-----------------------------------------------------------------------------
(* Answers.                                                                *)

LEMMA AnswersRight ==
  ASSUME RequestInv, NEW kinds, Has(kinds), "empty" \notin kinds, NEW sk,
         Serves(sk), sk[cb].state = "received", sk[cb].raddr = own.raddr,
         \/ Answer(sk)
         \/ /\ \E b : Transmit(cb, sk, b)
            /\ last' = [right |-> sk[cb].raddr = request.from, checked |-> checked]
            /\ UNCHANGED <<request, checked>>
  PROVE  RequestInv'
<1>1. own.state = "pending" /\ request.kind # "empty" /\ own.raddr \in Others /\ (own.raddr = request.from \/ checked)
  BY DEF RequestInv, Asked, Has
<1>2. sock' = sk
  BY <1>1, NothingLoops DEF Answer
<1>3. last' = [right |-> sk[cb].raddr = request.from, checked |-> checked] /\ UNCHANGED <<request, checked>>
  BY DEF Answer
<1>4. RepliesReach'
  BY <1>1, <1>3 DEF RepliesReach
<1>5. Asked(own, request, checked)'
  BY <1>2 DEF Asked, own
<1>6. Serves(sock')
  BY <1>2
<1> QED
  BY <1>3, <1>4, <1>5, <1>6 DEF RequestInv

LEMMA AfterServes ==
  ASSUME RequestInv, own.state = "pending"
  PROVE  Serves(After0) /\ After0[cb].state = "received" /\ After0[cb].raddr = own.raddr
<1>1. own \in Socket /\ own.open /\ own.lport = Port /\ Serves(sock)
  BY OwnIs DEF RequestInv
<1> DEFINE one == Polled(own)
<1>2. one \in Socket /\ one.state = "received" /\ one.open /\ one.lport = Port /\ one.raddr = own.raddr
  BY <1>1, PendingPolled
<1> HIDE DEF one
<1>3. Serves([sock EXCEPT ![cb] = one]) /\ [sock EXCEPT ![cb] = one][cb] = one
  BY <1>1, <1>2, StillServes
<1> QED
  BY <1>2, <1>3 DEF one, After0

LEMMA EmptiedServes ==
  ASSUME RequestInv, own.state = "pending"
  PROVE  Serves(Emptied) /\ Emptied[cb].state = "received" /\ Emptied[cb].raddr = own.raddr
<1>1. Serves(After0) /\ After0[cb].state = "received" /\ After0[cb].raddr = own.raddr
  BY AfterServes
<1> DEFINE one == [After0[cb] EXCEPT !.buffer = None]
<1>2. /\ one \in Socket /\ one.state = "received" /\ one.open /\ one.lport = Port /\ one.raddr = own.raddr
  BY <1>1, ServerIs DEF Serves, Socket
<1> HIDE DEF one
<1>3. Serves([After0 EXCEPT ![cb] = one]) /\ [After0 EXCEPT ![cb] = one][cb] = one
  BY <1>1, <1>2, StillServes
<1> QED
  BY <1>2, <1>3 DEF one, Emptied

(* recvfrom by the server.                                                 *)
LEMMA PollKeeps ==
  ASSUME RequestInv, Poll(cb), UNCHANGED <<request, checked, last>>
  PROVE  RequestInv'
<1>1. own \in Socket /\ own.open /\ own.lport = Port /\ Serves(sock)
  BY OwnIs DEF RequestInv
<1> DEFINE one == Polled(own)
<1>2. one \in Socket /\ one.state # "pending" /\ one.open /\ one.lport = Port
  BY <1>1, PolledType
<1>3. sock' = [sock EXCEPT ![cb] = one]
  BY DEF Poll, own
<1> HIDE DEF one
<1>4. Serves(sock') /\ sock'[cb] = one
  BY <1>1, <1>2, <1>3, StillServes
<1>5. Asked(own, request, checked)'
  BY <1>2, <1>4 DEF Asked, own
<1> QED
  BY <1>4, <1>5 DEF RequestInv, RepliesReach

-----------------------------------------------------------------------------
(* What comes, and what is sent unasked.                                   *)

LEMMA RequestComes ==
  ASSUME RequestInv, NEW kind \in Kinds, NEW from \in Clients, Request(kind, from)
  PROVE  RequestInv'
<1>1. own \in Socket /\ own.open /\ own.lport = Port /\ Serves(sock) /\ cb \in Sockets
  BY OwnIs, ServerIs DEF RequestInv
<1> DEFINE b == NewBlock
           takers == {s \in Sockets : sock[s].open /\ sock[s].lport = Port}
           one == [own EXCEPT !.buffer = b, !.raddr = from, !.state = "pending"]
<1>2. takers = {cb}
  BY <1>1 DEF Serves, own
<1>3. b \in Blocks /\ b # None
  BY NewBlockFree, SocketsAssumption DEF Request, Arrive, SocketsAssumption
<1> HIDE DEF b
<1>4. sock' = IF Accepts(sock, cb) THEN [sock EXCEPT ![cb] = one] ELSE sock
  <2>1. (CHOOSE x \in takers : TRUE) = cb /\ takers # {}
    BY <1>2
  <2> HIDE DEF takers
  <2>2. sock' = Received(sock, mem, b, from, Port).sock
    BY DEF Request, Arrive, b
  <2> QED
    BY <2>1, <2>2 DEF Received, takers, own
<1>5. CASE Accepts(sock, cb)
  <2>1. from \in Addresses /\ from \in Others
    BY ServerIs DEF Others
  <2>2. /\ one \in Socket /\ one.open /\ one.lport = Port
        /\ one.buffer = b /\ one.raddr = from /\ one.state = "pending"
    BY <1>1, <1>3, <2>1 DEF Socket, States
  <2> HIDE DEF one
  <2>3. Serves(sock') /\ sock'[cb] = one
    BY <1>1, <1>4, <1>5, <2>2, StillServes
  <2>4. request' = [kind |-> kind, from |-> from] /\ checked' = FALSE /\ last' = last
    BY <1>5 DEF Request
  <2>5. Asked(own, request, checked)'
    BY <1>3, <2>1, <2>2, <2>3, <2>4 DEF Asked, own
  <2> QED
    BY <2>3, <2>4, <2>5 DEF RequestInv, RepliesReach
<1>6. CASE ~Accepts(sock, cb)
  BY <1>4, <1>6 DEF Request, RequestInv, RepliesReach, Asked, own
<1> QED
  BY <1>5, <1>6

(* A message that the server sends to a node of its own accord.            *)
LEMMA SendKeeps ==
  ASSUME RequestInv, NEW a \in Others, SendTo(cb, a), UNCHANGED <<request, last>>,
         checked' \in BOOLEAN, own.state = "pending" /\ request.kind # "empty" => checked'
  PROVE  RequestInv'
<1>1. own \in Socket /\ own.open /\ own.lport = Port /\ Serves(sock) /\ a \in Addresses /\ cb \in Sockets
  BY OwnIs, ServerIs DEF RequestInv
<1> DEFINE one == [own EXCEPT !.raddr = a]
<1>2. /\ one \in Socket /\ one.open /\ one.lport = Port /\ one.raddr = a
      /\ one.buffer = own.buffer /\ one.state = own.state
  BY <1>1 DEF Socket
<1> DEFINE sk == [sock EXCEPT ![cb] = one]
<1>3. Transmit(cb, sk, NewBlock)
  BY DEF SendTo, own
<1> HIDE DEF one
<1>4. Serves(sk) /\ sk[cb] = one
  BY <1>1, <1>2, StillServes
<1> HIDE DEF sk
<1>5. sock' = sk
  BY <1>2, <1>3, <1>4, NothingLoops
<1>6. Asked(own, request, checked)'
  BY <1>2, <1>4, <1>5 DEF RequestInv, Asked, own
<1> QED
  BY <1>4, <1>5, <1>6 DEF RequestInv, RepliesReach

LEMMA TickKeeps ==
  ASSUME RequestInv, SocketTick
  PROVE  RequestInv'
<1>1. own \in Socket /\ own.open /\ own.lport = Port /\ Serves(sock) /\ cb \in Sockets
  BY OwnIs, ServerIs DEF RequestInv
<1>2. sock' = [s \in Sockets |-> IF sock[s].open THEN Ticked(sock[s]) ELSE sock[s]]
  BY DEF SocketTick, Tick
<1>3. \A s \in Sockets : sock'[s] \in Socket /\ sock'[s].open = sock[s].open /\ sock'[s].lport = sock[s].lport
  BY <1>1, <1>2, TickedType DEF Serves
<1>4. Serves(sock')
  BY <1>1, <1>2, <1>3 DEF Serves
<1> DEFINE one == Ticked(own)
<1>5. /\ one.buffer = own.buffer /\ one.raddr = own.raddr
      /\ one.state = own.state \/ one.state = "timedout"
  BY <1>1, TickedType DEF Ticked, Socket
<1>6. sock'[cb] = one
  BY <1>1, <1>2 DEF own
<1> HIDE DEF one
<1>7. Asked(own, request, checked)'
  BY <1>5, <1>6 DEF RequestInv, Asked, own, SocketTick, catVars
<1> QED
  BY <1>4, <1>7 DEF RequestInv, RepliesReach, SocketTick, catVars

-----------------------------------------------------------------------------
(* Files.                                                                  *)

LEMMA NewFileIsNew ==
  ASSUME FilesInv, files # Files
  PROVE  NewFile \in Files \ files
BY DEF FilesInv, NewFile

LEMMA FilesKept ==
  ASSUME FilesInv, UNCHANGED <<session, handle, checks, files>>
  PROVE  FilesInv'
BY DEF FilesInv, FilesHeld

(* The session keeps its file, whatever its time-out.                      *)
LEMMA SessionKept ==
  ASSUME FilesInv, session # None, NEW t \in 1 .. 255,
         session' = [session EXCEPT !.timeout = t], UNCHANGED <<handle, checks, files>>
  PROVE  FilesInv'
<1>1. PICK one \in [file : Files, timeout : 1 .. 255] : one = session
  BY DEF FilesInv
<1> DEFINE two == [one EXCEPT !.timeout = t]
<1>2. two \in [file : Files, timeout : 0 .. 255] /\ two \in [file : Files, timeout : 1 .. 255] /\ two.file = one.file
  OBVIOUS
<1>3. two # None
  BY <1>2, CatbusAssumption DEF CatbusAssumption
<1>4. session' = two
  BY <1>1
<1> HIDE DEF two
<1> QED
  BY <1>1, <1>2, <1>3, <1>4 DEF FilesInv, FilesHeld

LEMMA SessionOpens ==
  ASSUME FilesInv, ~handle, files # Files,
         session' = [file |-> NewFile, timeout |-> SessionTicks],
         files' = files \cup {NewFile}, handle' = TRUE, UNCHANGED checks
  PROVE  FilesInv'
<1>1. PICK f \in Files \ files : f = NewFile
  BY NewFileIsNew
<1> DEFINE one == [file |-> f, timeout |-> SessionTicks]
<1>2. one \in [file : Files, timeout : 1 .. 255] /\ one \in [file : Files, timeout : 0 .. 255] /\ one.file = f
  BY CatbusAssumption DEF CatbusAssumption
<1>3. one # None
  BY <1>2, CatbusAssumption DEF CatbusAssumption
<1>4. session' = one
  BY <1>1
<1> HIDE DEF one
<1>5. session = None
  BY DEF FilesInv, FilesHeld
<1>6. IsFiniteSet(files') /\ Cardinality(files') = Cardinality(files) + 1
  BY <1>1, FS_AddElement DEF FilesInv
<1>7. Cardinality(files) = Cardinality(checks) /\ files = {c.file : c \in checks} /\ Cardinality(checks) \in Nat
  BY <1>5, FS_CardinalityType DEF FilesInv, FilesHeld
<1>8. FilesHeld'
  BY <1>1, <1>2, <1>3, <1>4, <1>6, <1>7 DEF FilesHeld
<1>9. \A c \in checks : c.file # f
  BY <1>1, <1>7
<1> QED
  BY <1>1, <1>2, <1>4, <1>6, <1>8, <1>9 DEF FilesInv

LEMMA SessionCloses ==
  ASSUME FilesInv, session # None, files' = files \ {session.file}, session' = None, handle' = FALSE,
         UNCHANGED checks
  PROVE  FilesInv'
<1>1. PICK f \in Files : f = session.file
  BY DEF FilesInv
<1>2. f \in files /\ \A c \in checks : c.file # f
  BY <1>1 DEF FilesInv, FilesHeld
<1>3. IsFiniteSet(files') /\ Cardinality(files') = Cardinality(files) - 1
  BY <1>1, <1>2, FS_RemoveElement DEF FilesInv
<1>4. Cardinality(checks) \in Nat
  BY FS_CardinalityType DEF FilesInv
<1>5. files' = {c.file : c \in checks}
  BY <1>1, <1>2 DEF FilesInv, FilesHeld
<1>6. FilesHeld'
  <2>1. files' = {c.file : c \in checks'} \cup (IF session' = None THEN {} ELSE {session'.file})
    BY <1>5
  <2>2. Cardinality(files) = Cardinality(checks) + 1
    BY DEF FilesInv, FilesHeld
  <2>3. Cardinality(files') = Cardinality(checks') + (IF session' = None THEN 0 ELSE 1)
    BY <1>3, <1>4, <2>2
  <2>4. handle' = (session' # None)
    OBVIOUS
  <2> QED
    BY <2>1, <2>3, <2>4 DEF FilesHeld
<1> QED
  BY <1>3, <1>6 DEF FilesInv

LEMMA CheckStarts ==
  ASSUME FilesInv, files # Files, NEW a \in Others,
         checks' = checks \cup {[file |-> NewFile, to |-> a]}, files' = files \cup {NewFile},
         UNCHANGED <<session, handle>>
  PROVE  FilesInv'
<1>1. PICK f \in Files \ files : f = NewFile
  BY NewFileIsNew
<1> DEFINE one == [file |-> f, to |-> a]
<1>2. one \in [file : Files, to : Others] /\ one.file = f
  OBVIOUS
<1>3. checks' = checks \cup {one} /\ files' = files \cup {f}
  BY <1>1
<1> HIDE DEF one
<1>4. (\A c \in checks : c.file # f) /\ one \notin checks /\ (session # None => session.file # f)
  <2>1. files = {c.file : c \in checks} \cup (IF session = None THEN {} ELSE {session.file})
    BY DEF FilesInv, FilesHeld
  <2>2. \A c \in checks : c.file # f
    BY <2>1, <1>1
  <2>3. session # None => session.file # f
    BY <2>1, <1>1
  <2> QED
    BY <2>2, <2>3, <1>2
<1>5. /\ IsFiniteSet(files') /\ Cardinality(files') = Cardinality(files) + 1
      /\ IsFiniteSet(checks') /\ Cardinality(checks') = Cardinality(checks) + 1
  <2>1. IsFiniteSet(files) /\ IsFiniteSet(checks) /\ f \notin files
    BY <1>1 DEF FilesInv
  <2>2. IsFiniteSet(files \cup {f}) /\ Cardinality(files \cup {f}) = Cardinality(files) + 1
    BY <2>1, FS_AddElement
  <2>3. IsFiniteSet(checks \cup {one}) /\ Cardinality(checks \cup {one}) = Cardinality(checks) + 1
    BY <2>1, <1>4, FS_AddElement
  <2> QED
    BY <1>3, <2>2, <2>3
<1>6. Cardinality(checks) \in Nat /\ Cardinality(files) \in Nat
  BY FS_CardinalityType DEF FilesInv
<1>7. {c.file : c \in checks'} = {c.file : c \in checks} \cup {f}
  BY <1>2, <1>3
<1>8. FilesHeld'
  <2>1. files' = {c.file : c \in checks'} \cup (IF session = None THEN {} ELSE {session.file})
    BY <1>3, <1>7 DEF FilesInv, FilesHeld
  <2> QED
    BY <1>5, <1>6, <2>1 DEF FilesInv, FilesHeld
<1>9. /\ \A c, d \in checks' : c.file = d.file => c = d
      /\ \A c \in checks' : session # None => c.file # session.file
  BY <1>2, <1>3, <1>4 DEF FilesInv
<1> QED
  BY <1>1, <1>2, <1>3, <1>5, <1>8, <1>9 DEF FilesInv

LEMMA CheckEnds ==
  ASSUME FilesInv, NEW c \in checks, checks' = checks \ {c}, files' = files \ {c.file},
         UNCHANGED <<session, handle>>
  PROVE  FilesInv'
<1>1. PICK f \in Files : f = c.file
  BY DEF FilesInv
<1>2. f \in files /\ (session # None => session.file # f) /\ \A d \in checks : d # c => d.file # f
  BY <1>1 DEF FilesInv, FilesHeld
<1>3. /\ IsFiniteSet(files') /\ Cardinality(files') = Cardinality(files) - 1
      /\ IsFiniteSet(checks') /\ Cardinality(checks') = Cardinality(checks) - 1
  BY <1>1, <1>2, FS_RemoveElement DEF FilesInv
<1>4. Cardinality(checks) \in Nat /\ Cardinality(files) \in Nat
  BY FS_CardinalityType DEF FilesInv
<1>5. {d.file : d \in checks'} = {d.file : d \in checks} \ {f}
  BY <1>1, <1>2
<1>6. FilesHeld'
  <2>1. files' = {d.file : d \in checks'} \cup (IF session = None THEN {} ELSE {session.file})
    BY <1>1, <1>2, <1>5 DEF FilesInv, FilesHeld
  <2> QED
    BY <1>3, <1>4, <2>1 DEF FilesInv, FilesHeld
<1> QED
  BY <1>3, <1>6 DEF FilesInv

-----------------------------------------------------------------------------
LEMMA ServerStarts == CatInit => ServerInv
<1> SUFFICES ASSUME CatInit PROVE ServerInv
  OBVIOUS
<1>1. cb \in Sockets /\ Port \in Ports
  BY ServerIs
<1> DEFINE one == [Closed EXCEPT !.open = TRUE, !.lport = Port, !.setting = 1]
<1>2. one \in Socket /\ one.open /\ one.lport = Port /\ one.state = "idle"
  BY <1>1 DEF Closed, Socket, States
<1>3. Closed \in Socket /\ ~Closed.open
  BY DEF Closed, Socket, States
<1>4. sock = [s \in Sockets |-> IF s = cb THEN one ELSE Closed]
  BY DEF CatInit
<1> HIDE DEF one
<1>5. Serves(sock) /\ Asked(own, request, checked)
  BY <1>1, <1>2, <1>3, <1>4 DEF Serves, Asked, own
<1>6. request \in [kind : Kinds, from : Clients]
  BY CatbusAssumption DEF CatInit, CatRest, CatbusAssumption, Kinds
<1>7. RequestInv
  <2>1. checked = FALSE /\ last.right
    BY DEF CatInit, CatRest
  <2> QED
    BY <1>5, <1>6, <2>1 DEF RequestInv, RepliesReach
<1>8. IsFiniteSet({}) /\ Cardinality({}) = 0
  BY FS_EmptySet
<1>9. FilesInv
  <2>1. session = None /\ handle = FALSE /\ checks = {} /\ files = {}
    BY DEF CatInit, CatRest
  <2>2. FilesHeld
    <3>1. files = {c.file : c \in checks} \cup {}
      BY <2>1
    <3>2. Cardinality(files) = Cardinality(checks) + 0
      BY <2>1, <1>8
    <3> QED
      BY <2>1, <3>1, <3>2 DEF FilesHeld
  <2> QED
    BY <1>8, <2>1, <2>2 DEF FilesInv
<1> QED
  BY <1>7, <1>9 DEF ServerInv

LEMMA ServerStep == ServerInv /\ [CatNext]_allVars => ServerInv'
<1> SUFFICES ASSUME ServerInv, [CatNext]_allVars PROVE ServerInv'
  OBVIOUS
<1> USE DEF ServerInv
<1>0. own.state = "pending" =>
        /\ Serves(After0) /\ After0[cb].state = "received" /\ After0[cb].raddr = own.raddr
        /\ Serves(Emptied) /\ Emptied[cb].state = "received" /\ Emptied[cb].raddr = own.raddr
  BY AfterServes, EmptiedServes
<1>1. CASE Waits
  BY <1>1, PollKeeps, FilesKept DEF Waits, catVars
<1>2. CASE TimesOut
  BY <1>2, PollKeeps, FilesKept DEF TimesOut, catVars
<1>3. CASE Ignored
  BY <1>3, PollKeeps, FilesKept DEF Ignored, catVars
<1>4. CASE Answered
  <2>1. Has({"query"}) /\ Answer(After0) /\ UNCHANGED <<session, handle, checks, files>> /\ own.state = "pending"
    BY <1>4 DEF Answered, Has
  <2> QED
    BY <1>0, <2>1, AnswersRight, FilesKept
<1>5. CASE SetKeys
  <2>1. /\ Has({"set"}) /\ UNCHANGED <<request, checked, session, handle, checks, files>> /\ own.state = "pending"
        /\ \E b : Transmit(cb, Emptied, b)
        /\ last' = [right |-> Emptied[cb].raddr = request.from, checked |-> checked]
    BY <1>0, <1>5 DEF SetKeys, Has, catVars
  <2> QED
    BY <1>0, <2>1, AnswersRight, FilesKept
<1>6. CASE SetRefused
  <2>1. Has({"set"}) /\ Answer(Emptied) /\ UNCHANGED <<session, handle, checks, files>> /\ own.state = "pending"
    BY <1>6 DEF SetRefused, Has
  <2> QED
    BY <1>0, <2>1, AnswersRight, FilesKept
<1>7. CASE Open
  <2>1. Has({"open"}) /\ Answer(After0) /\ own.state = "pending"
    BY <1>7 DEF Open, Has
  <2>2. FilesInv'
    BY <1>7, SessionOpens DEF Open
  <2> QED
    BY <1>0, <2>1, <2>2, AnswersRight
<1>8. CASE OpenFails
  <2>1. /\ Has({"open", "use", "close", "check"}) /\ Answer(After0) /\ own.state = "pending"
        /\ UNCHANGED <<session, handle, checks, files>>
    BY <1>8 DEF OpenFails, Has
  <2> QED
    BY <1>0, <2>1, AnswersRight, FilesKept
<1>9. CASE Use
  <2>1. Has({"use"}) /\ own.state = "pending" /\ handle /\ session # None
    BY <1>9 DEF Use, Has, FilesInv, FilesHeld
  <2>2. FilesInv'
    BY <1>9, <2>1, SessionKept, CatbusAssumption DEF Use, Renewed, CatbusAssumption
  <2>3. CASE Answer(After0)
    BY <1>0, <2>1, <2>2, <2>3, AnswersRight
  <2>4. CASE Poll(cb) /\ UNCHANGED <<request, last, checked>>
    BY <2>2, <2>4, PollKeeps
  <2> QED
    BY <1>9, <2>3, <2>4 DEF Use
<1>10. CASE Close
  <2>1. Has({"close"}) /\ Answer(After0) /\ own.state = "pending"
    BY <1>10 DEF Close, Has
  <2>2. FilesInv'
    BY <1>10, SessionCloses DEF Close, Killed, FilesInv, FilesHeld
  <2> QED
    BY <1>0, <2>1, <2>2, AnswersRight
<1>11. CASE StartCheck
  <2>1. own.state = "pending" /\ own.raddr \in Others
    BY <1>11 DEF StartCheck, Has, RequestInv, Asked
  <2>2. FilesInv'
    BY <1>11, <2>1, CheckStarts DEF StartCheck
  <2> QED
    BY <1>11, <2>2, PollKeeps DEF StartCheck
<1>12. ASSUME NEW kind \in Kinds, NEW from \in Clients, Request(kind, from) PROVE ServerInv'
  BY <1>12, RequestComes, FilesKept DEF Request
<1>13. CASE SessionTick
  <2>1. RequestInv'
    BY <1>13 DEF SessionTick, vars, RequestInv, Asked, own, RepliesReach
  <2>2. CASE Expired
    BY <1>13, <2>1, <2>2, SessionCloses DEF SessionTick
  <2>3. CASE ~Expired
    <3>1. session \in [file : Files, timeout : 1 .. 255]
      BY <1>13 DEF SessionTick, FilesInv
    <3>2. PICK t \in 1 .. 255 : t = session.timeout
      BY <3>1
    <3>3. t - 1 \in 1 .. 255 /\ (t - 1) % 256 = t - 1
      BY <2>3, <3>2 DEF Expired
    <3>4. session' = [session EXCEPT !.timeout = t - 1] /\ UNCHANGED <<handle, checks, files>> /\ session # None
      BY <1>13, <2>3, <3>2, <3>3 DEF SessionTick
    <3> QED
      BY <2>1, <3>3, <3>4, SessionKept
  <2> QED
    BY <2>2, <2>3
<1>14. CASE SocketTick
  BY <1>14, TickKeeps, FilesKept DEF SocketTick, catVars
<1>15. CASE Announce
  <2>1. own.state = "pending" => own.buffer # None
    BY DEF RequestInv, Asked
  <2>2. own.state = "pending" /\ request.kind # "empty" => checked'
    BY <1>15, <2>1 DEF Announce, DataPending, Bytes
  <2>3. SendTo(cb, Broadcast) /\ Broadcast \in Others /\ checked' \in BOOLEAN
    BY <1>15 DEF Announce, Others, RequestInv
  <2> QED
    BY <1>15, <2>2, <2>3, SendKeeps, FilesKept DEF Announce, catVars
<1>16. ASSUME NEW c \in checks, EndCheck(c) PROVE ServerInv'
  <2>1. FilesInv'
    BY <1>16, CheckEnds DEF EndCheck
  <2>2. c.to \in Others
    BY DEF FilesInv
  <2>3. own.state = "pending" => own.buffer # None
    BY DEF RequestInv, Asked
  <2>4. CASE SendTo(cb, c.to) /\ checked' = (checked \/ Unattended)
    <3>1. checked' \in BOOLEAN /\ (own.state = "pending" => checked')
      BY <2>3, <2>4 DEF Unattended, Bytes, RequestInv
    <3> QED
      BY <1>16, <2>1, <2>2, <2>4, <3>1, SendKeeps DEF EndCheck
  <2>5. CASE UNCHANGED <<vars, checked>>
    BY <1>16, <2>1, <2>5 DEF EndCheck, vars, RequestInv, Asked, own, RepliesReach
  <2> QED
    BY <1>16, <2>4, <2>5 DEF EndCheck
<1>17. CASE UNCHANGED allVars
  BY <1>17, FilesKept DEF allVars, vars, catVars, RequestInv, Asked, own, RepliesReach
<1> QED
  BY <1>1, <1>2, <1>3, <1>4, <1>5, <1>6, <1>7, <1>8, <1>9, <1>10, <1>11, <1>12, <1>13, <1>14, <1>15, <1>16, <1>17
  DEF CatNext, Server

(* For any clients, sockets, files and time-outs: the server answers who   *)
(* asked, though it announces itself on the same socket, unless a hash was *)
(* sent from it while the request waited; and every open file belongs to   *)
(* the session or to one thread that hashes it.                            *)
THEOREM ServerIsSound == CatSpec => []ServerSound
<1>1. ServerInv => ServerSound
  BY DEF ServerInv, RequestInv, FilesInv, ServerSound
<1> QED
  BY <1>1, ServerStarts, ServerStep, PTL DEF CatSpec

-----------------------------------------------------------------------------
(* A file transfer.                                                        *)

Prefix(n) == SubSeq(Content, 1, n)
PageAt(o) == Least(Page, Length - o)
ClientType == [state : {"going", "done", "failed"}, next : Nat, ack : Nat, max : Int, cur : Int]

(* What is on the way: whatever its age, it was true of the file.          *)
ToNodeTrue(m) ==
  m.offset \in Nat /\ IF mode = "read" THEN m.kind = "get"
                      ELSE m.kind = "data" /\ m.offset < Length /\ m.len = PageAt(m.offset)
ToClientTrue(m) ==
  \/ m.kind = "error"
  \/ /\ m.offset \in Nat
     /\ IF mode = "read" THEN m.kind = "data" /\ m.len = IF m.offset >= Length THEN 0 ELSE PageAt(m.offset)
        ELSE m.kind = "get" /\ (m.offset <= Len(stored) \/ short)

TransferInv ==
  /\ mode \in {"read", "write"} /\ short \in BOOLEAN
  /\ client \in ClientType
  /\ \E n \in 0 .. Length : stored = Prefix(n) /\ Len(stored) = n
  /\ IF mode = "read" THEN Len(stored) = Length /\ client.ack <= Length /\ received = Prefix(client.ack)
                      ELSE received = << >>
  /\ \A m \in toNode : ToNodeTrue(m)
  /\ \A m \in toClient : ToClientTrue(m)
  /\ client.state = "done" => IF mode = "read" THEN client.ack = Length ELSE Len(stored) = Length \/ short

(* The content of a file, and the beginnings of it.                        *)
LEMMA PrefixIs ==
  ASSUME TransferAssumption, NEW n \in 0 .. Length
  PROVE  /\ Prefix(n) \in Seq(Nat) /\ Len(Prefix(n)) = n /\ \A i \in 1 .. n : Prefix(n)[i] = i
         /\ n = Length => Prefix(n) = Content
         /\ n = 0 => Prefix(n) = << >>
<1>1. Length \in Nat /\ Content \in Seq(Nat) /\ Len(Content) = Length /\ \A i \in 1 .. Length : Content[i] = i
  BY DEF Content, TransferAssumption
<1>2. Prefix(n) \in Seq(Nat) /\ Len(Prefix(n)) = n /\ \A i \in 1 .. n : Prefix(n)[i] = i
  BY <1>1 DEF Prefix
<1>3. ASSUME n = Length PROVE Prefix(n) = Content
  BY <1>1, <1>2, <1>3, SeqEqual
<1>4. ASSUME n = 0 PROVE Prefix(n) = << >>
  BY <1>2, <1>4
<1> QED
  BY <1>2, <1>3, <1>4

LEMMA PrefixGrows ==
  ASSUME TransferAssumption, NEW n \in 0 .. Length, NEW l \in Nat, n + l <= Length
  PROVE  Prefix(n) \o SubSeq(Content, n + 1, n + l) = Prefix(n + l)
<1>1. Length \in Nat /\ Content \in Seq(Nat) /\ Len(Content) = Length /\ \A i \in 1 .. Length : Content[i] = i
  BY DEF Content, TransferAssumption
<1> HIDE DEF Content
<1> DEFINE u == SubSeq(Content, n + 1, n + l)
           v == Prefix(n)
           w == Prefix(n + l)
<1>2. /\ v \in Seq(Nat) /\ Len(v) = n /\ \A i \in 1 .. n : v[i] = i
      /\ w \in Seq(Nat) /\ Len(w) = n + l /\ \A i \in 1 .. n + l : w[i] = i
  BY PrefixIs
<1>3. u \in Seq(Nat) /\ Len(u) = l
  BY <1>1
<1>4. \A i \in 1 .. l : u[i] = n + i
  BY <1>1
<1> HIDE DEF u, v, w
<1>5. v \o u \in Seq(Nat) /\ Len(v \o u) = n + l
  BY <1>2, <1>3
<1>6. ASSUME NEW i \in 1 .. n + l PROVE (v \o u)[i] = i
  <2>1. CASE i <= n
    BY <1>2, <1>3, <2>1
  <2>2. CASE i > n
    <3>1. i - n \in 1 .. l
      BY <2>2
    <3>2. (v \o u)[i] = u[i - n]
      BY <1>2, <1>3, <2>2
    <3> QED
      BY <1>1, <3>1, <3>2, <1>4
  <2>3. i <= n \/ i > n
    OBVIOUS
  <2> QED
    BY <2>1, <2>2, <2>3
<1>7. v \o u = w
  BY <1>2, <1>5, <1>6, SeqEqual
<1> QED
  BY <1>7 DEF u, v, w

LEMMA PageIs ==
  ASSUME TransferAssumption, NEW o \in Nat, o < Length
  PROVE  PageAt(o) \in Nat \ {0} /\ o + PageAt(o) <= Length
BY DEF PageAt, Least, TransferAssumption

LEMMA ProductIsNat ==
  ASSUME NEW i \in Nat, NEW j \in Nat
  PROVE  i * j \in Nat
OBVIOUS

LEMMA LeastIs ==
  ASSUME NEW x \in Int, NEW y \in Int
  PROVE  Least(x, y) \in {x, y}
BY DEF Least

(* What the client sends.                                                  *)
LEMMA ClientSends ==
  ASSUME TransferAssumption, mode \in {"read", "write"}, NEW c \in ClientType
  PROVE  /\ Sent(c) \in ClientType /\ Sent(c).ack = c.ack /\ Sent(c).state = c.state
         /\ \A m \in Messages(c) : ToNodeTrue(m)
<1> DEFINE I == 0 .. c.cur - 1
           N == Cardinality(Offsets(c))
<1>1. Page \in Nat /\ Length \in Nat /\ c.next \in Nat /\ c.cur \in Int /\ c.ack \in Nat /\ c.max \in Int
  BY DEF ClientType, TransferAssumption
<1>2. \A i \in I : i * Page \in Nat
  BY <1>1, ProductIsNat
<1>3. \A o \in Offsets(c) : o \in Nat /\ (mode = "read" \/ o < Length)
  BY <1>1, <1>2 DEF Offsets
<1>4. N \in Nat
  <2>1. IsFiniteSet(I)
    BY <1>1, FS_Interval
  <2> DEFINE f == [i \in I |-> c.next + i * Page]
             T == {c.next + i * Page : i \in I}
  <2>2. f \in Surjection(I, T)
    BY DEF Surjection
  <2> HIDE DEF f
  <2>3. IsFiniteSet(T)
    BY <2>1, <2>2, FS_Surjection
  <2>4. Offsets(c) \subseteq T
    BY DEF Offsets
  <2>5. IsFiniteSet(Offsets(c))
    BY <2>3, <2>4, FS_Subset
  <2> QED
    BY <2>5, FS_CardinalityType
<1>5. \A m \in Messages(c) : ToNodeTrue(m)
  <2> SUFFICES ASSUME NEW o \in Offsets(c)
               PROVE  ToNodeTrue(IF mode = "read" THEN Get(o) ELSE DataOf(o, Least(Page, Length - o)))
    BY DEF Messages
  <2>1. CASE mode = "read"
    BY <1>3, <2>1 DEF ToNodeTrue, Get
  <2>2. CASE mode # "read"
    BY <1>3, <2>2 DEF ToNodeTrue, DataOf, PageAt
  <2> QED
    BY <2>1, <2>2
<1> DEFINE next == IF Offsets(c) = {} THEN c.next
                   ELSE IF mode = "read" THEN c.next + c.cur * Page
                   ELSE Least(Length, c.next + c.cur * Page)
<1>6. next \in Nat
  <2>1. CASE Offsets(c) = {}
    BY <1>1, <2>1
  <2>2. CASE Offsets(c) # {}
    <3>1. c.cur \in Nat
      BY <1>1, <2>2 DEF Offsets
    <3>2. PICK x \in Nat : x = c.cur * Page
      BY <1>1, <3>1, ProductIsNat
    <3>3. c.next + x \in Nat /\ Least(Length, c.next + x) \in {Length, c.next + x}
      BY <1>1, LeastIs
    <3> QED
      BY <1>1, <2>2, <3>2, <3>3
  <2> QED
    BY <2>1, <2>2
<1>7. Sent(c) = [c EXCEPT !.cur = c.cur - N, !.next = next]
  BY DEF Sent
<1> HIDE DEF next, N
<1>8. c.cur - N \in Int
  BY <1>1, <1>4
<1> QED
  BY <1>5, <1>6, <1>7, <1>8 DEF ClientType

LEMMA TransferStarts == TransferAssumption /\ TransferInit => TransferInv
<1> SUFFICES ASSUME TransferAssumption, TransferInit PROVE TransferInv
  OBVIOUS
<1> DEFINE c == [state |-> "going", next |-> 0, ack |-> IF mode = "read" THEN 0 ELSE 1, max |-> Window, cur |-> Window]
<1>1. mode \in {"read", "write"} /\ c \in ClientType /\ Length \in Nat
  BY DEF TransferInit, ClientType, Window, TransferAssumption
<1>2. c.state = "going" /\ (mode = "read" => c.ack = 0)
  OBVIOUS
<1>3. toNode = Messages(c) /\ client = Sent(c)
  BY DEF TransferInit
<1> HIDE DEF c
<1>4. client \in ClientType /\ client.ack = c.ack /\ client.state = "going" /\ \A m \in toNode : ToNodeTrue(m)
  BY <1>1, <1>2, <1>3, ClientSends
<1>5. /\ Prefix(Length) = Content /\ Len(Prefix(Length)) = Length
      /\ Prefix(0) = << >> /\ Len(Prefix(0)) = 0 /\ 0 \in 0 .. Length /\ Length \in 0 .. Length
  BY <1>1, PrefixIs
<1>6. received = << >> /\ stored = (IF mode = "read" THEN Content ELSE << >>) /\ toClient = {} /\ short = FALSE
  BY DEF TransferInit
<1>7. \E n \in 0 .. Length : stored = Prefix(n) /\ Len(stored) = n
  BY <1>5, <1>6
<1>8. IF mode = "read" THEN Len(stored) = Length /\ client.ack <= Length /\ received = Prefix(client.ack)
                       ELSE received = << >>
  BY <1>1, <1>2, <1>4, <1>5, <1>6
<1> QED
  BY <1>1, <1>4, <1>6, <1>7, <1>8 DEF TransferInv

(* The client goes on from an acknowledgement, or from the beginning of    *)
(* its window.                                                             *)
LEMMA SendingKeeps ==
  ASSUME TransferAssumption, TransferInv, NEW c \in ClientType, Sending(c),
         UNCHANGED <<mode, stored, serving, lost, short>>, toClient' \subseteq toClient,
         IF mode = "read" THEN c.ack <= Length /\ received' = Prefix(c.ack) ELSE received' = received,
         c.state = "done" => IF mode = "read" THEN c.ack = Length ELSE Len(stored) = Length \/ short
  PROVE  TransferInv'
<1>1. /\ client' \in ClientType /\ client'.ack = c.ack /\ client'.state = c.state
      /\ \A m \in toNode' : ToNodeTrue(m)
  BY ClientSends DEF Sending, TransferInv
<1>2. \A m \in toNode' : ToNodeTrue(m)'
  BY <1>1 DEF ToNodeTrue
<1>3. \A m \in toClient' : ToClientTrue(m)'
  BY DEF TransferInv, ToClientTrue
<1> QED
  BY <1>1, <1>2, <1>3 DEF TransferInv

LEMMA AdvancedIs ==
  ASSUME TransferAssumption, client \in ClientType, NEW ack \in Nat, NEW over \in BOOLEAN
  PROVE  /\ Advanced(ack, over) \in ClientType /\ Advanced(ack, over).ack = ack
         /\ Advanced(ack, over).state = IF over THEN "done" ELSE "going"
<1> DEFINE max == Least(client.max + 1, Window)
           max1 == IF over THEN client.max ELSE max
           cur1 == IF over THEN 0 ELSE IF client.cur < max THEN client.cur + 1 ELSE client.cur
           st == IF over THEN "done" ELSE "going"
<1>1. client.max \in Int /\ client.cur \in Int /\ Window \in Int
  BY DEF ClientType, Window, TransferAssumption
<1>2. max \in Int
  BY <1>1, LeastIs
<1>3. max1 \in Int /\ cur1 \in Int /\ st \in {"going", "done"}
  BY <1>1, <1>2
<1>4. Advanced(ack, over) = [client EXCEPT !.ack = ack, !.state = st, !.max = max1, !.cur = cur1]
  BY DEF Advanced
<1> HIDE DEF max1, cur1, st
<1>5. Advanced(ack, over) \in ClientType /\ Advanced(ack, over).ack = ack /\ Advanced(ack, over).state = st
  BY <1>3, <1>4 DEF ClientType
<1> QED
  BY <1>5 DEF st

LEMMA ClientKeeps ==
  ASSUME TransferAssumption, TransferInv, NEW m \in toClient, ClientTakes(m)
  PROVE  TransferInv'
<1>1. /\ client \in ClientType /\ ToClientTrue(m) /\ client.state = "going" /\ toClient' \subseteq toClient
      /\ UNCHANGED <<mode, stored, serving, lost, short>> /\ mode \in {"read", "write"}
  BY DEF TransferInv, ClientTakes, Going
<1>0. client.ack \in Nat /\ Length \in Nat
  BY <1>1 DEF ClientType, TransferAssumption
<1>2. CASE UNCHANGED <<received, client, toNode>>
  BY <1>1, <1>2 DEF TransferInv, ToNodeTrue, ToClientTrue
<1>3. CASE TakeData(m) /\ IsNext(m)
  <2>1. mode = "read" /\ m.offset = client.ack /\ m.offset \in Nat /\ client.ack <= Length
        /\ m.len = (IF m.offset >= Length THEN 0 ELSE PageAt(m.offset)) /\ received = Prefix(client.ack)
    BY <1>1, <1>3 DEF TakeData, IsNext, ToClientTrue, TransferInv
  <2>2. PICK o \in 0 .. Length : o = client.ack /\ o = m.offset
    BY <1>0, <2>1
  <2>3. PICK l \in Nat : l = m.len /\ o + l <= Length /\ (l = 0 => o = Length)
    <3>1. CASE o = Length
      BY <1>0, <2>1, <2>2, <3>1
    <3>2. CASE o < Length
      BY <1>0, <2>1, <2>2, <3>2, PageIs
    <3> QED
      BY <1>0, <2>2, <3>1, <3>2
  <2> DEFINE over == l = 0
             c == Advanced(o + l, over)
  <2>4. c \in ClientType /\ c.ack = o + l /\ c.state = IF over THEN "done" ELSE "going"
    <3>1. o + l \in Nat /\ over \in BOOLEAN
      BY <1>0
    <3> QED
      BY <1>1, <3>1, AdvancedIs
  <2>5. Sending(c) /\ received' = received \o SubSeq(Content, o + 1, o + l)
    BY <1>3, <2>2, <2>3 DEF TakeData
  <2>6. received' = Prefix(o + l)
    BY <2>1, <2>2, <2>3, <2>5, PrefixGrows
  <2> HIDE DEF c
  <2>7. c.state = "done" => c.ack = Length
    BY <2>3, <2>4
  <2> QED
    BY <1>1, <2>1, <2>3, <2>4, <2>5, <2>6, <2>7, SendingKeeps
<1>4. CASE TakeAck(m) /\ m.offset >= client.ack
  <2>1. mode = "write" /\ m.offset \in Nat /\ (m.offset <= Len(stored) \/ short) /\ received' = received
    BY <1>1, <1>4 DEF TakeAck, ToClientTrue
  <2> DEFINE over == AllSent(m)
             c == Advanced(m.offset, over)
  <2>2. over \in BOOLEAN
    BY DEF AllSent
  <2>3. c \in ClientType /\ c.state = IF over THEN "done" ELSE "going"
    BY <1>1, <2>1, <2>2, AdvancedIs
  <2>4. over => Len(stored) = Length \/ short
    BY <1>0, <2>1 DEF AllSent, TransferInv
  <2>5. Sending(c)
    BY <1>4 DEF TakeAck
  <2> HIDE DEF c
  <2> QED
    BY <1>1, <2>1, <2>3, <2>4, <2>5, SendingKeeps
<1>5. CASE TakeError(m)
  <2>1. client' = [client EXCEPT !.state = "failed"] /\ UNCHANGED <<received, toNode>>
    BY <1>5 DEF TakeError
  <2>2. client' \in ClientType /\ client'.ack = client.ack /\ client'.state = "failed"
    BY <1>1, <2>1 DEF ClientType
  <2> QED
    BY <1>1, <2>1, <2>2 DEF TransferInv, ToNodeTrue, ToClientTrue
<1> QED
  BY <1>2, <1>3, <1>4, <1>5 DEF ClientTakes, TakeData, TakeAck

LEMMA NodeKeeps ==
  ASSUME TransferAssumption, TransferInv, NEW m \in toNode, NodeTakes(m)
  PROVE  TransferInv'
<1>1. /\ ToNodeTrue(m) /\ toNode' \subseteq toNode /\ UNCHANGED <<mode, client, received, lost>>
      /\ mode \in {"read", "write"} /\ m.offset \in Nat /\ Length \in Nat
  BY DEF TransferInv, NodeTakes, ToNodeTrue, TransferAssumption
<1>0. PICK n \in 0 .. Length : stored = Prefix(n) /\ Len(stored) = n
  BY DEF TransferInv
<1>2. \A x \in toNode' : ToNodeTrue(x)'
  BY <1>1 DEF TransferInv, ToNodeTrue
<1>3. CASE UNCHANGED <<toClient, stored, short>>
  BY <1>1, <1>2, <1>3 DEF TransferInv, ToClientTrue
<1>4. CASE Respond(Error) /\ UNCHANGED <<stored, short>>
  <2>1. \A x \in toClient' : ToClientTrue(x)'
    BY <1>1, <1>4 DEF TransferInv, ToClientTrue, Respond, Error
  <2> QED
    BY <1>1, <1>2, <1>4, <2>1 DEF TransferInv
<1>5. CASE GivePage(m)
  <2> DEFINE l == IF m.offset >= Len(stored) THEN 0 ELSE Least(Page, Len(stored) - m.offset)
             d == DataOf(m.offset, l)
  <2>1. mode = "read" /\ Len(stored) = Length
    BY <1>1, <1>5 DEF GivePage, ToNodeTrue, TransferInv
  <2>2. UNCHANGED <<stored, short>> /\ toClient' = toClient \cup {d}
    BY <1>5 DEF GivePage, Respond
  <2>3. d.kind = "data" /\ d.offset = m.offset /\ d.len = IF d.offset >= Length THEN 0 ELSE PageAt(d.offset)
    BY <2>1 DEF DataOf, PageAt
  <2> HIDE DEF d
  <2>4. \A x \in toClient' : ToClientTrue(x)'
    BY <1>1, <2>1, <2>2, <2>3 DEF TransferInv, ToClientTrue
  <2> QED
    BY <1>1, <1>2, <2>2, <2>4 DEF TransferInv
<1>6. CASE TakePage(m) /\ InPlace(m)
  <2>1. mode = "write" /\ m.offset = n /\ n < Length /\ m.len = PageAt(n)
    BY <1>0, <1>1, <1>6 DEF TakePage, InPlace, ToNodeTrue
  <2>2. PICK l \in Nat : l = m.len /\ n + l <= Length
    BY <1>0, <2>1, PageIs
  <2> DEFINE d == Get(n + l)
  <2>3. toClient' = toClient \cup {d}
    BY <1>6, <2>1, <2>2 DEF TakePage, Respond
  <2>4. d.kind = "get" /\ d.offset = n + l
    BY DEF Get
  <2> HIDE DEF d
  <2>5. \/ \E j \in 0 .. l : /\ stored' = stored \o SubSeq(Content, n + 1, n + j)
                             /\ short' = (short \/ j < l)
        \/ short' = TRUE /\ UNCHANGED stored
    BY <1>6, <2>1, <2>2 DEF TakePage
  <2>6. PICK j \in 0 .. l : /\ stored' = Prefix(n + j) /\ Len(stored') = n + j
                            /\ short' \in BOOLEAN /\ (short => short') /\ (j = l \/ short')
    <3>1. CASE short' = TRUE /\ UNCHANGED stored
      <4>1. stored' = Prefix(n + 0) /\ Len(stored') = n + 0 /\ 0 \in 0 .. l
        BY <1>0, <3>1
      <4> QED
        BY <3>1, <4>1
    <3>2. ASSUME NEW j \in 0 .. l, stored' = stored \o SubSeq(Content, n + 1, n + j), short' = (short \/ j < l)
          PROVE  /\ stored' = Prefix(n + j) /\ Len(stored') = n + j
                 /\ short' \in BOOLEAN /\ (short => short') /\ (j = l \/ short')
      <4>1. j \in Nat /\ n + j \in 0 .. Length /\ n + j <= Length
        BY <1>1, <2>2
      <4>2. stored' = Prefix(n + j)
        BY <1>0, <3>2, <4>1, PrefixGrows
      <4>3. Len(Prefix(n + j)) = n + j
        BY <4>1, PrefixIs
      <4>4. (j = l \/ j < l) /\ (j < l) \in BOOLEAN /\ short \in BOOLEAN
        BY DEF TransferInv
      <4> QED
        BY <3>2, <4>2, <4>3, <4>4
    <3> QED
      BY <2>5, <3>1, <3>2
  <2>7. n + j \in 0 .. Length
    BY <1>1, <2>2
  <2>8. \A x \in toClient' : ToClientTrue(x)'
    <3> SUFFICES ASSUME NEW x \in toClient' PROVE ToClientTrue(x)'
      OBVIOUS
    <3>1. CASE x = d
      BY <1>1, <2>1, <2>4, <2>6, <3>1 DEF ToClientTrue
    <3>2. CASE x \in toClient
      <4>1. ToClientTrue(x)
        BY <3>2 DEF TransferInv
      <4>2. Len(stored) <= Len(stored')
        BY <1>0, <2>6
      <4>3. x.offset \in Nat /\ x.offset <= Len(stored) => x.offset <= Len(stored')
        BY <1>0, <2>6, <4>2
      <4> QED
        BY <1>1, <2>1, <2>6, <4>1, <4>3 DEF ToClientTrue
    <3> QED
      BY <2>3, <3>1, <3>2
  <2>9. client.state = "done" => Len(stored') = Length \/ short'
    BY <1>0, <2>1, <2>6 DEF TransferInv
  <2> QED
    BY <1>1, <1>2, <2>1, <2>6, <2>7, <2>8, <2>9 DEF TransferInv
<1> QED
  BY <1>3, <1>4, <1>5, <1>6 DEF NodeTakes, TakePage

(* Stepping back to what was acknowledged keeps a client one.              *)
SteppedBackTo(c) == [c EXCEPT !.next = c.ack, !.cur = 1, !.max = 1]

LEMMA SteppedBack ==
  ASSUME NEW c \in ClientType
  PROVE  /\ SteppedBackTo(c) \in ClientType
         /\ SteppedBackTo(c).ack = c.ack /\ SteppedBackTo(c).state = c.state
<1>1. PICK st \in {"going", "done", "failed"}, n \in Nat, a \in Nat, x \in Int, y \in Int :
         c = [state |-> st, next |-> n, ack |-> a, max |-> x, cur |-> y]
  BY DEF ClientType
<1> DEFINE rewound == [state |-> st, next |-> a, ack |-> a, max |-> x, cur |-> y]
           narrow == [state |-> st, next |-> a, ack |-> a, max |-> x, cur |-> 1]
           d == [state |-> st, next |-> a, ack |-> a, max |-> 1, cur |-> 1]
<1>2. c.ack = a /\ c.state = st
  BY <1>1
<1>3. [c EXCEPT !.next = a] = rewound
  BY <1>1
<1>4. [rewound EXCEPT !.cur = 1] = narrow
  OBVIOUS
<1>5. [narrow EXCEPT !.max = 1] = d
  OBVIOUS
<1>6. d \in ClientType /\ d.ack = a /\ d.state = st
  BY DEF ClientType
<1> HIDE DEF rewound, narrow, d
<1>7. SteppedBackTo(c) = d
  BY Zenon, <1>2, <1>3, <1>4, <1>5 DEF SteppedBackTo
<1> QED
  BY <1>2, <1>6, <1>7

LEMMA TransferStep ==
  ASSUME TransferAssumption, TransferInv, [TransferNext]_transferVars
  PROVE  TransferInv'
<1>1. CASE TimeOut
  <2>1. client \in ClientType /\ client.state = "going"
    BY <1>1 DEF TransferInv, TimeOut, Going
  <2>2. BackOff \in ClientType /\ BackOff.ack = client.ack /\ BackOff.state = "going"
    <3>1. PICK c \in ClientType : c = client
      BY <2>1
    <3>2. SteppedBackTo(c) \in ClientType /\ SteppedBackTo(c).ack = c.ack /\ SteppedBackTo(c).state = c.state
      BY SteppedBack
    <3>3. BackOff = SteppedBackTo(c)
      BY Zenon, <3>1 DEF BackOff, SteppedBackTo
    <3> QED
      BY <2>1, <3>1, <3>2, <3>3
  <2>3. Sending(BackOff) /\ UNCHANGED <<mode, stored, serving, lost, short, toClient, received>>
    BY <1>1 DEF TimeOut
  <2>4. IF mode = "read" THEN BackOff.ack <= Length /\ received' = Prefix(BackOff.ack) ELSE received' = received
    BY <2>2, <2>3 DEF TransferInv
  <2> QED
    BY <2>2, <2>3, <2>4, SendingKeeps
<1>2. CASE SessionEnds
  BY <1>2 DEF SessionEnds, TransferInv, ToNodeTrue, ToClientTrue
<1>3. CASE Lose
  BY <1>3 DEF Lose, TransferInv, ToNodeTrue, ToClientTrue
<1>4. ASSUME NEW m \in toNode, NodeTakes(m) PROVE TransferInv'
  BY <1>4, NodeKeeps
<1>5. ASSUME NEW m \in toClient, ClientTakes(m) PROVE TransferInv'
  BY <1>5, ClientKeeps
<1>6. CASE UNCHANGED transferVars
  BY <1>6 DEF transferVars, TransferInv, ToNodeTrue, ToClientTrue
<1> QED
  BY <1>1, <1>2, <1>3, <1>4, <1>5, <1>6 DEF TransferNext

(* For any file, page and windows, and whatever the network loses, delays, *)
(* repeats or reorders: read_file and write_file put nothing out of place, *)
(* and what they call done is whole, unless the node had no room or no     *)
(* power after it had acknowledged.                                        *)
THEOREM TransfersAreWhole ==
  ASSUME TransferAssumption
  PROVE  TransferSpec => []WholeTransfer
<1>1. TransferInv => WholeTransfer
  <2> SUFFICES ASSUME TransferInv PROVE WholeTransfer
    OBVIOUS
  <2>1. PICK n \in 0 .. Length : stored = Prefix(n) /\ Len(stored) = n
    BY DEF TransferInv
  <2>2. n = Length => stored = Content
    BY <2>1, PrefixIs
  <2>3. stored = SubSeq(Content, 1, Len(stored))
    BY <2>1 DEF Prefix
  <2>4. CASE mode = "read"
    <3>1. client.ack \in 0 .. Length /\ received = Prefix(client.ack) /\ n = Length
      BY <2>1, <2>4 DEF TransferInv, ClientType, TransferAssumption
    <3>2. PICK a \in 0 .. Length : a = client.ack
      BY <3>1
    <3>3. Len(received) = a /\ received = SubSeq(Content, 1, a) /\ (a = Length => received = Content)
      BY <3>1, <3>2, PrefixIs DEF Prefix
    <3>4. received = SubSeq(Content, 1, Len(received))
      BY <3>3
    <3>5. client.state = "done" => a = Length
      BY <2>4, <3>2 DEF TransferInv
    <3> QED
      BY <2>2, <2>3, <2>4, <3>1, <3>3, <3>4, <3>5 DEF WholeTransfer
  <2>5. CASE mode # "read"
    <3>1. received = << >> /\ (client.state = "done" => n = Length \/ short)
      BY <2>1, <2>5 DEF TransferInv
    <3>2. Prefix(0) = << >> /\ 0 \in 0 .. Length
      BY PrefixIs DEF TransferAssumption
    <3>3. received = SubSeq(Content, 1, Len(received))
      BY <3>1, <3>2 DEF Prefix
    <3> QED
      BY <2>2, <2>3, <2>5, <3>1, <3>3 DEF WholeTransfer
  <2> QED
    BY <2>4, <2>5
<1> QED
  BY <1>1, TransferStarts, TransferStep, PTL DEF TransferSpec

-----------------------------------------------------------------------------
(* KvDatabase.                                                             *)

(* A set of numbers has a least one.                                       *)
LEMMA LeastOf ==
  ASSUME NEW S \in SUBSET Nat, S # {}
  PROVE  \E m \in S : \A k \in S : m <= k
<1>1. PICK n \in Nat : n \in S
  OBVIOUS
<1> DEFINE N == 0 .. n
           T == {0 .. k : k \in S \cap N}
<1>2. IsFiniteSet(N)
  BY FS_Interval
<1>3. IsWellFoundedOn(StrictSubsetOrdering(N), FiniteSubsetsOf(N))
  BY FS_StrictSubsetOrderingWellFounded
<1>4. \A k \in S \cap N : 0 .. k \in SUBSET N /\ IsFiniteSet(0 .. k)
  BY FS_Interval
<1>5. T \subseteq FiniteSubsetsOf(N)
  BY <1>4 DEF FiniteSubsetsOf
<1>6. 0 .. n \in T
  BY <1>1
<1> HIDE DEF T, N
<1>7. PICK x \in T : \A y \in T : ~(<<y, x>> \in StrictSubsetOrdering(N))
  BY <1>3, <1>5, <1>6, WFMin
<1>8. PICK m \in S \cap N : x = 0 .. m
  BY DEF T
<1>9. ASSUME NEW k \in S, ~(m <= k) PROVE FALSE
  <2>1. k \in S \cap N /\ m \in Nat /\ k \in Nat
    BY <1>8, <1>9 DEF N
  <2>2. 0 .. k \in T
    BY <2>1 DEF T
  <2>3. 0 .. k \subseteq 0 .. m /\ 0 .. k # 0 .. m
    BY <1>9, <2>1
  <2>4. 0 .. k \in SUBSET N /\ 0 .. m \in SUBSET N
    BY <1>8, <2>1 DEF N
  <2>5. <<0 .. k, 0 .. m>> \in StrictSubsetOrdering(N)
    BY <2>3, <2>4 DEF StrictSubsetOrdering
  <2> QED
    BY <1>7, <1>8, <2>2, <2>5
<1> QED
  BY <1>8, <1>9

(* Induction, over the set of the numbers of which something holds.        *)
LEMMA Inductive ==
  ASSUME NEW S, 0 \in S, \A n \in Nat : n \in S => n + 1 \in S
  PROVE  Nat \subseteq S
<1> SUFFICES ASSUME NEW x \in Nat, x \notin S PROVE FALSE
  OBVIOUS
<1> DEFINE T == Nat \ S
<1>1. PICK m \in T : \A k \in T : m <= k
  <2>1. T \in SUBSET Nat /\ T # {}
    OBVIOUS
  <2> HIDE DEF T
  <2> QED
    BY <2>1, LeastOf
<1>2. m # 0 /\ m \in Nat
  OBVIOUS
<1>3. m - 1 \in Nat /\ m - 1 \notin T
  BY <1>1, <1>2
<1> QED
  BY <1>2, <1>3

(* The numbers of a range with which all smaller ones come are a first     *)
(* part of it.                                                             *)
LEMMA FirstPart ==
  ASSUME NEW n \in Nat, NEW S \in SUBSET (1 .. n),
         \A i \in 1 .. n : \A j \in S : i < j => i \in S
  PROVE  Cardinality(S) \in 0 .. n /\ S = 1 .. Cardinality(S)
<1> DEFINE T == {k \in 1 .. n + 1 : k \notin S}
<1>1. n + 1 \in T /\ T \in SUBSET Nat
  OBVIOUS
<1>2. PICK m \in T : \A k \in T : m <= k
  <2> HIDE DEF T
  <2> QED
    BY <1>1, LeastOf
<1>3. m \in 1 .. n + 1 /\ m \notin S
  OBVIOUS
<1>4. S = 1 .. m - 1
  <2>1. \A i \in S : i < m
    BY <1>3
  <2>2. ASSUME NEW i \in 1 .. m - 1, i \notin S PROVE FALSE
    <3>1. i \in T
      BY <1>3, <2>2
    <3> QED
      BY <1>2, <1>3, <3>1
  <2> HIDE DEF T
  <2>3. S \subseteq 1 .. m - 1
    <3> SUFFICES ASSUME NEW i \in S PROVE i \in 1 .. m - 1
      OBVIOUS
    <3>1. i \in 1 .. n /\ i < m
      BY <2>1
    <3> QED
      BY <1>3, <3>1
  <2>4. 1 .. m - 1 \subseteq S
    BY <2>2
  <2> QED
    BY <2>3, <2>4
<1> HIDE DEF T
<1>5. Cardinality(1 .. m - 1) = m - 1
  BY <1>3, FS_Interval
<1> QED
  BY <1>3, <1>4, <1>5

(* Numbers can be put into descending order: the next one is inserted      *)
(* before the first smaller one.                                           *)
Orders(p, n, H) ==
  /\ \A i, j \in 1 .. n : p[i] = p[j] => i = j
  /\ \A i, j \in 1 .. n : i < j => H[p[i]] >= H[p[j]]

Orderable(n) ==
  \A H \in [1 .. n -> Nat] : \E p \in [1 .. n -> 1 .. n] : Orders(p, n, H)

LEMMA OrderInserted ==
  ASSUME NEW n \in Nat, NEW H, NEW p, Orders(p, n, H),
         \A i \in 1 .. n + 1 : H[i] \in Nat, \A i \in 1 .. n : p[i] \in 1 .. n
  PROVE  \E q \in [1 .. n + 1 -> 1 .. n + 1] : Orders(q, n + 1, H)
<1> DEFINE T == {i \in 1 .. n + 1 : i = n + 1 \/ H[p[i]] < H[n + 1]}
<1>1. T \in SUBSET Nat /\ n + 1 \in T
  OBVIOUS
<1>2. PICK k \in 1 .. n + 1 : /\ k = n + 1 \/ H[p[k]] < H[n + 1]
                              /\ \A i \in 1 .. n : i < k => ~(H[p[i]] < H[n + 1])
  <2>1. PICK k \in T : \A i \in T : k <= i
    <3> HIDE DEF T
    <3> QED
      BY <1>1, LeastOf
  <2>2. ASSUME NEW i \in 1 .. n, i < k PROVE ~(H[p[i]] < H[n + 1])
    <3>1. k \in Int /\ i \notin T
      <4> k \in Int
        BY <1>1
      <4> HIDE DEF T
      <4> QED
        BY <2>1, <2>2
    <3> QED
      BY <3>1
  <2> QED
    BY <2>2
<1>3. (\A i \in 1 .. n : p[i] \in 1 .. n /\ H[p[i]] \in Nat) /\ H[n + 1] \in Nat
  OBVIOUS
<1> HIDE DEF T
<1>4. \A i \in 1 .. n : i < k => H[p[i]] >= H[n + 1]
  BY <1>2, <1>3
<1>5. ASSUME NEW i \in 1 .. n, i >= k PROVE H[p[i]] < H[n + 1]
  <2>1. k \in 1 .. n /\ H[n + 1] \in Nat /\ H[p[k]] < H[n + 1]
    BY <1>2, <1>5
  <2>2. H[p[i]] <= H[p[k]]
    <3>1. i > k => H[p[k]] >= H[p[i]]
      BY <2>1 DEF Orders
    <3>2. H[p[i]] \in Nat /\ H[p[k]] \in Nat
      BY <2>1, <1>3
    <3> QED
      BY <1>5, <2>1, <3>1, <3>2
  <2> QED
    BY <2>1, <2>2, <1>3
<1> DEFINE q == [i \in 1 .. n + 1 |-> IF i < k THEN p[i] ELSE IF i = k THEN n + 1 ELSE p[i - 1]]
<1>6. /\ \A i \in 1 .. n + 1 : i < k => i \in 1 .. n /\ q[i] = p[i]
      /\ q[k] = n + 1
      /\ \A i \in 1 .. n + 1 : i > k => i - 1 \in 1 .. n /\ i - 1 >= k /\ q[i] = p[i - 1]
  BY <1>2
<1>7. q \in [1 .. n + 1 -> 1 .. n + 1]
  <2> SUFFICES ASSUME NEW i \in 1 .. n + 1 PROVE q[i] \in 1 .. n + 1
    OBVIOUS
  <2> HIDE DEF q
  <2>1. CASE i < k
    BY <1>6, <1>3, <2>1
  <2>2. CASE i = k
    BY <1>6, <2>2
  <2>3. CASE i > k
    BY <1>6, <1>3, <2>3
  <2> QED
    BY <1>2, <2>1, <2>2, <2>3
<1> HIDE DEF q
<1>8. ASSUME NEW i \in 1 .. n + 1, NEW j \in 1 .. n + 1, i < j
      PROVE  q[i] # q[j] /\ H[q[i]] >= H[q[j]]
  <2>1. CASE j < k
    <3>1. i \in 1 .. n /\ j \in 1 .. n /\ q[i] = p[i] /\ q[j] = p[j]
      BY <1>2, <1>6, <1>8, <2>1
    <3> QED
      BY <1>8, <3>1 DEF Orders
  <2>2. CASE j = k
    <3>1. i \in 1 .. n /\ i < k /\ q[i] = p[i] /\ q[j] = n + 1
      BY <1>2, <1>6, <1>8, <2>2
    <3> QED
      BY <1>3, <1>4, <3>1
  <2>3. CASE j > k /\ i < k
    <3>1. i \in 1 .. n /\ j - 1 \in 1 .. n /\ i < j - 1 /\ q[i] = p[i] /\ q[j] = p[j - 1]
      BY <1>2, <1>6, <1>8, <2>3
    <3> QED
      BY <3>1 DEF Orders
  <2>4. CASE i = k
    <3>1. j - 1 \in 1 .. n /\ j - 1 >= k /\ q[i] = n + 1 /\ q[j] = p[j - 1]
      BY <1>2, <1>6, <1>8, <2>4
    <3>2. H[p[j - 1]] < H[n + 1] /\ H[p[j - 1]] \in Nat /\ H[n + 1] \in Nat
      BY <3>1, <1>3, <1>5
    <3> QED
      BY <1>3, <3>1, <3>2
  <2>5. CASE i > k
    <3>1. j > k
      BY <1>2, <1>8, <2>5
    <3>2. i - 1 \in 1 .. n /\ j - 1 \in 1 .. n /\ q[i] = p[i - 1] /\ q[j] = p[j - 1]
      BY <1>6, <2>5, <3>1
    <3>3. i - 1 < j - 1
      BY <1>8
    <3> QED
      BY <3>2, <3>3 DEF Orders
  <2> QED
    BY <1>2, <2>1, <2>2, <2>3, <2>4, <2>5
<1>9. Orders(q, n + 1, H)
  <2>1. ASSUME NEW i \in 1 .. n + 1, NEW j \in 1 .. n + 1, q[i] = q[j] PROVE i = j
    BY <1>8, <2>1
  <2>2. \A i, j \in 1 .. n + 1 : i < j => H[q[i]] >= H[q[j]]
    BY <1>8
  <2> QED
    BY <2>1, <2>2 DEF Orders
<1> QED
  BY <1>7, <1>9

LEMMA OrderExists ==
  ASSUME NEW n \in Nat
  PROVE  Orderable(n)
<1> DEFINE S == {k \in Nat : Orderable(k)}
<1>1. 0 \in S
  <2> SUFFICES ASSUME NEW H \in [1 .. 0 -> Nat] PROVE \E p \in [1 .. 0 -> 1 .. 0] : Orders(p, 0, H)
    BY DEF Orderable
  <2>1. [i \in 1 .. 0 |-> i] \in [1 .. 0 -> 1 .. 0]
    OBVIOUS
  <2>2. Orders([i \in 1 .. 0 |-> i], 0, H)
    BY DEF Orders
  <2> QED
    BY <2>1, <2>2
<1>2. ASSUME NEW k \in Nat, Orderable(k) PROVE Orderable(k + 1)
  <2> SUFFICES ASSUME NEW H \in [1 .. k + 1 -> Nat]
               PROVE  \E q \in [1 .. k + 1 -> 1 .. k + 1] : Orders(q, k + 1, H)
    BY DEF Orderable
  <2> DEFINE G == [i \in 1 .. k |-> H[i]]
  <2>1. G \in [1 .. k -> Nat]
    OBVIOUS
  <2>2. PICK p \in [1 .. k -> 1 .. k] : Orders(p, k, G)
    BY <1>2, <2>1 DEF Orderable
  <2>3. Orders(p, k, H)
    <3>1. \A i \in 1 .. k : p[i] \in 1 .. k /\ G[p[i]] = H[p[i]]
      OBVIOUS
    <3> HIDE DEF G
    <3> QED
      BY <2>2, <3>1 DEF Orders
  <2> QED
    BY <2>3, OrderInserted
<1>3. \A k \in Nat : k \in S => k + 1 \in S
  BY <1>2
<1> HIDE DEF S
<1>4. Nat \subseteq S
  BY <1>1, <1>3, Inductive
<1> QED
  BY <1>4 DEF S

(* What sorting makes of entries: the same ones, each once, in descending  *)
(* order.                                                                  *)
Entry == [hash : Nat, data : Data, tag : Tags \cup {Nothing}]

LEMMA SortedIs ==
  ASSUME NEW d \in Seq(Entry)
  PROVE  \E p \in [1 .. Len(d) -> 1 .. Len(d)] :
           Sorts(p, d) /\ Sorted(d) = [i \in 1 .. Len(d) |-> d[p[i]]]
<1> DEFINE n == Len(d)
           H == [i \in 1 .. n |-> d[i].hash]
           P(p) == p \in [DOMAIN d -> DOMAIN d] /\ Sorts(p, d)
<1>1. n \in Nat /\ DOMAIN d = 1 .. n /\ \A i \in 1 .. n : d[i] \in Entry
  OBVIOUS
<1>2. H \in [1 .. n -> Nat]
  BY <1>1 DEF Entry
<1>3. PICK p \in [1 .. n -> 1 .. n] : Orders(p, n, H)
  <2> HIDE DEF H, n
  <2> QED
    BY <1>1, <1>2, OrderExists DEF Orderable
<1>4. Sorts(p, d)
  <2>1. \A i \in 1 .. n : p[i] \in 1 .. n /\ H[p[i]] = d[p[i]].hash
    OBVIOUS
  <2> HIDE DEF H, n
  <2> QED
    BY <1>1, <1>3, <2>1 DEF Sorts, Orders
<1> DEFINE q == CHOOSE q \in [DOMAIN d -> DOMAIN d] : Sorts(q, d)
<1>5. q \in [1 .. n -> 1 .. n] /\ Sorts(q, d)
  BY <1>1, <1>3, <1>4
<1>6. Sorted(d) = [i \in 1 .. n |-> d[q[i]]]
  BY <1>1 DEF Sorted
<1> HIDE DEF q
<1> QED
  BY <1>5, <1>6

(* A database as the calls leave it: free entries come last, the others    *)
(* descend.                                                                *)
Places(d) == {i \in 1 .. Len(d) : d[i].hash # 0}
Distinct(d) == \A i, j \in Places(d) : d[i].hash = d[j].hash => i = j
Kept(d, n) ==
  /\ d \in Seq(Entry) /\ n \in 0 .. Len(d) /\ Places(d) = 1 .. n
  /\ \A i, j \in 1 .. n : i < j => d[i].hash > d[j].hash

(* s has the n entries of d, in the order p.                               *)
Reordered(d, s, p, n) ==
  /\ n \in Nat /\ p \in [1 .. n -> 1 .. n]
  /\ \A i, j \in 1 .. n : p[i] = p[j] => i = j
  /\ DOMAIN d = 1 .. n /\ DOMAIN s = 1 .. n /\ Len(d) = n /\ Len(s) = n
  /\ \A i \in 1 .. n : s[i] = d[p[i]]

LEMMA SortedSame ==
  ASSUME NEW n, NEW d, NEW s, NEW p, Reordered(d, s, p, n)
  PROVE  Entries(s) = Entries(d) /\ Cardinality(Places(s)) = Cardinality(Places(d))
<1> USE DEF Reordered
<1>1. n \in Nat /\ \A i \in 1 .. n : p[i] \in 1 .. n
  OBVIOUS
<1>2. \A j \in 1 .. n : \E i \in 1 .. n : p[i] = j
  <2>1. p \in Injection(1 .. n, 1 .. n)
    BY DEF Injection, IsInjective
  <2>2. IsFiniteSet(1 .. n)
    BY FS_Interval
  <2>3. p \in Surjection(1 .. n, 1 .. n)
    BY <2>1, <2>2, FS_Injection
  <2> QED
    BY <2>3 DEF Surjection
<1>3. Entries(s) = Entries(d)
  <2>1. Entries(s) \subseteq Entries(d)
    BY <1>1 DEF Entries
  <2>2. ASSUME NEW e \in Entries(d) PROVE e \in Entries(s)
    <3>1. PICK j \in 1 .. n : e = d[j] /\ e.hash # 0
      BY DEF Entries
    <3>2. PICK i \in 1 .. n : p[i] = j
      BY <1>2
    <3>3. e = s[i] /\ i \in DOMAIN s
      BY <3>1, <3>2
    <3> QED
      BY <3>1, <3>3 DEF Entries
  <2> QED
    BY <2>1, <2>2
<1>4. Cardinality(Places(s)) = Cardinality(Places(d))
  <2> DEFINE f == [i \in Places(s) |-> p[i]]
  <2>1. f \in [Places(s) -> Places(d)]
    BY <1>1 DEF Places
  <2>2. \A i, j \in Places(s) : f[i] = f[j] => i = j
    BY DEF Places
  <2>3. ASSUME NEW j \in Places(d) PROVE \E i \in Places(s) : f[i] = j
    <3>1. PICK i \in 1 .. n : p[i] = j
      BY <1>2 DEF Places
    <3>2. i \in Places(s)
      BY <3>1 DEF Places
    <3> QED
      BY <3>1, <3>2
  <2> HIDE DEF f
  <2>4. f \in Bijection(Places(s), Places(d))
    BY <2>1, <2>2, <2>3 DEF Bijection, Injection, IsInjective, Surjection
  <2>5. IsFiniteSet(Places(s))
    <3>1. Places(s) \in SUBSET (1 .. n) /\ IsFiniteSet(1 .. n)
      BY FS_Interval DEF Places
    <3> QED
      BY <3>1, FS_Subset
  <2>6. ExistsBijection(Places(s), Places(d))
    BY <2>4 DEF ExistsBijection
  <2> QED
    BY <2>5, <2>6, FS_Bijection
<1> QED
  BY <1>3, <1>4

LEMMA KeptSorted ==
  ASSUME NEW d \in Seq(Entry), Distinct(d)
  PROVE  /\ Kept(Sorted(d), Cardinality(Places(d)))
         /\ Entries(Sorted(d)) = Entries(d)
<1> DEFINE n == Len(d)
           s == Sorted(d)
<1>1. n \in Nat /\ DOMAIN d = 1 .. n /\ \A i \in 1 .. n : d[i] \in Entry
  OBVIOUS
<1>2. PICK p \in [1 .. n -> 1 .. n] : Sorts(p, d) /\ s = [i \in 1 .. n |-> d[p[i]]]
  BY SortedIs
<1> HIDE DEF s, n
<1>3. \A i \in 1 .. n : p[i] \in 1 .. n
  OBVIOUS
<1>4. /\ \A i, j \in 1 .. n : p[i] = p[j] => i = j
      /\ \A i, j \in 1 .. n : i < j => d[p[i]].hash >= d[p[j]].hash
  BY <1>1, <1>2 DEF Sorts
<1>5. s \in [1 .. n -> Entry] /\ \A i \in 1 .. n : s[i] = d[p[i]]
  BY <1>1, <1>2, <1>3
<1>6. s \in Seq(Entry) /\ DOMAIN s = 1 .. n /\ Len(s) = n
  BY <1>1, <1>5
<1>7. Entries(s) = Entries(d) /\ Cardinality(Places(s)) = Cardinality(Places(d))
  <2>1. Len(d) = n
    BY DEF n
  <2>2. Reordered(d, s, p, n)
    BY <2>1, <1>1, <1>4, <1>5, <1>6 DEF Reordered
  <2> QED
    BY <2>2, SortedSame
<1>8. \A i \in 1 .. n : s[i].hash \in Nat
  BY <1>5 DEF Entry
<1>9. \A i, j \in 1 .. n : i < j => s[i].hash >= s[j].hash
  BY <1>4, <1>5
<1>10. Cardinality(Places(s)) \in 0 .. n /\ Places(s) = 1 .. Cardinality(Places(s))
  <2>1. Places(s) \in SUBSET (1 .. n)
    BY <1>6 DEF Places
  <2>2. ASSUME NEW i \in 1 .. n, NEW j \in Places(s), i < j PROVE i \in Places(s)
    <3>1. j \in 1 .. n /\ s[j].hash # 0
      BY <1>6 DEF Places
    <3>2. s[i].hash >= s[j].hash
      BY <1>9, <2>2, <3>1
    <3>3. s[i].hash # 0
      BY <1>8, <3>1, <3>2
    <3> QED
      BY <1>6, <3>3 DEF Places
  <2> QED
    <3>1. \A i \in 1 .. n : \A j \in Places(s) : i < j => i \in Places(s)
      BY <2>2
    <3> QED
      BY <1>1, <2>1, <3>1, FirstPart
<1>11. ASSUME NEW i \in Places(s), NEW j \in Places(s), i < j PROVE s[i].hash > s[j].hash
  <2>1. i \in 1 .. n /\ j \in 1 .. n /\ s[i].hash # 0 /\ s[j].hash # 0
    BY <1>6 DEF Places
  <2>2. p[i] \in Places(d) /\ p[j] \in Places(d)
    BY <1>3, <1>5, <2>1 DEF Places, n
  <2>3. p[i] # p[j]
    BY <1>4, <1>11, <2>1
  <2>4. s[i].hash # s[j].hash
    BY <1>5, <2>1, <2>2, <2>3 DEF Distinct
  <2> QED
    BY <1>8, <1>9, <1>11, <2>1, <2>4
<1>12. Kept(s, Cardinality(Places(s)))
  BY <1>6, <1>10, <1>11 DEF Kept
<1> QED
  BY <1>7, <1>12 DEF s

(* The binary search: it exists, as its ranges become smaller, and what it *)
(* finds in descending entries is there, and is found if it is there.      *)
Ranges == (1 .. Len(db) + 1) \X (0 .. Len(db))
Half(f, r, h) ==
  LET middle == (r[1] + r[2]) \div 2
  IN  IF r[1] > r[2] THEN 0
      ELSE IF db[middle].hash > h THEN f[<<middle + 1, r[2]>>]
      ELSE IF db[middle].hash = h THEN middle
      ELSE f[<<r[1], middle - 1>>]
Shorter(r, n) == r[2] - r[1] < n
Halves(f, n, h) == \A r \in Ranges : Shorter(r, n) => f[r] = Half(f, r, h)
Right(f, r, h) ==
  /\ f[r] # 0 => f[r] \in 1 .. Len(db) /\ db[f[r]].hash = h
  /\ f[r] = 0 => \A i \in r[1] .. r[2] : db[i].hash # h

LEMMA MiddleIs ==
  ASSUME Len(db) \in Nat, NEW r \in Ranges, NEW n \in Nat, Shorter(r, n + 1), ~(r[1] > r[2]),
         NEW m, m = (r[1] + r[2]) \div 2
  PROVE  /\ m \in 1 .. Len(db) /\ m \in r[1] .. r[2]
         /\ <<m + 1, r[2]>> \in Ranges /\ Shorter(<<m + 1, r[2]>>, n)
         /\ <<r[1], m - 1>> \in Ranges /\ Shorter(<<r[1], m - 1>>, n)
<1>1. r[1] \in 1 .. Len(db) + 1 /\ r[2] \in 0 .. Len(db) /\ r[1] <= r[2] /\ r[2] - r[1] < n + 1
  BY DEF Ranges, Shorter
<1>2. PICK a \in Nat, b \in Nat : a = r[1] /\ b = r[2]
  BY <1>1
<1>3. 1 <= a /\ a <= b /\ b <= Len(db) /\ b - a < n + 1 /\ m = (a + b) \div 2
  BY <1>1, <1>2
<1>4. m \in Int /\ a <= m /\ m <= b
  BY <1>3
<1>5. m \in 1 .. Len(db) /\ m \in a .. b
  BY <1>3, <1>4
<1>6. m + 1 \in 1 .. Len(db) + 1 /\ b \in 0 .. Len(db) /\ b - (m + 1) < n
  BY <1>3, <1>4
<1>7. a \in 1 .. Len(db) + 1 /\ m - 1 \in 0 .. Len(db) /\ (m - 1) - a < n
  BY <1>3, <1>4
<1>8. <<m + 1, b>> \in Ranges /\ Shorter(<<m + 1, b>>, n)
  BY <1>6 DEF Ranges, Shorter
<1>9. <<a, m - 1>> \in Ranges /\ Shorter(<<a, m - 1>>, n)
  BY <1>7 DEF Ranges, Shorter
<1> QED
  BY <1>2, <1>5, <1>8, <1>9

LEMMA HalfSame ==
  ASSUME Len(db) \in Nat, NEW h, NEW n \in Nat, NEW f, NEW g, NEW r \in Ranges, Shorter(r, n + 1),
         \A q \in Ranges : Shorter(q, n) => g[q] = f[q]
  PROVE  Half(g, r, h) = Half(f, r, h)
<1> DEFINE m == (r[1] + r[2]) \div 2
<1>1. ~(r[1] > r[2]) => g[<<m + 1, r[2]>>] = f[<<m + 1, r[2]>>] /\ g[<<r[1], m - 1>>] = f[<<r[1], m - 1>>]
  <2> HIDE DEF m
  <2> SUFFICES ASSUME ~(r[1] > r[2])
               PROVE  g[<<m + 1, r[2]>>] = f[<<m + 1, r[2]>>] /\ g[<<r[1], m - 1>>] = f[<<r[1], m - 1>>]
    OBVIOUS
  <2>1. <<m + 1, r[2]>> \in Ranges /\ Shorter(<<m + 1, r[2]>>, n)
    BY MiddleIs DEF m
  <2>2. <<r[1], m - 1>> \in Ranges /\ Shorter(<<r[1], m - 1>>, n)
    BY MiddleIs DEF m
  <2> QED
    BY <2>1, <2>2
<1> QED
  BY <1>1 DEF Half

LEMMA FindExists ==
  ASSUME Len(db) \in Nat, NEW h
  PROVE  \E f : f = [r \in Ranges |-> Half(f, r, h)]
<1> DEFINE S == {n \in Nat : \E f : Halves(f, n, h)}
<1>1. Halves([r \in Ranges |-> 0], 0, h)
  <2> SUFFICES ASSUME NEW r \in Ranges, Shorter(r, 0)
               PROVE  [q \in Ranges |-> 0][r] = Half([q \in Ranges |-> 0], r, h)
    BY DEF Halves
  <2>1. r[1] > r[2]
    BY DEF Ranges, Shorter
  <2> QED
    BY <2>1 DEF Half
<1>2. ASSUME NEW n \in Nat, NEW f, Halves(f, n, h)
      PROVE  Halves([r \in Ranges |-> Half(f, r, h)], n + 1, h)
  <2> DEFINE g == [r \in Ranges |-> Half(f, r, h)]
  <2>1. \A q \in Ranges : Shorter(q, n) => g[q] = f[q]
    BY <1>2 DEF Halves
  <2>2. \A q \in Ranges : g[q] = Half(f, q, h)
    OBVIOUS
  <2> HIDE DEF g
  <2>3. Halves(g, n + 1, h)
    <3> SUFFICES ASSUME NEW r \in Ranges, Shorter(r, n + 1) PROVE g[r] = Half(g, r, h)
      BY DEF Halves
    <3>1. Half(g, r, h) = Half(f, r, h)
      BY <2>1, HalfSame
    <3> QED
      BY <2>2, <3>1
  <2> QED
    BY <2>3 DEF g
<1>3. 0 \in S
  BY <1>1
<1>4. ASSUME NEW n \in Nat, n \in S PROVE n + 1 \in S
  <2>1. PICK f : Halves(f, n, h)
    BY <1>4
  <2>2. Halves([r \in Ranges |-> Half(f, r, h)], n + 1, h)
    BY <1>2, <2>1
  <2>3. \E g : Halves(g, n + 1, h)
    BY <2>2
  <2> QED
    BY <2>3
<1>5. S = S /\ \A n \in S : \E f : Halves(f, n, h)
  OBVIOUS
<1> HIDE DEF S
<1>6. Nat \subseteq S
  <2>1. \A n \in Nat : n \in S => n + 1 \in S
    BY <1>4
  <2> QED
    BY <1>3, <2>1, Inductive
<1>7. PICK f : Halves(f, Len(db) + 1, h)
  <2>1. Len(db) + 1 \in S
    BY <1>6
  <2> QED
    BY <1>5, <2>1
<1> DEFINE g == [r \in Ranges |-> Half(f, r, h)]
<1>8. \A r \in Ranges : Shorter(r, Len(db) + 1) /\ Shorter(r, (Len(db) + 1) + 1)
  <2> SUFFICES ASSUME NEW r \in Ranges PROVE Shorter(r, Len(db) + 1) /\ Shorter(r, (Len(db) + 1) + 1)
    OBVIOUS
  <2>1. r[2] - r[1] \in Int /\ r[2] - r[1] < Len(db)
    BY DEF Ranges
  <2> QED
    BY <2>1 DEF Shorter
<1>9. \A r \in Ranges : g[r] = f[r]
  BY <1>7, <1>8 DEF Halves
<1>10. \A r \in Ranges : Half(g, r, h) = Half(f, r, h)
  <2> HIDE DEF g
  <2> SUFFICES ASSUME NEW r \in Ranges PROVE Half(g, r, h) = Half(f, r, h)
    OBVIOUS
  <2>1. Len(db) + 1 \in Nat /\ Shorter(r, (Len(db) + 1) + 1)
    BY <1>8
  <2>2. \A q \in Ranges : Shorter(q, Len(db) + 1) => g[q] = f[q]
    BY <1>9
  <2> HIDE DEF Ranges, Shorter
  <2> QED
    BY <2>1, <2>2, HalfSame
<1>11. g = [r \in Ranges |-> Half(g, r, h)]
  <2> DEFINE k == [r \in Ranges |-> Half(g, r, h)]
  <2>1. \A r \in Ranges : g[r] = k[r]
    BY <1>10
  <2> QED
    BY <1>10
<1> QED
  BY <1>11
LEMMA KeptFalls ==
  ASSUME NEW d, NEW n, Kept(d, n)
  PROVE  /\ Len(d) \in Nat /\ DOMAIN d = 1 .. Len(d) /\ n \in Nat /\ n <= Len(d)
         /\ \A i \in 1 .. Len(d) : d[i] \in Entry /\ d[i].hash \in Nat /\ (d[i].hash # 0 <=> i <= n)
         /\ \A i, j \in 1 .. Len(d) : i < j => d[i].hash >= d[j].hash
<1>1. d \in Seq(Entry) /\ n \in 0 .. Len(d) /\ Places(d) = 1 .. n
  BY DEF Kept
<1>2. Len(d) \in Nat /\ DOMAIN d = 1 .. Len(d) /\ \A i \in 1 .. Len(d) : d[i] \in Entry
  BY <1>1
<1>3. n \in Nat /\ n <= Len(d)
  BY <1>1, <1>2
<1>4. \A i \in 1 .. Len(d) : d[i].hash \in Nat
  BY <1>2 DEF Entry
<1>5. \A i \in 1 .. Len(d) : d[i].hash # 0 <=> i <= n
  <2> SUFFICES ASSUME NEW i \in 1 .. Len(d) PROVE d[i].hash # 0 <=> i <= n
    OBVIOUS
  <2>1. i \in Places(d) <=> i \in 1 .. n
    BY <1>1
  <2>2. i \in 1 .. n <=> i <= n
    BY <1>2, <1>3
  <2> QED
    BY <2>1, <2>2 DEF Places
<1>6. ASSUME NEW i \in 1 .. Len(d), NEW j \in 1 .. Len(d), i < j PROVE d[i].hash >= d[j].hash
  <2>1. CASE j <= n
    <3>1. i \in 1 .. n /\ j \in 1 .. n
      BY <1>2, <1>3, <1>6, <2>1
    <3>2. d[i].hash > d[j].hash
      BY <1>6, <3>1 DEF Kept
    <3> QED
      BY <1>4, <3>2
  <2>2. CASE ~(j <= n)
    <3>1. d[j].hash = 0 /\ d[i].hash \in Nat
      BY <1>4, <1>5, <2>2
    <3> QED
      BY <3>1
  <2> QED
    BY <2>1, <2>2
<1> QED
  BY <1>2, <1>3, <1>4, <1>5, <1>6

LEMMA RightNext ==
  ASSUME NEW n \in Nat, NEW h \in Nat, NEW f, Kept(db, count), NEW r \in Ranges, Shorter(r, n + 1),
         f[r] = Half(f, r, h), \A q \in Ranges : Shorter(q, n) => Right(f, q, h)
  PROVE  Right(f, r, h)
<1>1. Len(db) \in Nat /\ \A i \in 1 .. Len(db) : db[i].hash \in Nat
  BY KeptFalls
<1>2. \A i, j \in 1 .. Len(db) : i < j => db[i].hash >= db[j].hash
  BY KeptFalls
<1>3. PICK a \in Int, b \in Int : a = r[1] /\ b = r[2] /\ 1 <= a /\ b <= Len(db)
  BY <1>1 DEF Ranges
<1>4. CASE a > b
  <2>1. f[r] = 0
    BY <1>3, <1>4 DEF Half
  <2> QED
    BY <1>3, <1>4, <2>1 DEF Right
<1>5. CASE ~(a > b)
  <2> DEFINE m == (a + b) \div 2
  <2>1. /\ m \in 1 .. Len(db) /\ m \in a .. b
        /\ <<m + 1, b>> \in Ranges /\ Shorter(<<m + 1, b>>, n)
        /\ <<a, m - 1>> \in Ranges /\ Shorter(<<a, m - 1>>, n)
    BY <1>1, <1>3, <1>5, MiddleIs
  <2>2. f[r] = IF db[m].hash > h THEN f[<<m + 1, b>>]
               ELSE IF db[m].hash = h THEN m ELSE f[<<a, m - 1>>]
    BY <1>3, <1>5 DEF Half
  <2> HIDE DEF m
  <2>3. m \in Int /\ db[m].hash \in Nat /\ 1 <= m /\ a <= m /\ m <= b /\ m <= Len(db)
    BY <1>1, <2>1
  <2>4. CASE db[m].hash > h
    <3>1. Right(f, <<m + 1, b>>, h) /\ f[r] = f[<<m + 1, b>>]
      BY <2>1, <2>2, <2>4
    <3>2. f[r] # 0 => f[r] \in 1 .. Len(db) /\ db[f[r]].hash = h
      BY <3>1 DEF Right
    <3>3. ASSUME f[r] = 0, NEW i \in a .. b, db[i].hash = h PROVE FALSE
      <4>1. CASE i > m
        <5>1. i \in m + 1 .. b
          BY <2>3, <4>1
        <5> QED
          BY <3>1, <3>3, <5>1 DEF Right
      <4>2. CASE ~(i > m)
        <5>1. i \in 1 .. Len(db) /\ i <= m
          BY <1>1, <1>3, <2>3, <4>2
        <5>2. i = m \/ db[i].hash >= db[m].hash
          BY <1>2, <2>1, <5>1
        <5> QED
          BY <2>3, <2>4, <3>3, <5>2
      <4> QED
        BY <4>1, <4>2
    <3> QED
      BY <1>3, <3>2, <3>3 DEF Right
  <2>5. CASE db[m].hash = h
    <3>1. f[r] = m
      BY <2>2, <2>3, <2>5
    <3> QED
      BY <2>1, <2>3, <2>5, <3>1 DEF Right
  <2>6. CASE db[m].hash < h
    <3>1. Right(f, <<a, m - 1>>, h) /\ f[r] = f[<<a, m - 1>>]
      BY <2>1, <2>2, <2>3, <2>6
    <3>2. f[r] # 0 => f[r] \in 1 .. Len(db) /\ db[f[r]].hash = h
      BY <3>1 DEF Right
    <3>3. ASSUME f[r] = 0, NEW i \in a .. b, db[i].hash = h PROVE FALSE
      <4>1. CASE i < m
        <5>1. i \in a .. m - 1
          BY <2>3, <4>1
        <5> QED
          BY <3>1, <3>3, <5>1 DEF Right
      <4>2. CASE ~(i < m)
        <5>1. i \in 1 .. Len(db) /\ i >= m
          BY <1>1, <1>3, <2>3, <4>2
        <5>2. i = m \/ db[m].hash >= db[i].hash
          BY <1>2, <2>1, <5>1
        <5> QED
          BY <2>3, <2>6, <3>3, <5>2
      <4> QED
        BY <4>1, <4>2
    <3> QED
      BY <1>3, <3>2, <3>3 DEF Right
  <2> QED
    BY <2>3, <2>4, <2>5, <2>6
<1> QED
  BY <1>4, <1>5

LEMMA FindIs ==
  ASSUME NEW h \in Nat, Kept(db, count), NEW f, f = [r \in Ranges |-> Half(f, r, h)], NEW r \in Ranges
  PROVE  Right(f, r, h)
<1> DEFINE P(n) == \A q \in Ranges : Shorter(q, n) => Right(f, q, h)
           S == {n \in Nat : P(n)}
<1>1. \A q \in Ranges : f[q] = Half(f, q, h)
  OBVIOUS
<1>2. Len(db) \in Nat
  BY KeptFalls
<1>3. P(0)
  <2> SUFFICES ASSUME NEW q \in Ranges, Shorter(q, 0) PROVE Right(f, q, h)
    OBVIOUS
  <2>1. q[1] \in Int /\ q[2] \in Int /\ q[1] > q[2]
    BY <1>2 DEF Ranges, Shorter
  <2>2. f[q] = 0
    BY <1>1, <2>1 DEF Half
  <2> QED
    BY <2>1, <2>2 DEF Right
<1>4. ASSUME NEW n \in Nat, P(n) PROVE P(n + 1)
  BY <1>1, <1>4, RightNext
<1>5. 0 \in S /\ \A n \in Nat : n \in S => n + 1 \in S
  BY <1>3, <1>4
<1>6. \A n \in S : P(n)
  OBVIOUS
<1> HIDE DEF S
<1>7. Nat \subseteq S
  BY <1>5, Inductive
<1>8. P(Len(db) + 1)
  <2>1. Len(db) + 1 \in S
    BY <1>2, <1>7
  <2> QED
    BY <1>6, <2>1
<1>9. Shorter(r, Len(db) + 1)
  BY <1>2 DEF Ranges, Shorter
<1> QED
  BY <1>8, <1>9

LEMMA BinarySearchIs ==
  ASSUME NEW h \in Nat \ {0}, Kept(db, count)
  PROVE  /\ BinarySearch(h) \in 0 .. count
         /\ BinarySearch(h) # 0 => db[BinarySearch(h)].hash = h
         /\ BinarySearch(h) = 0 => \A i \in 1 .. count : db[i].hash # h
<1> DEFINE f == CHOOSE f : f = [r \in Ranges |-> Half(f, r, h)]
           r == <<1, Len(db)>>
<1>1. Len(db) \in Nat /\ count \in Nat /\ count <= Len(db)
  BY KeptFalls
<1>2. f = [q \in Ranges |-> Half(f, q, h)]
  <2>1. \E g : g = [q \in Ranges |-> Half(g, q, h)]
    BY <1>1, FindExists
  <2> QED
    BY <2>1
<1>3. BinarySearch(h) = f[r]
  BY DEF BinarySearch, Ranges, Half
<1> HIDE DEF f
<1>4. r \in Ranges
  BY <1>1 DEF Ranges
<1>5. Right(f, r, h)
  BY <1>2, <1>4, FindIs
<1>6. f[r] # 0 => f[r] \in 1 .. count /\ db[f[r]].hash = h
  <2> SUFFICES ASSUME f[r] # 0 PROVE f[r] \in 1 .. count /\ db[f[r]].hash = h
    OBVIOUS
  <2>1. f[r] \in 1 .. Len(db) /\ db[f[r]].hash = h
    BY <1>5 DEF Right
  <2>2. db[f[r]].hash # 0
    BY <2>1
  <2>3. f[r] <= count
    BY <2>1, <2>2, KeptFalls
  <2> QED
    BY <1>1, <2>1, <2>3
<1>7. f[r] = 0 => \A i \in 1 .. count : db[i].hash # h
  BY <1>1, <1>5 DEF Right
<1> HIDE DEF r
<1> QED
  BY <1>1, <1>3, <1>6, <1>7
(* What the refinement rests on: the database is kept, and what the cache  *)
(* says is true.                                                           *)
KvInv ==
  /\ Kept(db, count)
  /\ cache \in [hash : Nat, index : Nat]
  /\ cache.index # 0 => cache.index \in 1 .. count /\ db[cache.index].hash = cache.hash

LEMMA SearchIs ==
  ASSUME NEW h \in Hashes, KvInv
  PROVE  /\ Search(h) \in 0 .. count
         /\ Search(h) # 0 => db[Search(h)].hash = h
         /\ Search(h) = 0 => \A i \in 1 .. count : db[i].hash # h
<1>1. h \in Nat \ {0}
  BY DatabaseAssumption
<1>2. CASE Cached(h)
  <2>1. Search(h) = cache.index /\ cache.index # 0 /\ cache.hash = h
    BY <1>2 DEF Search, Cached
  <2>2. cache.index \in 1 .. count /\ db[cache.index].hash = h /\ count \in Nat
    BY <2>1, KeptFalls DEF KvInv
  <2> QED
    BY <2>1, <2>2
<1>3. CASE ~Cached(h)
  <2>1. Search(h) = BinarySearch(h)
    BY <1>3 DEF Search
  <2> QED
    BY <1>1, <2>1, BinarySearchIs DEF KvInv
<1> QED
  BY <1>2, <1>3

(* The map that entries make.                                              *)
Unique(E) == \A e, g \in E : e.hash = g.hash => e = g
Stored(e) == [data |-> e.data, tag |-> e.tag]

LEMMA ContentsIs ==
  ASSUME NEW E, Unique(E)
  PROVE  /\ DOMAIN Contents(E) = {e.hash : e \in E}
         /\ \A e \in E : Contents(E)[e.hash] = Stored(e)
<1>1. DOMAIN Contents(E) = {e.hash : e \in E}
  BY DEF Contents
<1>2. ASSUME NEW e \in E PROVE Contents(E)[e.hash] = Stored(e)
  <2> DEFINE g == CHOOSE g \in E : g.hash = e.hash
  <2>1. g \in E /\ g.hash = e.hash
    OBVIOUS
  <2>2. g = e
    BY <2>1 DEF Unique
  <2>3. e.hash \in {x.hash : x \in E}
    OBVIOUS
  <2>4. Contents(E)[e.hash] = [data |-> g.data, tag |-> g.tag]
    BY <2>3 DEF Contents
  <2> QED
    BY <2>2, <2>4 DEF Stored
<1> QED
  BY <1>1, <1>2

LEMMA ContentsAre ==
  ASSUME NEW E, Unique(E), NEW m, m = [h \in DOMAIN m |-> m[h]],
         DOMAIN m = {e.hash : e \in E}, \A e \in E : m[e.hash] = Stored(e)
  PROVE  m = Contents(E)
<1>1. /\ DOMAIN Contents(E) = {e.hash : e \in E}
      /\ \A e \in E : Contents(E)[e.hash] = Stored(e)
  BY ContentsIs
<1>2. \A h \in DOMAIN m : m[h] = Contents(E)[h]
  BY <1>1
<1>3. Contents(E) = [h \in {e.hash : e \in E} |-> Contents(E)[h]]
  BY DEF Contents
<1>4. m = [h \in {e.hash : e \in E} |-> m[h]]
  OBVIOUS
<1> QED
  BY <1>2, <1>3, <1>4

LEMMA ContentsMore ==
  ASSUME NEW E, Unique(E), NEW e, \A g \in E : g.hash # e.hash
  PROVE  Contents(E \cup {e}) = [k \in DOMAIN Contents(E) \cup {e.hash} |->
                                  IF k = e.hash THEN Stored(e) ELSE Contents(E)[k]]
<1> DEFINE m == [k \in DOMAIN Contents(E) \cup {e.hash} |->
                  IF k = e.hash THEN Stored(e) ELSE Contents(E)[k]]
           D == E \cup {e}
<1>1. Unique(D)
  BY DEF Unique
<1>2. /\ DOMAIN Contents(E) = {g.hash : g \in E}
      /\ \A g \in E : Contents(E)[g.hash] = Stored(g)
  BY ContentsIs
<1>3. DOMAIN m = {g.hash : g \in D}
  BY <1>2
<1>4. \A g \in D : m[g.hash] = Stored(g)
  <2> SUFFICES ASSUME NEW g \in D PROVE m[g.hash] = Stored(g)
    OBVIOUS
  <2>1. CASE g = e
    BY <2>1
  <2>2. CASE g \in E
    <3>1. g.hash # e.hash /\ g.hash \in DOMAIN Contents(E)
      BY <1>2, <2>2
    <3>2. m[g.hash] = Contents(E)[g.hash]
      BY <3>1
    <3> QED
      BY <1>2, <2>2, <3>2
  <2> QED
    BY <2>1, <2>2
<1>5. m = [k \in DOMAIN m |-> m[k]]
  OBVIOUS
<1> HIDE DEF m, D
<1>6. m = Contents(D)
  BY <1>1, <1>3, <1>4, <1>5, ContentsAre
<1> QED
  BY <1>6 DEF m, D

But(m, S) == [k \in DOMAIN m \ S |-> m[k]]
Remain(D, E, S) == D \in SUBSET E /\ \A e \in E : e \in D <=> e.hash \notin S

LEMMA ContentsLess ==
  ASSUME NEW E, Unique(E), NEW D, NEW S, Remain(D, E, S)
  PROVE  Contents(D) = But(Contents(E), S)
<1> USE DEF Remain
<1> DEFINE m == [k \in DOMAIN Contents(E) \ S |-> Contents(E)[k]]
<1>1. Unique(D)
  BY DEF Unique
<1>2. /\ DOMAIN Contents(E) = {g.hash : g \in E}
      /\ \A g \in E : Contents(E)[g.hash] = Stored(g)
  BY ContentsIs
<1>3. DOMAIN m = {g.hash : g \in D}
  BY <1>2
<1>4. \A g \in D : m[g.hash] = Stored(g)
  <2> SUFFICES ASSUME NEW g \in D PROVE m[g.hash] = Stored(g)
    OBVIOUS
  <2>1. g.hash \in DOMAIN Contents(E) \ S
    BY <1>2
  <2>2. m[g.hash] = Contents(E)[g.hash]
    BY <2>1
  <2> QED
    BY <1>2, <2>2
<1>5. m = [k \in DOMAIN m |-> m[k]]
  OBVIOUS
<1> HIDE DEF m
<1>6. m = Contents(D)
  BY <1>1, <1>3, <1>4, <1>5, ContentsAre
<1> QED
  BY <1>6 DEF m, But

WithData(d, i, x) == [d EXCEPT ![i].data = x] \* of entries, and of a map

LEMMA ContentsPut ==
  ASSUME NEW E, Unique(E), NEW e \in E, NEW x, NEW g, g.hash = e.hash, g.data = x, g.tag = e.tag
  PROVE  Contents((E \ {e}) \cup {g}) = WithData(Contents(E), e.hash, x)
<1> USE DEF WithData
<1> DEFINE m == WithData(Contents(E), e.hash, x)
           D == (E \ {e}) \cup {g}
<1>1. Unique(D)
  BY DEF Unique
<1>2. /\ DOMAIN Contents(E) = {f.hash : f \in E}
      /\ \A f \in E : Contents(E)[f.hash] = Stored(f)
  BY ContentsIs
<1>3. DOMAIN m = {f.hash : f \in D}
  <2>1. DOMAIN m = {f.hash : f \in E}
    BY <1>2
  <2> QED
    BY <2>1
<1>4. \A f \in D : m[f.hash] = Stored(f)
  <2> SUFFICES ASSUME NEW f \in D PROVE m[f.hash] = Stored(f)
    OBVIOUS
  <2>1. CASE f = g
    <3>1. m[e.hash] = [Contents(E)[e.hash] EXCEPT !.data = x]
      BY <1>2
    <3>2. Contents(E)[e.hash] = Stored(e)
      BY <1>2
    <3>3. m[e.hash] = [data |-> x, tag |-> e.tag]
      BY <3>1, <3>2 DEF Stored
    <3> QED
      BY <2>1, <3>3 DEF Stored
  <2>2. CASE f \in E \ {e}
    <3>1. f.hash # e.hash /\ f.hash \in DOMAIN Contents(E)
      BY <1>2, <2>2 DEF Unique
    <3>2. m[f.hash] = Contents(E)[f.hash]
      BY <3>1
    <3> QED
      BY <1>2, <2>2, <3>2
  <2> QED
    BY <2>1, <2>2
<1>5. m = [k \in DOMAIN m |-> m[k]]
  BY DEF Contents
<1> HIDE DEF m, D
<1>6. m = Contents(D)
  BY <1>1, <1>3, <1>4, <1>5, ContentsAre
<1> QED
  BY <1>6 DEF m, D

LEMMA KeptEntries ==
  ASSUME NEW d, NEW n, Kept(d, n)
  PROVE  /\ Entries(d) = {d[i] : i \in 1 .. n} /\ Unique(Entries(d))
         /\ \A i, j \in 1 .. n : d[i].hash = d[j].hash => i = j
<1>1. /\ Len(d) \in Nat /\ DOMAIN d = 1 .. Len(d) /\ n \in Nat /\ n <= Len(d)
      /\ \A i \in 1 .. Len(d) : d[i].hash \in Nat /\ (d[i].hash # 0 <=> i <= n)
  BY KeptFalls
<1>2. Entries(d) = {d[i] : i \in 1 .. n}
  <2>1. ASSUME NEW e \in Entries(d) PROVE e \in {d[i] : i \in 1 .. n}
    <3>1. PICK i \in 1 .. Len(d) : e = d[i] /\ d[i].hash # 0
      BY <1>1 DEF Entries
    <3>2. i \in 1 .. n
      BY <1>1, <3>1
    <3> QED
      BY <3>1, <3>2
  <2>2. ASSUME NEW i \in 1 .. n PROVE d[i] \in Entries(d)
    <3>1. i \in DOMAIN d /\ d[i].hash # 0
      BY <1>1
    <3> QED
      BY <3>1 DEF Entries
  <2> QED
    BY <2>1, <2>2
<1>3. ASSUME NEW i \in 1 .. n, NEW j \in 1 .. n, d[i].hash = d[j].hash, i # j PROVE FALSE
  <2>1. i < j => d[i].hash > d[j].hash
    BY DEF Kept
  <2>2. j < i => d[j].hash > d[i].hash
    BY DEF Kept
  <2>3. d[i].hash \in Nat /\ d[j].hash \in Nat /\ (i < j \/ j < i)
    BY <1>1, <1>3
  <2> QED
    BY <1>3, <2>1, <2>2, <2>3
<1>4. Unique(Entries(d))
  BY <1>2, <1>3 DEF Unique
<1> QED
  BY <1>2, <1>3, <1>4
(* What the calls make of the entries.                                     *)
LEMMA PutIs ==
  ASSUME NEW d, NEW n, Kept(d, n), NEW i \in 1 .. n, NEW x \in Data
  PROVE  /\ Kept(WithData(d, i, x), n) /\ \A j \in 1 .. n : WithData(d, i, x)[j].hash = d[j].hash
         /\ Contents(Entries(WithData(d, i, x))) = WithData(Contents(Entries(d)), d[i].hash, x)
<1> DEFINE s == WithData(d, i, x)
           g == [d[i] EXCEPT !.data = x]
<1>1. /\ Len(d) \in Nat /\ DOMAIN d = 1 .. Len(d) /\ n \in Nat /\ n <= Len(d)
      /\ \A j \in 1 .. Len(d) : d[j] \in Entry
  BY KeptFalls
<1>2. i \in 1 .. Len(d) /\ d \in Seq(Entry)
  BY <1>1 DEF Kept
<1>3. g \in Entry /\ g.hash = d[i].hash /\ g.data = x /\ g.tag = d[i].tag
  BY <1>1, <1>2 DEF Entry
<1>4. s = [d EXCEPT ![i] = g]
  BY DEF WithData
<1> HIDE DEF g, s
<1>5. s \in Seq(Entry) /\ Len(s) = Len(d) /\ \A j \in 1 .. Len(d) : s[j] = IF j = i THEN g ELSE d[j]
  BY <1>2, <1>3, <1>4, ExceptSeq
<1>6. \A j \in 1 .. Len(d) : s[j].hash = d[j].hash
  BY <1>3, <1>5
<1>7. Kept(s, n)
  <2>1. Places(s) = Places(d)
    BY <1>5, <1>6 DEF Places
  <2>2. \A j \in 1 .. n : s[j].hash = d[j].hash
    BY <1>1, <1>6
  <2> QED
    BY <1>5, <2>1, <2>2 DEF Kept
<1>8. Entries(s) = (Entries(d) \ {d[i]}) \cup {g}
  <2>1. Entries(s) = {s[j] : j \in 1 .. n} /\ Entries(d) = {d[j] : j \in 1 .. n}
    BY <1>7, KeptEntries
  <2>2. \A j \in 1 .. n : d[j] = d[i] => j = i
    BY KeptEntries
  <2>3. \A j \in 1 .. n : s[j] = IF j = i THEN g ELSE d[j]
    BY <1>1, <1>5
  <2> QED
    BY <2>1, <2>2, <2>3
<1>9. Contents(Entries(s)) = WithData(Contents(Entries(d)), d[i].hash, x)
  <2>1. Unique(Entries(d)) /\ d[i] \in Entries(d)
    BY KeptEntries
  <2> QED
    BY <1>3, <1>8, <2>1, ContentsPut
<1>10. \A j \in 1 .. n : s[j].hash = d[j].hash
  BY <1>1, <1>6
<1> QED
  BY <1>7, <1>9, <1>10 DEF s

LEMMA AddedIs ==
  ASSUME NEW d, NEW n, Kept(d, n), n < Len(d), NEW e \in Entry, e.hash # 0,
         \A i \in 1 .. n : d[i].hash # e.hash
  PROVE  /\ Kept(Sorted(Placed(d, e)), n + 1)
         /\ Entries(Sorted(Placed(d, e))) = Entries(d) \cup {e}
<1> DEFINE s == Placed(d, e)
<1>1. /\ Len(d) \in Nat /\ DOMAIN d = 1 .. Len(d) /\ n \in Nat
      /\ \A j \in 1 .. Len(d) : d[j].hash # 0 <=> j <= n
  BY KeptFalls
<1>2. n + 1 \in 1 .. Len(d) /\ d \in Seq(Entry)
  BY <1>1 DEF Kept
<1>3. FreeIndex(d) = n + 1
  <2>1. \A i \in DOMAIN d : d[i].hash = 0 <=> i >= n + 1
    BY <1>1
  <2>2. /\ n + 1 \in DOMAIN d /\ d[n + 1].hash = 0
        /\ \A j \in DOMAIN d : d[j].hash = 0 => n + 1 <= j
    BY <1>1, <1>2, <2>1
  <2>3. \A i \in DOMAIN d : d[i].hash = 0 /\ (\A j \in DOMAIN d : d[j].hash = 0 => i <= j) => i = n + 1
    BY <1>1, <2>1, <2>2
  <2> QED
    BY <2>2, <2>3 DEF FreeIndex
<1>4. s = [d EXCEPT ![n + 1] = e]
  BY <1>3 DEF Placed
<1> HIDE DEF s
<1>5. s \in Seq(Entry) /\ Len(s) = Len(d) /\ \A j \in 1 .. Len(d) : s[j] = IF j = n + 1 THEN e ELSE d[j]
  BY <1>2, <1>4, ExceptSeq
<1>6. s[n + 1] = e /\ \A j \in 1 .. n : j \in 1 .. Len(d) /\ s[j] = d[j]
  BY <1>1, <1>2, <1>5
<1>7. Places(s) = 1 .. n + 1
  <2>1. ASSUME NEW j \in 1 .. Len(d) PROVE s[j].hash # 0 <=> j <= n + 1
    BY <1>1, <1>5
  <2> QED
    BY <1>1, <1>2, <1>5, <2>1 DEF Places
<1>8. Distinct(s)
  <2>1. \A j \in 1 .. n + 1 : j \in 1 .. n \/ j = n + 1
    BY <1>1
  <2>2. \A i, j \in 1 .. n : d[i].hash = d[j].hash => i = j
    BY KeptEntries
  <2> QED
    BY <1>6, <1>7, <2>1, <2>2 DEF Distinct
<1>9. Cardinality(Places(s)) = n + 1
  BY <1>1, <1>7, FS_Interval
<1>10. Entries(s) = Entries(d) \cup {e}
  <2>1. Entries(d) = {d[j] : j \in 1 .. n}
    BY KeptEntries
  <2>2. DOMAIN s = 1 .. Len(d)
    BY <1>5
  <2>3. Entries(s) = {s[j] : j \in 1 .. n + 1}
    <3>1. \A j \in 1 .. Len(d) : s[j].hash # 0 <=> j \in 1 .. n + 1
      BY <1>5, <1>7 DEF Places
    <3>2. \A j \in 1 .. n + 1 : j \in 1 .. Len(d)
      BY <1>1, <1>2
    <3> QED
      BY <2>2, <3>1, <3>2 DEF Entries
  <2>4. 1 .. n + 1 = (1 .. n) \cup {n + 1}
    BY <1>1
  <2> QED
    BY <1>6, <2>1, <2>3, <2>4
<1> QED
  BY <1>5, <1>8, <1>9, <1>10, KeptSorted DEF s

LEMMA GrownIs ==
  ASSUME Kept(db, count)
  PROVE  Kept(Grown, count) /\ Entries(Grown) = Entries(db) /\ Len(Grown) > Len(db)
<1> DEFINE z == [i \in 1 .. Increment |-> Free]
<1>1. Increment \in Nat \ {0} /\ Nothing \in Data
  BY DatabaseAssumption
<1>2. z \in Seq(Entry) /\ Len(z) = Increment /\ \A i \in 1 .. Increment : z[i] = Free
  <2>1. Free \in Entry
    BY <1>1 DEF Free, Entry
  <2>2. z \in [1 .. Increment -> Entry]
    BY <2>1
  <2> QED
    BY <1>1, <2>2
<1>3. /\ Len(db) \in Nat /\ DOMAIN db = 1 .. Len(db) /\ count \in Nat /\ count <= Len(db) /\ db \in Seq(Entry)
      /\ \A j \in 1 .. Len(db) : db[j].hash # 0 <=> j <= count
  BY KeptFalls DEF Kept
<1>4. Grown = db \o z
  BY DEF Grown
<1> HIDE DEF z
<1>5. /\ Grown \in Seq(Entry) /\ Len(Grown) = Len(db) + Increment
      /\ \A i \in 1 .. Len(db) + Increment : Grown[i] = IF i <= Len(db) THEN db[i] ELSE z[i - Len(db)]
  BY <1>2, <1>3, <1>4, ConcatProperties
<1>6. \A i \in 1 .. Len(Grown) : IF i <= Len(db) THEN i \in 1 .. Len(db) /\ Grown[i] = db[i] ELSE Grown[i].hash = 0
  <2> SUFFICES ASSUME NEW i \in 1 .. Len(db) + Increment
               PROVE  IF i <= Len(db) THEN i \in 1 .. Len(db) /\ Grown[i] = db[i] ELSE Grown[i].hash = 0
    BY <1>5
  <2>1. CASE i <= Len(db)
    BY <1>3, <1>5, <2>1
  <2>2. CASE ~(i <= Len(db))
    <3>1. i - Len(db) \in 1 .. Increment
      BY <1>1, <1>3, <2>2
    <3>2. Grown[i] = Free
      BY <1>2, <1>5, <2>2, <3>1
    <3> QED
      BY <2>2, <3>2 DEF Free
  <2> QED
    BY <2>1, <2>2
<1>7. Places(Grown) = 1 .. count /\ Len(Grown) \in Nat /\ Len(Grown) > Len(db)
  <2>1. Len(Grown) \in Nat /\ Len(Grown) > Len(db)
    BY <1>1, <1>3, <1>5
  <2>2. \A i \in 1 .. Len(Grown) : Grown[i].hash # 0 <=> i <= count
    BY <1>3, <1>6
  <2> QED
    BY <1>3, <2>1, <2>2 DEF Places
<1>8. \A i \in 1 .. count : Grown[i] = db[i]
  BY <1>3, <1>6, <1>7
<1>9. Kept(Grown, count)
  <2>1. count \in 0 .. Len(Grown)
    BY <1>3, <1>7
  <2> QED
    BY <1>5, <1>7, <1>8, <2>1 DEF Kept
<1>10. Entries(Grown) = Entries(db)
  BY <1>8, <1>9, KeptEntries
<1> QED
  BY <1>7, <1>9, <1>10

(* s is d with the places in T freed.                                      *)
Freeing(s, d, T, n) ==
  /\ T \in SUBSET (1 .. n) /\ s \in Seq(Entry) /\ Len(s) = Len(d)
  /\ \A i \in 1 .. Len(d) : s[i] = IF i \in T THEN Free ELSE d[i]

LEMMA RemovedIs ==
  ASSUME NEW d, NEW n, Kept(d, n), NEW s, NEW T, Freeing(s, d, T, n)
  PROVE  /\ Kept(Sorted(s), n - Cardinality(T))
         /\ Entries(Sorted(s)) = {d[i] : i \in (1 .. n) \ T}
<1> USE DEF Freeing
<1>1. /\ Len(d) \in Nat /\ DOMAIN s = 1 .. Len(d) /\ n \in Nat /\ n <= Len(d)
      /\ \A j \in 1 .. Len(d) : d[j].hash # 0 <=> j <= n
  BY KeptFalls
<1>2. \A j \in 1 .. Len(d) : s[j].hash # 0 <=> j \in (1 .. n) \ T
  BY <1>1 DEF Free
<1>3. \A j \in (1 .. n) \ T : j \in 1 .. Len(d) /\ s[j] = d[j]
  BY <1>1
<1>4. Places(s) = (1 .. n) \ T
  BY <1>2, <1>3 DEF Places
<1>5. Distinct(s)
  <2>1. \A i, j \in 1 .. n : d[i].hash = d[j].hash => i = j
    BY KeptEntries
  <2> QED
    BY <1>3, <1>4, <2>1 DEF Distinct
<1>6. Cardinality(Places(s)) = n - Cardinality(T)
  <2>1. IsFiniteSet(1 .. n) /\ Cardinality(1 .. n) = n
    BY <1>1, FS_Interval
  <2>2. (1 .. n) \cap T = T
    OBVIOUS
  <2> QED
    BY <1>4, <2>1, <2>2, FS_Difference
<1>7. Entries(s) = {d[i] : i \in (1 .. n) \ T}
  <2>1. Entries(s) = {s[i] : i \in (1 .. n) \ T}
    BY <1>1, <1>2, <1>3 DEF Entries
  <2> QED
    BY <1>3, <2>1
<1> QED
  BY <1>5, <1>6, <1>7, KeptSorted
(* Each call keeps the invariant and is a call of the map.                 *)
LEMMA HereIs ==
  ASSUME KvInv, NEW h \in Hashes
  PROVE  /\ Search(h) # 0 => /\ h \in DOMAIN Contents(Entries(db))
                             /\ Contents(Entries(db))[h] = Stored(db[Search(h)])
         /\ Search(h) = 0 => h \notin DOMAIN Contents(Entries(db))
<1>1. count \in Nat
  BY KeptFalls DEF KvInv
<1>2. Entries(db) = {db[i] : i \in 1 .. count} /\ Unique(Entries(db))
  BY KeptEntries DEF KvInv
<1>3. /\ DOMAIN Contents(Entries(db)) = {e.hash : e \in Entries(db)}
      /\ \A e \in Entries(db) : Contents(Entries(db))[e.hash] = Stored(e)
  BY <1>2, ContentsIs
<1>4. ASSUME Search(h) # 0
      PROVE  h \in DOMAIN Contents(Entries(db)) /\ Contents(Entries(db))[h] = Stored(db[Search(h)])
  <2>1. Search(h) \in 1 .. count /\ db[Search(h)].hash = h
    BY <1>1, <1>4, SearchIs
  <2>2. db[Search(h)] \in Entries(db)
    BY <1>2, <2>1
  <2> QED
    BY <1>3, <2>1, <2>2
<1>5. ASSUME Search(h) = 0 PROVE h \notin DOMAIN Contents(Entries(db))
  <2>1. \A i \in 1 .. count : db[i].hash # h
    BY <1>5, SearchIs
  <2> QED
    BY <1>2, <1>3, <2>1
<1> QED
  BY <1>4, <1>5

LEMMA FoundKeeps ==
  ASSUME KvInv, NEW h \in Hashes, NEW x \in Data, Search(h) # 0, NEW call, Found(call, h, x, Search(h))
  PROVE  KvInv' /\ Map!Write(call, h, x)
<1> DEFINE i == Search(h)
<1>1. i \in 1 .. count /\ db[i].hash = h /\ h \in Nat
  <2>1. count \in Nat
    BY KeptFalls DEF KvInv
  <2> QED
    BY <2>1, SearchIs, DatabaseAssumption
<1>2. /\ db' = [db EXCEPT ![i].data = x] /\ cache' = CacheAfter(h, i) /\ count' = count
      /\ answer' = AnswerOf(call, "ok", Nothing, db[i].data # x)
  BY DEF Found
<1>3. h \in DOMAIN Contents(Entries(db)) /\ Contents(Entries(db))[h] = Stored(db[i])
  BY HereIs
<1> HIDE DEF i
<1>4. /\ Kept(db', count) /\ \A j \in 1 .. count : db'[j].hash = db[j].hash
      /\ Contents(Entries(db')) = WithData(Contents(Entries(db)), h, x)
  <2>1. Kept(db, count)
    BY DEF KvInv
  <2>2. db' = WithData(db, i, x)
    BY <1>2 DEF WithData
  <2> QED
    BY <1>1, <2>1, <2>2, PutIs
<1>5. cache' = [hash |-> h, index |-> i] /\ i \in Nat
  <2>1. count \in Nat
    BY KeptFalls DEF KvInv
  <2> QED
    BY <1>1, <1>2, <2>1 DEF CacheAfter
<1>6. KvInv'
  BY <1>1, <1>2, <1>4, <1>5 DEF KvInv
<1>7. answer' = AnswerOf(call, "ok", Nothing, Contents(Entries(db))[h].data # x)
  BY <1>2, <1>3 DEF Stored
<1>8. Map!Write(call, h, x)
  BY <1>3, <1>4, <1>7 DEF WithData, Map!Write, Map!Reply, AnswerOf
<1> QED
  BY <1>6, <1>8

LEMMA SetKeeps ==
  ASSUME KvInv, NEW h \in Hashes, NEW x \in Data, Set(h, x)
  PROVE  KvInv' /\ Map!Set(h, x)
<1>1. CASE Search(h) # 0 /\ Found(<<"set", h>>, h, x, Search(h))
  <2>1. KvInv' /\ Map!Write(<<"set", h>>, h, x)
    BY <1>1, FoundKeeps
  <2> QED
    BY <2>1 DEF Map!Set
<1>2. CASE /\ Search(h) = 0
           /\ answer' = AnswerOf(<<"set", h>>, "missing", Nothing, FALSE)
           /\ UNCHANGED <<db, count, cache>>
  <2>1. h \notin DOMAIN Contents(Entries(db))
    BY <1>2, HereIs
  <2>2. KvInv'
    BY <1>2 DEF KvInv
  <2>3. Contents(Entries(db'))  = Contents(Entries(db))
    BY <1>2
  <2>4. Map!Set(h, x)
    BY <1>2, <2>1, <2>3 DEF Map!Set, Map!Reply, AnswerOf
  <2> QED
    BY <2>2, <2>4
<1> QED
  BY <1>1, <1>2 DEF Set

LEMMA AddNewKeeps ==
  ASSUME Batches, KvInv, NEW h \in Hashes, NEW x \in Data, NEW t \in Tags, AddNew(h, x, t)
  PROVE  KvInv' /\ Map!Add(h, x, t)
<1> DEFINE e == [hash |-> h, data |-> x, tag |-> t]
           d == IF count >= Len(db) THEN Grown ELSE db
<1>1. Search(h) = 0 /\ cache.index = 0 /\ cache' = cache
  BY DEF AddNew
<1>2. /\ db' = Sorted(Placed(d, e)) /\ count' = count + 1
      /\ answer' = AnswerOf(<<"add", h>>, "ok", Nothing, FALSE)
  BY DEF AddNew
<1>3. Kept(db, count) /\ count \in Nat /\ Len(db) \in Nat /\ count <= Len(db)
  BY KeptFalls DEF KvInv
<1>4. Kept(d, count) /\ Entries(d) = Entries(db) /\ count < Len(d)
  <2>1. CASE count >= Len(db)
    <3>1. Kept(Grown, count) /\ Entries(Grown) = Entries(db) /\ Len(Grown) > Len(db)
      BY <1>3, GrownIs
    <3>2. Len(Grown) \in Nat
      BY <3>1, KeptFalls
    <3> QED
      BY <1>3, <2>1, <3>1, <3>2
  <2>2. CASE ~(count >= Len(db))
    BY <1>3, <2>2
  <2> QED
    BY <2>1, <2>2
<1>5. e \in Entry /\ e.hash = h /\ h # 0 /\ Stored(e) = [data |-> x, tag |-> t]
  <2>1. h \in Nat /\ h # 0
    BY DatabaseAssumption
  <2> QED
    BY <2>1 DEF Entry, Stored
<1> HIDE DEF e, d
<1>6. h \notin DOMAIN Contents(Entries(db)) /\ Unique(Entries(db))
  BY <1>1, <1>3, HereIs, KeptEntries
<1>7. DOMAIN Contents(Entries(db)) = {g.hash : g \in Entries(db)}
  BY <1>6, ContentsIs
<1>8. \A g \in Entries(db) : g.hash # e.hash
  BY <1>5, <1>6, <1>7
<1>9. \A i \in 1 .. count : d[i].hash # e.hash
  <2>1. Entries(d) = {d[i] : i \in 1 .. count}
    BY <1>4, KeptEntries
  <2> QED
    BY <1>4, <1>8, <2>1
<1>10. Kept(db', count + 1) /\ Entries(db') = Entries(db) \cup {e}
  BY <1>2, <1>4, <1>5, <1>9, AddedIs
<1>11. KvInv'
  BY <1>1, <1>2, <1>10 DEF KvInv
<1>12. Contents(Entries(db')) = [k \in DOMAIN Contents(Entries(db)) \cup {h} |->
                                  IF k = h THEN [data |-> x, tag |-> t] ELSE Contents(Entries(db))[k]]
  BY <1>5, <1>6, <1>8, <1>10, ContentsMore
<1>13. Map!Add(h, x, t)
  BY <1>2, <1>6, <1>12 DEF Map!Add, Map!Reply, AnswerOf
<1> QED
  BY <1>11, <1>13

LEMMA AddKeeps ==
  ASSUME Batches, KvInv, NEW h \in Hashes, NEW x \in Data, NEW t \in Tags, Add(h, x, t)
  PROVE  KvInv' /\ Map!Add(h, x, t)
<1>1. CASE Search(h) # 0 /\ Found(<<"add", h>>, h, x, Search(h))
  <2>1. KvInv' /\ Map!Write(<<"add", h>>, h, x)
    BY <1>1, FoundKeeps
  <2> QED
    BY <2>1 DEF Map!Add
<1>2. CASE AddFull(h)
  <2>1. /\ Search(h) = 0 /\ answer' = AnswerOf(<<"add", h>>, "full", Nothing, FALSE)
        /\ UNCHANGED <<db, count, cache>>
    BY <1>2 DEF AddFull
  <2>2. h \notin DOMAIN Contents(Entries(db))
    BY <2>1, HereIs
  <2>3. KvInv'
    BY <2>1 DEF KvInv
  <2>4. Contents(Entries(db'))  = Contents(Entries(db))
    BY <2>1
  <2>5. Map!Add(h, x, t)
    BY <2>1, <2>2, <2>4 DEF Map!Add, Map!Reply, AnswerOf
  <2> QED
    BY <2>3, <2>5
<1>3. CASE AddNew(h, x, t)
  BY <1>3, AddNewKeeps
<1> QED
  BY <1>1, <1>2, <1>3 DEF Add

LEMMA GetKeeps ==
  ASSUME KvInv, NEW h \in Hashes, GetKey(h)
  PROVE  KvInv' /\ Map!Get(h)
<1>1. /\ answer' = IF Search(h) # 0 THEN AnswerOf(<<"get", h>>, "ok", db[Search(h)].data, FALSE)
                                    ELSE AnswerOf(<<"get", h>>, "missing", Nothing, FALSE)
      /\ cache' = CacheAfter(h, Search(h)) /\ db' = db /\ count' = count
  BY DEF GetKey
<1>2. KvInv'
  <2>1. CASE Search(h) = 0
    BY <1>1, <2>1 DEF CacheAfter, KvInv
  <2>2. CASE Search(h) # 0
    <3>1. count \in Nat /\ h \in Nat
      BY KeptFalls, DatabaseAssumption DEF KvInv
    <3>2. Search(h) \in 1 .. count /\ db[Search(h)].hash = h
      BY <2>2, <3>1, SearchIs
    <3>3. cache' = [hash |-> h, index |-> Search(h)]
      BY <1>1, <2>2 DEF CacheAfter
    <3> QED
      BY <1>1, <3>1, <3>2, <3>3 DEF KvInv
  <2> QED
    BY <2>1, <2>2
<1>3. Contents(Entries(db')) = Contents(Entries(db))
  BY <1>1
<1>4. /\ Search(h) # 0 => /\ h \in DOMAIN Contents(Entries(db))
                          /\ Contents(Entries(db))[h].data = db[Search(h)].data
      /\ Search(h) = 0 => h \notin DOMAIN Contents(Entries(db))
  <2>1. \A e : Stored(e).data = e.data
    BY DEF Stored
  <2> QED
    BY <2>1, HereIs
<1>5. answer' = IF h \in DOMAIN Contents(Entries(db))
                THEN AnswerOf(<<"get", h>>, "ok", Contents(Entries(db))[h].data, FALSE)
                ELSE AnswerOf(<<"get", h>>, "missing", Nothing, FALSE)
  BY <1>1, <1>4
<1>6. Map!Get(h)
  BY <1>3, <1>5 DEF Map!Get, Map!Reply, AnswerOf
<1> QED
  BY <1>2, <1>6
LEMMA DeleteKeeps ==
  ASSUME KvInv, NEW h \in Hashes, Delete(h)
  PROVE  KvInv' /\ Map!Delete(h)
<1>1. Kept(db, count) /\ count \in Nat /\ Len(db) \in Nat /\ count <= Len(db) /\ db \in Seq(Entry)
  BY KeptFalls DEF KvInv, Kept
<1>2. Entries(db) = {db[i] : i \in 1 .. count} /\ Unique(Entries(db))
  BY <1>1, KeptEntries
<1>3. DOMAIN Contents(Entries(db)) = {e.hash : e \in Entries(db)}
  BY <1>2, ContentsIs
<1>4. CASE Search(h) = 0 /\ ~(Search(h) # 0)
  <2>1. answer' = AnswerOf(<<"delete", h>>, "missing", Nothing, FALSE) /\ UNCHANGED <<db, count, cache>>
    BY <1>4 DEF Delete
  <2>2. KvInv'
    BY <2>1 DEF KvInv
  <2>3. h \notin DOMAIN Contents(Entries(db))
    BY <1>4, HereIs
  <2>4. Contents(Entries(db')) = But(Contents(Entries(db)), {h})
    <3>1. Remain(Entries(db), Entries(db), {h})
      BY <1>3, <2>3 DEF Remain
    <3>2. Contents(Entries(db)) = But(Contents(Entries(db)), {h})
      BY <1>2, <3>1, ContentsLess
    <3>3. db' = db
      BY <2>1
    <3> QED
      BY <3>2, <3>3
  <2>5. Map!Delete(h)
    BY <2>1, <2>3, <2>4 DEF But, Map!Delete, Map!Without, Map!Reply, AnswerOf
  <2> QED
    BY <2>2, <2>5
<1>5. CASE Search(h) # 0
  <2> DEFINE i == Search(h)
             s == [db EXCEPT ![i] = Free]
  <2>1. i \in 1 .. count /\ db[i].hash = h
    BY <1>1, <1>5, SearchIs
  <2>2. /\ db' = Sorted(s) /\ count' = count - 1 /\ cache' = Forgotten
        /\ answer' = AnswerOf(<<"delete", h>>, "ok", Nothing, FALSE)
    BY <1>5 DEF Delete
  <2> HIDE DEF i
  <2>3. Free \in Entry
    BY DatabaseAssumption DEF Free, Entry
  <2>4. s \in Seq(Entry) /\ Len(s) = Len(db) /\ \A j \in 1 .. Len(db) : s[j] = IF j = i THEN Free ELSE db[j]
    <3>1. i \in 1 .. Len(db)
      BY <1>1, <2>1
    <3> QED
      BY <1>1, <2>3, <3>1, ExceptSeq
  <2> HIDE DEF s
  <2>5. Freeing(s, db, {i}, count)
    BY <2>1, <2>4 DEF Freeing
  <2>6. Kept(db', count - Cardinality({i})) /\ Entries(db') = {db[j] : j \in (1 .. count) \ {i}}
    BY <1>1, <2>2, <2>5, RemovedIs
  <2>7. KvInv'
    <3>1. Cardinality({i}) = 1
      BY FS_Singleton
    <3>2. cache' \in [hash : Nat, index : Nat] /\ cache'.index = 0
      BY <2>2 DEF KvInv, Forgotten
    <3> QED
      BY <2>2, <2>6, <3>1, <3>2 DEF KvInv
  <2>8. \A j, k \in 1 .. count : db[j].hash = db[k].hash => j = k
    BY <1>1, KeptEntries
  <2>9. Remain(Entries(db'), Entries(db), {h})
    <3>1. \A j \in 1 .. count : db[j].hash # h <=> j # i
      BY <2>1, <2>8
    <3> QED
      BY <1>2, <2>6, <3>1 DEF Remain
  <2>10. Contents(Entries(db')) = But(Contents(Entries(db)), {h})
    BY <1>2, <2>9, ContentsLess
  <2>11. h \in DOMAIN Contents(Entries(db))
    BY <1>5, HereIs
  <2>12. Map!Delete(h)
    BY <2>2, <2>10, <2>11 DEF But, Map!Delete, Map!Without, Map!Reply, AnswerOf
  <2> QED
    BY <2>7, <2>12
<1> QED
  BY <1>4, <1>5

LEMMA DeleteTagKeeps ==
  ASSUME KvInv, NEW t \in Tags, DeleteTag(t)
  PROVE  KvInv' /\ Map!DeleteTag(t)
<1> DEFINE T == {i \in DOMAIN db : HasTag(db[i], t)}
           s == [i \in DOMAIN db |-> IF HasTag(db[i], t) THEN Free ELSE db[i]]
           S == {k \in DOMAIN Contents(Entries(db)) : Contents(Entries(db))[k].tag = t}
<1>1. /\ Kept(db, count) /\ count \in Nat /\ Len(db) \in Nat /\ count <= Len(db) /\ DOMAIN db = 1 .. Len(db)
      /\ \A i \in 1 .. Len(db) : db[i] \in Entry /\ (db[i].hash # 0 <=> i <= count)
  BY KeptFalls DEF KvInv
<1>2. Entries(db) = {db[i] : i \in 1 .. count} /\ Unique(Entries(db))
  BY <1>1, KeptEntries
<1>3. /\ DOMAIN Contents(Entries(db)) = {e.hash : e \in Entries(db)}
      /\ \A e \in Entries(db) : Contents(Entries(db))[e.hash] = Stored(e)
  BY <1>2, ContentsIs
<1>4. /\ db' = Sorted(s) /\ count' = count - Cardinality(T) /\ cache' = Forgotten
      /\ answer' = AnswerOf(<<"deletetag", t>>, "ok", Nothing, FALSE)
  BY DEF DeleteTag, Tagged
<1>5. T \in SUBSET (1 .. count) /\ \A i \in 1 .. count : i \in T <=> db[i].tag = t
  <2>1. \A i \in 1 .. Len(db) : i \in T <=> i <= count /\ db[i].tag = t
    BY <1>1 DEF HasTag
  <2>2. \A i \in 1 .. Len(db) : i <= count <=> i \in 1 .. count
    BY <1>1
  <2>3. \A i \in 1 .. count : i \in 1 .. Len(db)
    BY <1>1
  <2>4. T \subseteq 1 .. Len(db)
    BY <1>1
  <2> HIDE DEF T
  <2> QED
    BY <2>1, <2>2, <2>3, <2>4
<1>6. Free \in Entry
  BY DatabaseAssumption DEF Free, Entry
<1>7. s \in Seq(Entry) /\ Len(s) = Len(db) /\ \A i \in 1 .. Len(db) : s[i] = IF i \in T THEN Free ELSE db[i]
  <2>1. s \in [1 .. Len(db) -> Entry]
    BY <1>1, <1>6
  <2>2. \A i \in 1 .. Len(db) : s[i] = IF i \in T THEN Free ELSE db[i]
    BY <1>1
  <2> HIDE DEF s
  <2> QED
    BY <1>1, <2>1, <2>2
<1> HIDE DEF T, s
<1> Freeing(s, db, T, count)
  BY <1>5, <1>7 DEF Freeing
<1>8. Kept(db', count - Cardinality(T)) /\ Entries(db') = {db[i] : i \in (1 .. count) \ T}
  BY <1>1, <1>4, RemovedIs
<1>9. KvInv'
  <2>1. cache' \in [hash : Nat, index : Nat] /\ cache'.index = 0
    BY <1>4 DEF KvInv, Forgotten
  <2> QED
    BY <1>4, <1>8, <2>1 DEF KvInv
<1>10. \A e \in Entries(db) : e.hash \in S <=> e.tag = t
  <2>1. \A e : Stored(e).tag = e.tag
    BY DEF Stored
  <2>2. \A e \in Entries(db) : e.hash \in DOMAIN Contents(Entries(db)) /\ Contents(Entries(db))[e.hash].tag = e.tag
    BY <1>3, <2>1
  <2> QED
    BY <2>2
<1> HIDE DEF S
<1>11. Remain(Entries(db'), Entries(db), S)
  <2>1. \A i, j \in 1 .. count : db[i].hash = db[j].hash => i = j
    BY <1>1, KeptEntries
  <2>2. ASSUME NEW i \in 1 .. count PROVE db[i] \in Entries(db') <=> db[i].hash \notin S
    <3>1. db[i].hash \notin S <=> i \notin T
      BY <1>2, <1>5, <1>10
    <3>2. db[i] \in Entries(db') <=> i \notin T
      BY <1>8, <2>1
    <3> QED
      BY <3>1, <3>2
  <2> QED
    BY <1>2, <1>8, <2>2 DEF Remain
<1>12. Contents(Entries(db')) = But(Contents(Entries(db)), S)
  BY <1>2, <1>11, ContentsLess
<1>13. Map!DeleteTag(t)
  BY <1>4, <1>12 DEF S, But, Map!DeleteTag, Map!Without, Map!Reply, AnswerOf
<1> QED
  BY <1>9, <1>13

(* The keys from the largest hash down to the j-th are j.                  *)
Upper(D, h) == Cardinality({k \in D : k >= h})

LEMMA RankIs ==
  ASSUME KvInv, NEW j \in 1 .. count
  PROVE  Upper(DOMAIN Contents(Entries(db)), db[j].hash) = j
<1> DEFINE D == DOMAIN Contents(Entries(db))
           U == {k \in D : k >= db[j].hash}
           f == [i \in 1 .. j |-> db[i].hash]
<1>1. /\ Kept(db, count) /\ count \in Nat /\ count <= Len(db) /\ Len(db) \in Nat
      /\ \A i \in 1 .. Len(db) : db[i].hash \in Nat
  BY KeptFalls DEF KvInv
<1>2. /\ \A i \in 1 .. count : db[i].hash \in Nat
      /\ \A i, k \in 1 .. count : i < k => db[i].hash > db[k].hash
  BY <1>1 DEF Kept
<1>3. D = {db[i].hash : i \in 1 .. count}
  <2>1. Entries(db) = {db[i] : i \in 1 .. count} /\ Unique(Entries(db))
    BY <1>1, KeptEntries
  <2>2. D = {e.hash : e \in Entries(db)}
    BY <2>1, ContentsIs
  <2> QED
    BY <2>1, <2>2
<1> HIDE DEF D
<1>4. \A i \in 1 .. count : db[i].hash >= db[j].hash <=> i <= j
  <2> SUFFICES ASSUME NEW i \in 1 .. count PROVE db[i].hash >= db[j].hash <=> i <= j
    OBVIOUS
  <2>1. i < j => db[i].hash > db[j].hash
    BY <1>2
  <2>2. j < i => db[j].hash > db[i].hash
    BY <1>2
  <2>3. db[i].hash \in Nat /\ db[j].hash \in Nat /\ i \in Int /\ j \in Int
    BY <1>1, <1>2
  <2> QED
    BY <2>1, <2>2, <2>3
<1>5. \A i \in 1 .. j : i \in 1 .. count /\ i <= j
  BY <1>1
<1>6. f \in [1 .. j -> U]
  <2>1. \A i \in 1 .. j : db[i].hash \in U
    BY <1>3, <1>4, <1>5
  <2> QED
    BY <2>1
<1>7. \A i, k \in 1 .. j : f[i] = f[k] => i = k
  <2>1. \A i, k \in 1 .. count : db[i].hash = db[k].hash => i = k
    BY <1>1, KeptEntries
  <2> QED
    BY <1>5, <2>1
<1>8. ASSUME NEW x \in U PROVE \E i \in 1 .. j : f[i] = x
  <2>1. PICK i \in 1 .. count : x = db[i].hash /\ db[i].hash >= db[j].hash
    BY <1>3
  <2>2. i \in 1 .. j
    BY <1>1, <1>4, <2>1
  <2> QED
    BY <2>1, <2>2
<1> HIDE DEF U, f
<1>9. f \in Bijection(1 .. j, U)
  BY <1>6, <1>7, <1>8 DEF Bijection, Injection, IsInjective, Surjection
<1>10. IsFiniteSet(1 .. j) /\ Cardinality(1 .. j) = j
  BY <1>1, FS_Interval
<1>11. Cardinality(U) = j
  <2>1. ExistsBijection(1 .. j, U)
    BY <1>9 DEF ExistsBijection
  <2> QED
    BY <1>10, <2>1, FS_Bijection
<1>12. Upper(D, db[j].hash) = Cardinality(U)
  <2>1. U = {k \in D : k >= db[j].hash}
    BY DEF U
  <2> QED
    BY <2>1 DEF Upper
<1> HIDE DEF U
<1>13. Upper(D, db[j].hash) = j
  BY <1>11, <1>12
<1> QED
  BY <1>13 DEF D

LEMMA SameCount ==
  ASSUME NEW S
  PROVE  Map!Cardinality(S) = Cardinality(S)
BY DEF Map!Cardinality, Cardinality, Map!IsFiniteSet, IsFiniteSet

LEMMA KeyAtKeeps ==
  ASSUME KvInv, NEW i, KeyAt(i)
  PROVE  KvInv' /\ Map!KeyAt(i)
<1> DEFINE D == DOMAIN Contents(Entries(db))
           listed == IF i \in DOMAIN db THEN db[i].hash ELSE 0
<1>1. /\ Kept(db, count) /\ count \in Nat /\ count <= Len(db) /\ Len(db) \in Nat /\ DOMAIN db = 1 .. Len(db)
      /\ \A j \in 1 .. Len(db) : db[j].hash # 0 <=> j <= count
  BY KeptFalls DEF KvInv
<1>2. answer' = AnswerOf(<<"keyat", i>>, "ok", listed, FALSE) /\ UNCHANGED <<db, count, cache>>
  BY DEF KeyAt
<1>3. KvInv'
  BY <1>2 DEF KvInv
<1>4. D = {db[j].hash : j \in 1 .. count}
  <2>1. Entries(db) = {db[j] : j \in 1 .. count} /\ Unique(Entries(db))
    BY <1>1, KeptEntries
  <2>2. D = {e.hash : e \in Entries(db)}
    BY <2>1, ContentsIs
  <2> QED
    BY <2>1, <2>2
<1>5. \A j \in 1 .. count : Upper(D, db[j].hash) = j
  BY RankIs
<1> HIDE DEF D
<1>6. listed = IF \E h \in D : Upper(D, h) = i THEN CHOOSE h \in D : Upper(D, h) = i ELSE 0
  <2>1. CASE i \in 1 .. count
    <3>1. listed = db[i].hash
      <4>1. i \in DOMAIN db
        BY <1>1, <2>1
      <4> QED
        BY <4>1
    <3> HIDE DEF listed
    <3>3. db[i].hash \in D /\ Upper(D, db[i].hash) = i
      BY <1>4, <1>5, <2>1
    <3>2. \A h \in D : Upper(D, h) = i => h = db[i].hash
      BY <1>4, <1>5
    <3> QED
      BY <3>1, <3>2, <3>3
  <2>2. CASE i \notin 1 .. count
    <3>1. \A h \in D : Upper(D, h) # i
      BY <1>4, <1>5, <2>2
    <3>2. listed = 0
      BY <1>1, <2>2
    <3> HIDE DEF listed
    <3> QED
      BY <3>1, <3>2
  <2> QED
    BY <2>1, <2>2
<1> HIDE DEF listed
<1>7. Contents(Entries(db')) = Contents(Entries(db))
  BY <1>2
<1>8. Map!KeyAt(i)
  BY <1>2, <1>6, <1>7, SameCount DEF D, Upper, Map!KeyAt, Map!Reply, AnswerOf
<1> QED
  BY <1>3, <1>8

LEMMA RefusedKeeps ==
  ASSUME KvInv, Refused
  PROVE  KvInv' /\ Map!Refused
<1>1. answer' = AnswerOf(<<"refused">>, "full", Nothing, FALSE) /\ UNCHANGED <<db, count, cache>>
  BY DEF Refused
<1>2. KvInv'
  BY <1>1 DEF KvInv
<1>3. Contents(Entries(db')) = Contents(Entries(db))
  BY <1>1
<1> QED
  BY <1>1, <1>2, <1>3 DEF Map!Refused, Map!Reply, AnswerOf

LEMMA KvStarts ==
  ASSUME KvInit
  PROVE  KvInv /\ Map!Init
<1>1. Free \in Entry /\ InitialSize \in Nat
  BY DatabaseAssumption DEF Free, Entry
<1>2. /\ db \in {<< >>, [i \in 1 .. InitialSize |-> Free]} /\ count = 0 /\ cache = [hash |-> 0, index |-> 0]
      /\ answer = AnswerOf(<<"init">>, "ok", Nothing, FALSE)
  BY DEF KvInit
<1>3. db \in Seq(Entry) /\ \A i \in 1 .. Len(db) : db[i].hash = 0
  <2>1. CASE db = << >>
    BY <2>1
  <2>2. CASE db = [i \in 1 .. InitialSize |-> Free]
    <3>1. db \in [1 .. InitialSize -> Entry] /\ \A i \in 1 .. InitialSize : db[i] = Free
      BY <1>1, <2>2
    <3>2. db \in Seq(Entry) /\ Len(db) = InitialSize
      BY <1>1, <3>1
    <3> QED
      BY <3>1, <3>2 DEF Free
  <2> QED
    BY <1>2, <2>1, <2>2
<1>4. Kept(db, count)
  <2>1. Len(db) \in Nat
    BY <1>3
  <2> QED
    BY <1>2, <1>3, <2>1 DEF Kept, Places
<1>5. KvInv
  BY <1>2, <1>4 DEF KvInv
<1>6. Contents(Entries(db)) = [h \in {} |-> Nothing]
  <2>1. Entries(db) = {}
    BY <1>2, <1>4, KeptEntries
  <2> QED
    BY <2>1 DEF Contents
<1> QED
  BY <1>2, <1>5, <1>6 DEF Map!Init, Map!Reply, AnswerOf

LEMMA KvSteps ==
  ASSUME Batches, KvInv, [KvNext]_kvVars
  PROVE  KvInv' /\ [Map!Next]_(Map!vars)
<1>1. CASE UNCHANGED kvVars
  <2>1. KvInv'
    BY <1>1 DEF kvVars, KvInv
  <2>2. UNCHANGED Map!vars
    BY <1>1 DEF kvVars, Map!vars
  <2> QED
    BY <2>1, <2>2
<1>2. ASSUME NEW h \in Hashes, GetKey(h) PROVE KvInv' /\ Map!Next
  BY <1>2, GetKeeps DEF Map!Next
<1>3. ASSUME NEW h \in Hashes, Delete(h) PROVE KvInv' /\ Map!Next
  BY <1>3, DeleteKeeps DEF Map!Next
<1>4. ASSUME NEW h \in Hashes, NEW x \in Data, Set(h, x) PROVE KvInv' /\ Map!Next
  BY <1>4, SetKeeps DEF Map!Next
<1>5. ASSUME NEW h \in Hashes, NEW x \in Data, NEW t \in Tags, Add(h, x, t) PROVE KvInv' /\ Map!Next
  BY <1>5, AddKeeps DEF Map!Next
<1>6. ASSUME NEW t \in Tags, DeleteTag(t) PROVE KvInv' /\ Map!Next
  BY <1>6, DeleteTagKeeps DEF Map!Next
<1>7. ASSUME NEW i \in 1 .. Cardinality(Hashes), KeyAt(i) PROVE KvInv' /\ Map!Next
  BY <1>7, KeyAtKeeps, SameCount DEF Map!Next
<1>8. CASE Refused
  BY <1>8, RefusedKeeps DEF Map!Next
<1> QED
  BY <1>1, <1>2, <1>3, <1>4, <1>5, <1>6, <1>7, <1>8 DEF KvNext

LEMMA KvInvHolds ==
  ASSUME Batches
  PROVE  KvSpec => []KvInv
<1>1. KvInit => KvInv
  BY KvStarts
<1>2. KvInv /\ [KvNext]_kvVars => KvInv'
  BY KvSteps
<1> QED
  BY <1>1, <1>2, PTL DEF KvSpec

(* What listing keys by index relies on, and the searches: keys are unique *)
(* and sorted, free entries last, the count is right, and what the cache   *)
(* says is true, if keys are added only while nothing is cached.           *)
THEOREM KeysAreSorted ==
  ASSUME Batches
  PROVE  KvSpec => [](WellKept /\ CacheTrue)
<1>1. KvInv => WellKept /\ CacheTrue
  <2> SUFFICES ASSUME KvInv PROVE WellKept /\ CacheTrue
    OBVIOUS
  <2>1. Kept(db, count) /\ count \in Nat /\ DOMAIN db = 1 .. Len(db)
    BY KeptFalls DEF KvInv
  <2>2. Present = 1 .. count
    BY <2>1 DEF Present, Kept, Places
  <2>3. count = Cardinality(Present)
    BY <2>1, <2>2, FS_Interval
  <2>4. \A i, j \in 1 .. count : i < j => db[i].hash > db[j].hash
    BY <2>1 DEF Kept
  <2> QED
    BY <2>2, <2>3, <2>4 DEF WellKept, CacheTrue, KvInv
<1> QED
  BY <1>1, KvInvHolds, PTL

(* The database of dynamic keys is a map, however it grows, sorts,         *)
(* searches and caches, if keys are added only while nothing is cached.    *)
THEOREM KeysAreAMap ==
  ASSUME Batches
  PROVE  KvSpec => ImplementsMap
<1>1. KvInit => KvInv /\ Map!Init
  BY KvStarts
<1>2. KvInv /\ [KvNext]_kvVars => KvInv' /\ [Map!Next]_(Map!vars)
  BY KvSteps
<1> QED
  BY <1>1, <1>2, PTL DEF KvSpec, ImplementsMap, Map!Spec
-----------------------------------------------------------------------------
(* KvPersist.  The headers of a file are at the odd places.                *)

Odd(p) == p % 2 = 1

LEMMA OddIs ==
  /\ Odd(1)
  /\ \A p \in Nat : Odd(p + 2) <=> Odd(p)
  /\ \A p \in Nat : Odd(p + 1) <=> ~Odd(p)
  BY DEF Odd

(* Whole blocks, one for each key.                                         *)
Cells == {Hdr(k) : k \in Keys} \cup {Val(v) : v \in Values}
WholeFile(f) ==
  /\ f \in Seq(Cells)
  /\ ~Odd(Len(f))
  /\ \A p \in 1 .. Len(f) : f[p].head <=> Odd(p)
  /\ \A p, q \in 1 .. Len(f) : f[p].head /\ f[p] = f[q] => p = q

HasAt(f, k, p) == p \in 1 .. Len(f) /\ f[p] = Hdr(k)

LEMMA CellsAre ==
  /\ \A k : Hdr(k).head = TRUE /\ Hdr(k).is = k
  /\ \A v : Val(v).head = FALSE /\ Val(v).is = v
  BY DEF Hdr, Val

LEMMA WholeLen ==
  ASSUME NEW f, WholeFile(f)
  PROVE  Len(f) \in Nat
  BY LenProperties DEF WholeFile

(* A header is at one place, and a value follows it.                       *)
LEMMA HeaderAt ==
  ASSUME NEW f, WholeFile(f), NEW k, NEW p, HasAt(f, k, p)
  PROVE  /\ p \in 1 .. Len(f) - 1 /\ Odd(p)
         /\ \A q : HasAt(f, k, q) => q = p
         /\ f[p + 1].head = FALSE /\ p + 1 \in 1 .. Len(f)
<1>1. Len(f) \in Nat
  BY WholeLen
<1>2. p \in 1 .. Len(f) /\ f[p].head = TRUE
  BY CellsAre DEF HasAt
<1>3. Odd(p)
  BY <1>2 DEF WholeFile
<1>4. p # Len(f)
  BY <1>3 DEF WholeFile
<1>5. p \in Nat /\ ~Odd(p + 1) /\ p + 1 \in 1 .. Len(f)
  BY <1>1, <1>2, <1>3, <1>4, OddIs
<1>6. f[p + 1] \in Cells
  BY <1>5, ElementOfSeq DEF WholeFile
<1>7. f[p + 1].head \in BOOLEAN
  BY <1>6, CellsAre DEF Cells
<1>8. f[p + 1].head = FALSE
  BY <1>5, <1>7 DEF WholeFile
<1>9. ASSUME NEW q, HasAt(f, k, q) PROVE q = p
  BY <1>2, <1>9 DEF WholeFile, HasAt
<1> QED
  BY <1>1, <1>2, <1>3, <1>4, <1>5, <1>8, <1>9

(* What a seek returns: the place of the header, or the end.               *)
Seeks(f, k, p) ==
  IF Odd(p) /\ \E q \in p .. Len(f) : HasAt(f, k, q)
    THEN CHOOSE q \in p .. Len(f) : HasAt(f, k, q) ELSE Len(f) + 1

Scan(f, k, s, p) == IF p > Len(f) THEN Len(f) + 1 ELSE IF f[p] = Hdr(k) THEN p ELSE s[p + 2]

LEMMA SeeksNext ==
  ASSUME NEW f, WholeFile(f), NEW k, NEW p \in 1 .. Len(f)
  PROVE  Seeks(f, k, p) = IF f[p] = Hdr(k) THEN p ELSE Seeks(f, k, p + 2)
<1>1. Len(f) \in Nat /\ p \in Nat
  BY WholeLen
<1>2. CASE f[p] = Hdr(k)
  <2>1. HasAt(f, k, p)
    BY <1>2 DEF HasAt
  <2>2. Odd(p) /\ \A q : HasAt(f, k, q) => q = p
    BY <2>1, HeaderAt
  <2>3. p \in p .. Len(f)
    BY <1>1
  <2>4. (CHOOSE q \in p .. Len(f) : HasAt(f, k, q)) = p
    BY <2>1, <2>2, <2>3
  <2> QED
    BY <1>2, <2>1, <2>2, <2>3, <2>4 DEF Seeks
<1>3. CASE f[p] # Hdr(k)
  <2>1. ~HasAt(f, k, p)
    BY <1>3 DEF HasAt
  <2>2. Odd(p) => ~HasAt(f, k, p + 1)
    <3> SUFFICES ASSUME Odd(p), HasAt(f, k, p + 1) PROVE FALSE
      OBVIOUS
    <3>1. Odd(p + 1)
      BY HeaderAt
    <3> QED
      BY <1>1, <3>1, OddIs
  <2>3. ASSUME Odd(p), NEW q, HasAt(f, k, q) PROVE q \in p .. Len(f) <=> q \in p + 2 .. Len(f)
    <3>1. q # p /\ q # p + 1
      BY <2>1, <2>2, <2>3
    <3>2. q \in 1 .. Len(f)
      BY <2>3 DEF HasAt
    <3> QED
      BY <1>1, <3>1, <3>2
  <2>4. Odd(p + 2) <=> Odd(p)
    BY <1>1, OddIs
  <2>5. CASE ~Odd(p)
    BY <1>3, <2>4, <2>5 DEF Seeks
  <2>6. CASE Odd(p) /\ ~\E q \in p .. Len(f) : HasAt(f, k, q)
    <3>1. ~\E q \in p + 2 .. Len(f) : HasAt(f, k, q)
      BY <2>3, <2>6
    <3> QED
      BY <1>3, <2>6, <3>1 DEF Seeks
  <2>7. CASE Odd(p) /\ \E q \in p .. Len(f) : HasAt(f, k, q)
    <3>1. PICK q \in p .. Len(f) : HasAt(f, k, q)
      BY <2>7
    <3>2. q \in p + 2 .. Len(f)
      BY <2>3, <2>7, <3>1
    <3>3. \A r : HasAt(f, k, r) => r = q
      BY <3>1, HeaderAt
    <3>4. (CHOOSE r \in p .. Len(f) : HasAt(f, k, r)) = q
      BY <3>1, <3>3
    <3>5. (CHOOSE r \in p + 2 .. Len(f) : HasAt(f, k, r)) = q
      BY <3>1, <3>2, <3>3
    <3> QED
      BY <1>3, <2>4, <2>7, <3>1, <3>2, <3>4, <3>5 DEF Seeks
  <2> QED
    BY <2>5, <2>6, <2>7
<1> QED
  BY <1>2, <1>3

(* The seek of the code is that of the specification of it.                *)
LEMMA SeekExists ==
  ASSUME NEW f, WholeFile(f), NEW k
  PROVE  \E s : s = [p \in 1 .. Len(f) + 2 |-> Scan(f, k, s, p)]
<1> DEFINE g == [p \in 1 .. Len(f) + 2 |-> Seeks(f, k, p)]
<1>1. Len(f) \in Nat
  BY WholeLen
<1>2. ASSUME NEW p \in 1 .. Len(f) + 2 PROVE Seeks(f, k, p) = Scan(f, k, g, p)
  <2>1. CASE p > Len(f)
    <3>1. ~\E q \in p .. Len(f) : HasAt(f, k, q)
      BY <1>1, <2>1
    <3> QED
      BY <2>1, <3>1 DEF Seeks, Scan
  <2>2. CASE ~(p > Len(f))
    <3>1. p \in 1 .. Len(f) /\ p + 2 \in 1 .. Len(f) + 2
      BY <1>1, <2>2
    <3>2. g[p + 2] = Seeks(f, k, p + 2)
      BY <3>1
    <3>3. Seeks(f, k, p) = IF f[p] = Hdr(k) THEN p ELSE Seeks(f, k, p + 2)
      BY <3>1, SeeksNext
    <3> HIDE DEF g
    <3> QED
      BY <2>2, <3>2, <3>3 DEF Scan
  <2> QED
    BY <2>1, <2>2
<1>3. g = [p \in 1 .. Len(f) + 2 |-> Scan(f, k, g, p)]
  <2>1. \A p \in 1 .. Len(f) + 2 : Seeks(f, k, p) = Scan(f, k, g, p)
    BY <1>2
  <2>2. [p \in 1 .. Len(f) + 2 |-> Seeks(f, k, p)] = [p \in 1 .. Len(f) + 2 |-> Scan(f, k, g, p)]
    <3> HIDE DEF g
    <3> QED
      BY <2>1
  <2> QED
    BY <2>2
<1> QED
  BY <1>3

LEMMA SeekIs ==
  ASSUME NEW f, WholeFile(f), NEW k
  PROVE  Seek(f, k) = Seeks(f, k, 1)
<1>1. Len(f) \in Nat
  BY WholeLen
<1> DEFINE s == CHOOSE t : t = [p \in 1 .. Len(f) + 2 |-> Scan(f, k, t, p)]
           S == {n \in Nat : \A p \in 1 .. Len(f) + 2 : p + n >= Len(f) + 1 => s[p] = Seeks(f, k, p)}
<1>2. s = [p \in 1 .. Len(f) + 2 |-> Scan(f, k, s, p)]
  BY SeekExists
<1>3. Seek(f, k) = s[1]
  BY DEF Seek, Scan
<1> HIDE DEF s
<1>4. ASSUME NEW p \in 1 .. Len(f) + 2 PROVE s[p] = Scan(f, k, s, p)
  BY <1>2, <1>4
<1>5. ASSUME NEW p \in 1 .. Len(f) + 2, p > Len(f) PROVE s[p] = Seeks(f, k, p)
  <2>1. ~\E q \in p .. Len(f) : HasAt(f, k, q)
    BY <1>1, <1>5
  <2> QED
    BY <1>4, <1>5, <2>1 DEF Seeks, Scan
<1>6. 0 \in S
  BY <1>1, <1>5
<1>7. ASSUME NEW n \in Nat, n \in S PROVE n + 1 \in S
  <2> SUFFICES ASSUME NEW p \in 1 .. Len(f) + 2, p + (n + 1) >= Len(f) + 1
               PROVE  s[p] = Seeks(f, k, p)
    OBVIOUS
  <2>1. CASE p > Len(f)
    BY <1>5, <2>1
  <2>2. CASE ~(p > Len(f))
    <3>1. p \in 1 .. Len(f) /\ p + 2 \in 1 .. Len(f) + 2 /\ (p + 2) + n >= Len(f) + 1
      BY <1>1, <2>2
    <3>2. s[p + 2] = Seeks(f, k, p + 2)
      BY <1>7, <3>1
    <3>3. Seeks(f, k, p) = IF f[p] = Hdr(k) THEN p ELSE Seeks(f, k, p + 2)
      BY <3>1, SeeksNext
    <3> QED
      BY <1>4, <2>2, <3>2, <3>3 DEF Scan
  <2> QED
    BY <2>1, <2>2
<1>8. \A n \in S : \A p \in 1 .. Len(f) + 2 : p + n >= Len(f) + 1 => s[p] = Seeks(f, k, p)
  OBVIOUS
<1> HIDE DEF S
<1>9. Len(f) \in S
  <2>1. \A n \in Nat : n \in S => n + 1 \in S
    BY <1>7
  <2>2. Nat \subseteq S
    BY <1>6, <2>1, Inductive
  <2> QED
    BY <1>1, <2>2
<1>10. 1 \in 1 .. Len(f) + 2 /\ 1 + Len(f) >= Len(f) + 1
  BY <1>1
<1> QED
  BY <1>3, <1>8, <1>9, <1>10

LEMMA Sought ==
  ASSUME NEW f, WholeFile(f), NEW k
  PROVE  /\ \A p : HasAt(f, k, p) => Seek(f, k) = p
         /\ (\A p : ~HasAt(f, k, p)) => Seek(f, k) = Len(f) + 1
<1>1. Seek(f, k) = Seeks(f, k, 1) /\ Odd(1) /\ Len(f) \in Nat
  BY SeekIs, OddIs, WholeLen
<1>2. ASSUME NEW p, HasAt(f, k, p) PROVE Seek(f, k) = p
  <2>1. p \in 1 .. Len(f) /\ \A q : HasAt(f, k, q) => q = p
    BY <1>2, HeaderAt DEF HasAt
  <2>2. (CHOOSE q \in 1 .. Len(f) : HasAt(f, k, q)) = p
    BY <1>2, <2>1
  <2> QED
    BY <1>1, <1>2, <2>1, <2>2 DEF Seeks
<1>3. (\A p : ~HasAt(f, k, p)) => Seek(f, k) = Len(f) + 1
  BY <1>1 DEF Seeks
<1> QED
  BY <1>2, <1>3

(* Both readers find the value after the header, or the default.           *)
LEMMA BothRead ==
  ASSUME NEW f, WholeFile(f), NEW k
  PROVE  /\ \A p : HasAt(f, k, p) => Loaded(f, k) = f[p + 1].is /\ Read(f, k) = f[p + 1].is
         /\ (\A p : ~HasAt(f, k, p)) => Loaded(f, k) = Default /\ Read(f, k) = Default
<1>1. Len(f) \in Nat
  BY WholeLen
<1>2. Starts(f, k) = {p \in 1 .. Len(f) - 1 : Odd(p) /\ f[p] = Hdr(k)}
  BY DEF Starts, Odd
<1>3. ASSUME NEW p, HasAt(f, k, p) PROVE Loaded(f, k) = f[p + 1].is /\ Read(f, k) = f[p + 1].is
  <2>1. /\ p \in 1 .. Len(f) - 1 /\ Odd(p) /\ f[p + 1].head = FALSE
        /\ \A q : HasAt(f, k, q) => q = p
    BY <1>3, HeaderAt
  <2>2. ValueAt(f, p + 1) = f[p + 1].is
    BY <2>1 DEF ValueAt
  <2>3. Starts(f, k) = {p}
    <3>1. p \in Starts(f, k)
      BY <1>2, <1>3, <2>1 DEF HasAt
    <3>2. ASSUME NEW q \in Starts(f, k) PROVE HasAt(f, k, q)
      BY <1>1, <1>2, <3>2 DEF HasAt
    <3> QED
      BY <2>1, <3>1, <3>2
  <2>4. (CHOOSE q \in Starts(f, k) : \A r \in Starts(f, k) : r <= q) = p
    BY <2>1, <2>3
  <2>5. Loaded(f, k) = ValueAt(f, p + 1)
    BY <2>3, <2>4 DEF Loaded
  <2>6. Seek(f, k) = p /\ p < Len(f)
    BY <1>1, <1>3, <2>1, Sought
  <2>7. Read(f, k) = ValueAt(f, p + 1)
    BY <2>6 DEF Read
  <2> QED
    BY <2>2, <2>5, <2>7
<1>4. ASSUME \A p : ~HasAt(f, k, p) PROVE Loaded(f, k) = Default /\ Read(f, k) = Default
  <2>1. Starts(f, k) = {}
    BY <1>1, <1>2, <1>4 DEF HasAt
  <2>2. Seek(f, k) = Len(f) + 1 /\ ~(Len(f) + 1 < Len(f))
    BY <1>1, <1>4, Sought
  <2> QED
    BY <2>1, <2>2 DEF Loaded, Read
<1> QED
  BY <1>3, <1>4

-----------------------------------------------------------------------------
(* Writing a block.                                                        *)

LEMMA OverwrittenIs ==
  ASSUME NEW f, WholeFile(f), NEW k \in Keys, NEW v \in Values, NEW p \in 1 .. Len(f) + 1, p # Len(f),
         NEW g, g = Overwritten(f, p, Block(k, v))
  PROVE  /\ g \in Seq(Cells)
         /\ Len(g) = IF p < Len(f) THEN Len(f) ELSE Len(f) + 2
         /\ g[p] = Hdr(k) /\ g[p + 1] = Val(v)
         /\ \A q \in 1 .. Len(f) : q # p /\ q # p + 1 => g[q] = f[q]
<1>1. Len(f) \in Nat /\ p \in Nat /\ f \in Seq(Cells)
  BY WholeLen DEF WholeFile
<1>2. \A q \in 1 .. Len(f) : f[q] \in Cells
  BY <1>1, ElementOfSeq
<1> DEFINE front == SubSeq(f, 1, p - 1)
           block == Block(k, v)
           rest  == SubSeq(f, p + 2, Len(f))
<1>3. front \in Seq(Cells) /\ Len(front) = p - 1 /\ \A q \in 1 .. p - 1 : front[q] = f[q]
  <2>1. \A q \in 1 .. p - 1 : f[q] \in Cells
    BY <1>1, <1>2
  <2>2. 1 \in Int /\ p - 1 \in Int
    BY <1>1
  <2>3. /\ front \in Seq(Cells)
        /\ Len(front) = IF 1 <= p - 1 THEN (p - 1) - 1 + 1 ELSE 0
        /\ \A q \in 1 .. (p - 1) - 1 + 1 : front[q] = f[1 + q - 1]
    <3> HIDE DEF Cells
    <3> QED
      BY <2>1, <2>2, SubSeqProperties
  <2> HIDE DEF front
  <2>4. \A q \in 1 .. p - 1 : q \in 1 .. (p - 1) - 1 + 1 /\ 1 + q - 1 = q
    BY <1>1
  <2> QED
    BY <1>1, <2>3, <2>4
<1>4. block \in Seq(Cells) /\ Len(block) = 2 /\ block[1] = Hdr(k) /\ block[2] = Val(v)
  <2>1. Hdr(k) \in Cells /\ Val(v) \in Cells
    BY DEF Cells
  <2> QED
    BY <2>1 DEF Block
<1>5. /\ rest \in Seq(Cells)
      /\ Len(rest) = IF p + 2 <= Len(f) THEN Len(f) - (p + 2) + 1 ELSE 0
      /\ \A q \in 1 .. Len(f) - (p + 2) + 1 : rest[q] = f[(p + 2) + q - 1]
  <2>1. \A q \in p + 2 .. Len(f) : f[q] \in Cells
    BY <1>1, <1>2
  <2>2. p + 2 \in Int /\ Len(f) \in Int
    BY <1>1
  <2> HIDE DEF Cells
  <2> QED
    BY <2>1, <2>2, SubSeqProperties
<1>6. g = (front \o block) \o rest
  BY DEF Overwritten
<1> DEFINE head == front \o block
<1> HIDE DEF front, block, rest, Cells
<1>7. /\ head \in Seq(Cells) /\ Len(head) = p + 1
      /\ \A q \in 1 .. p + 1 : head[q] = IF q <= p - 1 THEN front[q] ELSE block[q - (p - 1)]
  <2>1. /\ head \in Seq(Cells) /\ Len(head) = Len(front) + Len(block)
        /\ \A q \in 1 .. Len(front) + Len(block) :
             head[q] = IF q <= Len(front) THEN front[q] ELSE block[q - Len(front)]
    BY <1>3, <1>4, ConcatProperties
  <2>2. Len(front) + Len(block) = p + 1
    BY <1>1, <1>3, <1>4
  <2> QED
    BY <1>3, <2>1, <2>2
<1>8. head[p] = Hdr(k) /\ head[p + 1] = Val(v) /\ \A q \in 1 .. p - 1 : head[q] = f[q]
  <2>1. p \in 1 .. p + 1 /\ p + 1 \in 1 .. p + 1 /\ ~(p <= p - 1) /\ ~(p + 1 <= p - 1)
        /\ p - (p - 1) = 1 /\ (p + 1) - (p - 1) = 2
    BY <1>1
  <2>2. \A q \in 1 .. p - 1 : q \in 1 .. p + 1 /\ q <= p - 1
    BY <1>1
  <2> HIDE DEF head
  <2> QED
    BY <1>3, <1>4, <1>7, <2>1, <2>2
<1> HIDE DEF head
<1>9. Len(rest) \in Nat /\ (p + 1) + Len(rest) = IF p < Len(f) THEN Len(f) ELSE Len(f) + 2
  <2>1. CASE p + 2 <= Len(f)
    <3>1. Len(rest) = Len(f) - (p + 2) + 1
      BY <1>5, <2>1
    <3> QED
      BY <1>1, <2>1, <3>1
  <2>2. CASE ~(p + 2 <= Len(f))
    <3>1. Len(rest) = 0
      BY <1>5, <2>2
    <3>2. p = Len(f) - 1 \/ p = Len(f) + 1
      BY <1>1, <2>2
    <3> QED
      BY <1>1, <3>1, <3>2
  <2> QED
    BY <2>1, <2>2
<1>10. /\ g \in Seq(Cells) /\ Len(g) = (p + 1) + Len(rest)
       /\ \A q \in 1 .. (p + 1) + Len(rest) :
            g[q] = IF q <= p + 1 THEN head[q] ELSE rest[q - (p + 1)]
  <2>1. g = head \o rest
    BY <1>6 DEF head
  <2>2. /\ head \o rest \in Seq(Cells) /\ Len(head \o rest) = Len(head) + Len(rest)
        /\ \A q \in 1 .. Len(head) + Len(rest) :
             (head \o rest)[q] = IF q <= Len(head) THEN head[q] ELSE rest[q - Len(head)]
    BY <1>5, <1>7, ConcatProperties
  <2>3. Len(head) = p + 1
    BY <1>7
  <2> QED
    BY <2>1, <2>2, <2>3
<1>11. ASSUME NEW q \in 1 .. Len(f), q # p, q # p + 1 PROVE g[q] = f[q]
  <2>1. q \in 1 .. (p + 1) + Len(rest)
    BY <1>1, <1>9
  <2>2. CASE q < p
    <3>1. q <= p + 1 /\ q \in 1 .. p - 1
      BY <1>1, <2>2
    <3> QED
      BY <1>8, <1>10, <2>1, <3>1
  <2>3. CASE ~(q < p)
    <3>1. ~(q <= p + 1) /\ q - (p + 1) \in 1 .. Len(f) - (p + 2) + 1
          /\ (p + 2) + (q - (p + 1)) - 1 = q
      BY <1>1, <1>11, <2>3
    <3> QED
      BY <1>5, <1>10, <2>1, <3>1
  <2> QED
    BY <2>2, <2>3
<1>12. p \in 1 .. (p + 1) + Len(rest) /\ p + 1 \in 1 .. (p + 1) + Len(rest) /\ p <= p + 1
  BY <1>1, <1>9
<1>13. g[p] = Hdr(k) /\ g[p + 1] = Val(v)
  BY <1>8, <1>10, <1>12
<1>14. Len(g) = IF p < Len(f) THEN Len(f) ELSE Len(f) + 2
  BY <1>9, <1>10
<1> QED
  BY <1>10, <1>11, <1>13, <1>14

(* The value of one key is written, and the others keep theirs.            *)
Holds(f, k, v) == Loaded(f, k) = v /\ Read(f, k) = v
SetOnly(f, g, k, v) ==
  /\ WholeFile(g)
  /\ Holds(g, k, v)
  /\ \A other \in Keys : other # k => Loaded(g, other) = Loaded(f, other) /\ Read(g, other) = Read(f, other)

LEMMA BlockWritten ==
  ASSUME NEW f, WholeFile(f), NEW k \in Keys, NEW v \in Values, NEW p,
         HasAt(f, k, p) \/ (p = Len(f) + 1 /\ \A q : ~HasAt(f, k, q)),
         NEW g, g = Overwritten(f, p, Block(k, v))
  PROVE  SetOnly(f, g, k, v)
<1>1. Len(f) \in Nat
  BY WholeLen
<1>2. /\ p \in 1 .. Len(f) + 1 /\ p # Len(f) /\ Odd(p)
      /\ p < Len(f) => f[p] = Hdr(k) /\ f[p + 1].head = FALSE
      /\ ~(p < Len(f)) => p = Len(f) + 1
  <2>1. CASE HasAt(f, k, p)
    <3>1. p \in 1 .. Len(f) - 1 /\ Odd(p) /\ f[p + 1].head = FALSE
      BY <2>1, HeaderAt
    <3> QED
      BY <1>1, <2>1, <3>1 DEF HasAt
  <2>2. CASE p = Len(f) + 1
    <3>1. Odd(Len(f) + 1)
      BY <1>1, OddIs DEF WholeFile
    <3> QED
      BY <1>1, <2>2, <3>1
  <2> QED
    BY <2>1, <2>2
<1>3. p \in Nat /\ ~Odd(p + 1)
  BY <1>1, <1>2, OddIs
<1>4. /\ g \in Seq(Cells)
      /\ Len(g) = IF p < Len(f) THEN Len(f) ELSE Len(f) + 2
      /\ g[p] = Hdr(k) /\ g[p + 1] = Val(v)
      /\ \A q \in 1 .. Len(f) : q # p /\ q # p + 1 => g[q] = f[q]
  BY <1>2, OverwrittenIs
<1>5. ASSUME NEW q \in 1 .. Len(g), q # p, q # p + 1
      PROVE  q \in 1 .. Len(f) /\ g[q] = f[q]
  <2>1. q \in 1 .. Len(f)
    BY <1>1, <1>2, <1>4, <1>5
  <2> QED
    BY <1>4, <1>5, <2>1
<1>6. Len(g) \in Nat /\ p \in 1 .. Len(g) /\ p + 1 \in 1 .. Len(g) /\ \A q \in 1 .. Len(f) : q \in 1 .. Len(g)
  BY <1>1, <1>2, <1>4
<1>7. ASSUME NEW q \in 1 .. Len(g), g[q] = Hdr(k) PROVE q = p
  <2>1. q # p + 1
    BY <1>4, <1>7, CellsAre
  <2>2. SUFFICES ASSUME q # p PROVE FALSE
    OBVIOUS
  <2>3. q \in 1 .. Len(f) /\ f[q] = Hdr(k)
    BY <1>5, <1>7, <2>1, <2>2
  <2>4. HasAt(f, k, q)
    BY <2>3 DEF HasAt
  <2> QED
    BY <2>2, <2>4, HeaderAt
<1>8. WholeFile(g)
  <2>1. ~Odd(Len(g))
    <3>1. ~Odd(Len(f)) /\ (Odd(Len(f) + 2) <=> Odd(Len(f)))
      BY <1>1, OddIs DEF WholeFile
    <3> QED
      BY <1>4, <3>1
  <2>2. ASSUME NEW q \in 1 .. Len(g) PROVE g[q].head <=> Odd(q)
    <3>1. CASE q = p
      BY <1>2, <1>4, <3>1, CellsAre
    <3>2. CASE q = p + 1
      BY <1>3, <1>4, <3>2, CellsAre
    <3>3. CASE q # p /\ q # p + 1
      BY <1>5, <3>3 DEF WholeFile
    <3> QED
      BY <3>1, <3>2, <3>3
  <2>3. ASSUME NEW q \in 1 .. Len(g), NEW r \in 1 .. Len(g), g[q].head, g[q] = g[r] PROVE q = r
    <3>1. g[r].head
      BY <2>3
    <3>2. q # p + 1 /\ r # p + 1
      BY <1>3, <2>2, <2>3, <3>1
    <3>3. CASE q = p
      <4>1. g[r] = Hdr(k)
        BY <1>4, <2>3, <3>3
      <4> QED
        BY <1>7, <3>3, <4>1
    <3>4. CASE r = p
      <4>1. g[q] = Hdr(k)
        BY <1>4, <2>3, <3>4
      <4> QED
        BY <1>7, <3>4, <4>1
    <3>5. CASE q # p /\ r # p
      <4>1. q \in 1 .. Len(f) /\ g[q] = f[q] /\ r \in 1 .. Len(f) /\ g[r] = f[r]
        BY <1>5, <3>2, <3>5
      <4>2. f[q].head /\ f[q] = f[r]
        BY <2>3, <4>1
      <4> QED
        BY <4>1, <4>2 DEF WholeFile
    <3> QED
      BY <3>3, <3>4, <3>5
  <2> QED
    BY <1>4, <2>1, <2>2, <2>3 DEF WholeFile
<1>9. Holds(g, k, v)
  <2>1. HasAt(g, k, p)
    BY <1>4, <1>6 DEF HasAt
  <2>2. g[p + 1].is = v
    BY <1>4, CellsAre
  <2> QED
    BY <1>8, <2>1, <2>2, BothRead DEF Holds
<1>10. ASSUME NEW other \in Keys, other # k
       PROVE  Loaded(g, other) = Loaded(f, other) /\ Read(g, other) = Read(f, other)
  <2>1. Hdr(other) # Hdr(k)
    BY <1>10, CellsAre
  <2>2. ASSUME NEW q, HasAt(g, other, q) PROVE HasAt(f, other, q)
    <3>1. q \in 1 .. Len(g) /\ q # p /\ q # p + 1
      <4>1. q \in 1 .. Len(g) /\ g[q] = Hdr(other)
        BY <2>2 DEF HasAt
      <4> QED
        BY <1>4, <2>1, <4>1, CellsAre
    <3> QED
      BY <1>5, <2>2, <3>1 DEF HasAt
  <2>3. ASSUME NEW q, HasAt(f, other, q) PROVE HasAt(g, other, q) /\ g[q + 1] = f[q + 1]
    <3>1. q \in 1 .. Len(f) /\ f[q] = Hdr(other) /\ f[q].head = TRUE
      BY <2>3, CellsAre DEF HasAt
    <3>2. q # p
      BY <1>1, <1>2, <2>1, <3>1
    <3>3. Odd(q) /\ q + 1 \in 1 .. Len(f)
      BY <2>3, HeaderAt
    <3>4. q # p + 1 /\ q + 1 # p /\ q + 1 # p + 1
      <4>1. q \in Nat /\ ~Odd(q + 1)
        BY <1>1, <3>1, <3>3, OddIs
      <4> QED
        BY <1>2, <1>3, <3>2, <3>3, <4>1
    <3>5. g[q] = f[q] /\ g[q + 1] = f[q + 1]
      BY <1>4, <3>1, <3>2, <3>3, <3>4
    <3> QED
      BY <1>6, <3>1, <3>5 DEF HasAt
  <2>4. CASE \E q : HasAt(f, other, q)
    <3>1. PICK q : HasAt(f, other, q)
      BY <2>4
    <3>2. HasAt(g, other, q) /\ g[q + 1] = f[q + 1]
      BY <2>3, <3>1
    <3>3. Loaded(f, other) = f[q + 1].is /\ Read(f, other) = f[q + 1].is
      BY <3>1, BothRead
    <3>4. Loaded(g, other) = g[q + 1].is /\ Read(g, other) = g[q + 1].is
      BY <1>8, <3>2, BothRead
    <3> QED
      BY <3>2, <3>3, <3>4
  <2>5. CASE ~\E q : HasAt(f, other, q)
    <3>1. \A q : ~HasAt(f, other, q) /\ ~HasAt(g, other, q)
      BY <2>2, <2>5
    <3>2. Loaded(f, other) = Default /\ Read(f, other) = Default
      BY <3>1, BothRead
    <3>3. Loaded(g, other) = Default /\ Read(g, other) = Default
      BY <1>8, <3>1, BothRead
    <3> QED
      BY <3>2, <3>3
  <2> QED
    BY <2>4, <2>5
<1> QED
  BY <1>8, <1>9, <1>10 DEF SetOnly

LEMMA WrittenSetsOnly ==
  ASSUME NEW f, WholeFile(f), NEW k \in Keys, NEW v \in Values, NEW g \in Written(f, k, v)
  PROVE  SetOnly(f, g, k, v)
<1>1. PICK p : /\ HasAt(f, k, p) \/ (p = Len(f) + 1 /\ \A q : ~HasAt(f, k, q))
               /\ Seek(f, k) = p
  BY Sought
<1>2. Len(f) \in Nat
  BY WholeLen
<1>3. p # Len(f)
  <2>1. CASE HasAt(f, k, p)
    <3>1. p \in 1 .. Len(f) - 1
      BY <2>1, HeaderAt
    <3> QED
      BY <1>2, <3>1
  <2>2. CASE p = Len(f) + 1
    BY <1>2, <2>2
  <2> QED
    BY <1>1, <2>1, <2>2
<1>4. CASE g = Overwritten(f, p, Block(k, v))
  BY <1>1, <1>4, BlockWritten
<1>5. CASE g # Overwritten(f, p, Block(k, v))
  <2>1. p < Len(f) /\ ValueAt(f, p + 1) = v /\ g = f
    BY <1>1, <1>3, <1>5 DEF Written
  <2>2. HasAt(f, k, p)
    BY <1>1, <1>2, <2>1
  <2>3. f[p + 1].head = FALSE /\ Loaded(f, k) = f[p + 1].is /\ Read(f, k) = f[p + 1].is
    BY <2>2, HeaderAt, BothRead
  <2>4. Holds(f, k, v)
    BY <2>1, <2>3 DEF Holds, ValueAt
  <2> QED
    BY <2>1, <2>4 DEF SetOnly
<1> QED
  BY <1>4, <1>5

-----------------------------------------------------------------------------
(* Every step.                                                             *)

Saved(f) == [k \in Keys |-> IF k \in Keyed THEN Loaded(f, k) ELSE Read(f, k)]

SavesTo(f, g, k, v) == Saved(g) = [Saved(f) EXCEPT ![k] = v]
Restored(f)         == [k \in Keys |-> IF k \in Direct THEN Default ELSE Saved(f)[k]]

PersistInv ==
  /\ WholeFile(file)
  /\ ram \in [Keys -> Values]
  /\ at \in {"wait", "pass", "pause"} /\ key \in 1 .. Len(KeySeq) + 1

LEMMA SavedSet ==
  ASSUME NEW f, NEW g, NEW k \in Keys, NEW v, SetOnly(f, g, k, v)
  PROVE  SavesTo(f, g, k, v)
<1>1. \A other \in Keys : other # k => Loaded(g, other) = Loaded(f, other) /\ Read(g, other) = Read(f, other)
  BY DEF SetOnly
<1>2. Loaded(g, k) = v /\ Read(g, k) = v
  BY DEF SetOnly, Holds
<1>3. \A other \in Keys : (IF other \in Keyed THEN Loaded(g, other) ELSE Read(g, other))
        = IF other = k THEN v ELSE IF other \in Keyed THEN Loaded(f, other) ELSE Read(f, other)
  BY <1>1, <1>2
<1> QED
  BY <1>3 DEF Saved, SavesTo

LEMMA LoadedIs ==
  ASSUME NEW f, WholeFile(f), NEW k
  PROVE  Loaded(f, k) \in Values /\ Read(f, k) \in Values
<1>1. CASE \E p : HasAt(f, k, p)
  <2>1. PICK p : HasAt(f, k, p)
    BY <1>1
  <2>2. f[p + 1].head = FALSE /\ p + 1 \in 1 .. Len(f)
    BY <2>1, HeaderAt
  <2>3. f[p + 1] \in Cells
    BY <2>2, ElementOfSeq DEF WholeFile
  <2>4. f[p + 1].is \in Values
    BY <2>2, <2>3, CellsAre DEF Cells
  <2> QED
    BY <2>1, <2>4, BothRead
<1>2. CASE ~\E p : HasAt(f, k, p)
  BY <1>2, BothRead, PersistAssumption
<1> QED
  BY <1>1, <1>2

LEMMA KeysOf ==
  /\ KeySeq \in Seq(Keyed) /\ Len(KeySeq) \in Nat
  /\ \A n \in 1 .. Len(KeySeq) : KeySeq[n] \in Keyed
  /\ Keyed \subseteq Keys /\ Direct \subseteq Keys /\ Keyed = Keys \ Direct
  BY PersistAssumption, LenProperties DEF Keyed, Keys

LEMMA PersistStarts ==
  ASSUME PersistInit
  PROVE  PersistInv /\ Saved(file) = [k \in Keys |-> Default]
<1>1. WholeFile(file)
  <2>1. file \in Seq(Cells) /\ Len(file) = 0
    BY EmptySeq DEF PersistInit
  <2>2. ~Odd(0)
    BY DEF Odd
  <2> QED
    BY <2>1, <2>2 DEF WholeFile
<1>2. \A k : Loaded(file, k) = Default /\ Read(file, k) = Default
  <2>1. Len(file) = 0
    BY DEF PersistInit
  <2>2. \A k, p : ~HasAt(file, k, p)
    BY <2>1 DEF HasAt
  <2> QED
    BY <1>1, <2>2, BothRead
<1>3. Saved(file) = [k \in Keys |-> Default]
  BY <1>2 DEF Saved
<1> QED
  BY <1>1, <1>3, KeysOf, PersistAssumption DEF PersistInit, PersistInv

Copies == ram' = ram /\ \E k \in Keys \ Direct : SavesTo(file, file', k, ram[k])
Puts   == ram' = ram /\ \E k \in Direct, v \in Values : SavesTo(file, file', k, v)
Sets   == file' = file /\ \E k \in Keys \ Direct, v \in Values : ram' = [ram EXCEPT ![k] = v]
Restarts == file' = file /\ (ram' = Restored(file) \/ ram' = [k \in Keys |-> Default])
Meaning == Copies \/ Puts \/ Sets \/ Restarts \/ (file' = file /\ ram' = ram)

LEMMA PersistSteps ==
  ASSUME PersistInv, [PersistNext]_persistVars, "torn" \notin Faults
  PROVE  PersistInv' /\ Meaning
<1> USE DEF PersistInv
<1>1. CASE Wake
  BY <1>1, KeysOf DEF Wake, Meaning
<1>2. CASE SaveKey
  <2> DEFINE k == KeySeq[key]
  <2>1. k \in Keyed /\ k \in Keys \ Direct
    BY <1>2, KeysOf DEF SaveKey
  <2>2. ram[k] \in Values
    BY <2>1
  <2>3. file' \in Written(file, k, ram[k]) /\ ram' = ram
    BY <1>2 DEF SaveKey
  <2> HIDE DEF k
  <2>4. SetOnly(file, file', k, ram[k])
    BY <2>1, <2>2, <2>3, WrittenSetsOnly
  <2>5. SavesTo(file, file', k, ram[k])
    BY <2>1, <2>4, SavedSet
  <2>6. WholeFile(file')
    BY <2>4 DEF SetOnly
  <2>7. at' \in {"wait", "pass", "pause"} /\ key' \in 1 .. Len(KeySeq) + 1
    BY <1>2, KeysOf DEF SaveKey
  <2> QED
    BY <2>1, <2>3, <2>5, <2>6, <2>7 DEF Meaning, Copies
<1>3. CASE PassDone
  BY <1>3, KeysOf DEF PassDone, Meaning
<1>4. CASE Rest
  BY <1>4 DEF Rest, Meaning
<1>5. ASSUME NEW k \in Keyed, NEW v \in Values, SetVariable(k, v) PROVE PersistInv' /\ Meaning
  <2>1. k \in Keys \ Direct /\ ram' = [ram EXCEPT ![k] = v] /\ file' = file /\ at' = at /\ key' = key
    BY <1>5, KeysOf DEF SetVariable, Assign
  <2> QED
    BY <2>1 DEF Meaning, Sets
<1>6. ASSUME NEW k \in Direct, NEW v \in Values, SetDirect(k, v) PROVE PersistInv' /\ Meaning
  <2>1. k \in Keys /\ ram' = ram /\ at' = at /\ key' = key
    BY <1>6, KeysOf DEF SetDirect
  <2>2. file' = file \/ file' \in Written(file, k, v)
    BY <1>6 DEF SetDirect
  <2>3. CASE file' = file
    BY <2>1, <2>3 DEF Meaning
  <2>4. CASE file' \in Written(file, k, v)
    <3>1. SetOnly(file, file', k, v)
      BY <2>1, <2>4, WrittenSetsOnly
    <3>2. SavesTo(file, file', k, v)
      BY <2>1, <3>1, SavedSet
    <3>3. WholeFile(file')
      BY <3>1 DEF SetOnly
    <3> QED
      BY <2>1, <3>2, <3>3 DEF Meaning, Puts
  <2> QED
    BY <2>2, <2>3, <2>4
<1>7. ASSUME NEW k \in Direct, OutOfFlash(k) PROVE PersistInv' /\ Meaning
  BY <1>7 DEF OutOfFlash
<1>8. CASE PowerLoss
  <2>1. Boot(file)
    BY <1>8 DEF PowerLoss
  <2>2. PICK ok \in Opens : ram' = [k \in Keys |-> IF ok /\ k \in Keyed THEN Loaded(file, k) ELSE Default]
    BY <2>1 DEF Boot
  <2>3. file' = file /\ at' = "wait" /\ key' = 1
    BY <2>1 DEF Boot
  <2>4. ok \in BOOLEAN
    BY <2>2 DEF Opens
  <2>5. ASSUME ok = TRUE PROVE Restarts
    <3>1. \A k \in Keys : (IF ok /\ k \in Keyed THEN Loaded(file, k) ELSE Default)
                        = IF k \in Direct THEN Default ELSE Saved(file)[k]
      BY <2>5, KeysOf DEF Saved
    <3>2. ram' = Restored(file)
      BY <2>2, <3>1 DEF Restored
    <3> QED
      BY <2>3, <3>2 DEF Restarts
  <2>6. ASSUME ok = FALSE PROVE Restarts
    BY <2>2, <2>3, <2>6 DEF Restarts
  <2>7. Restarts
    BY <2>4, <2>5, <2>6
  <2>8. ram' \in [Keys -> Values]
    <3>1. \A k \in Keys : (IF ok /\ k \in Keyed THEN Loaded(file, k) ELSE Default) \in Values
      BY LoadedIs, PersistAssumption
    <3> QED
      BY <2>2, <3>1
  <2> QED
    BY <2>3, <2>7, <2>8, KeysOf DEF Meaning
<1>9. CASE UNCHANGED persistVars
  BY <1>9 DEF persistVars, Meaning
<1> QED
  BY <1>1, <1>2, <1>3, <1>4, <1>5, <1>6, <1>7, <1>8, <1>9 DEF PersistNext, Thread, Calls

(* While no block is cut short, the file is whole blocks, one for each     *)
(* key: what _kv_i8_persist_set_internal (keyvalue.c) relies on when it    *)
(* seeks from header to header.                                            *)
THEOREM BlocksAreWhole ==
  ASSUME "torn" \notin Faults
  PROVE  PersistSpec => []WholeBlocks
<1>1. PersistInit => PersistInv
  BY PersistStarts
<1>2. PersistInv /\ [PersistNext]_persistVars => PersistInv'
  BY PersistSteps
<1>3. PersistInv => WholeBlocks
  <2> SUFFICES ASSUME PersistInv PROVE WholeBlocks
    OBVIOUS
  <2>1. WholeFile(file) /\ Len(file) \in Nat /\ DOMAIN file = 1 .. Len(file)
    BY WholeLen, LenProperties DEF PersistInv, WholeFile
  <2>2. Len(file) % 2 = 0
    <3>1. \A n \in Nat : ~Odd(n) => n % 2 = 0
      BY DEF Odd
    <3> QED
      BY <2>1, <3>1 DEF WholeFile
  <2>3. \A p \in 1 .. Len(file) : file[p].head <=> p % 2 = 1
    BY <2>1 DEF WholeFile, Odd
  <2>4. \A p, q \in 1 .. Len(file) : file[p].head /\ file[p] = file[q] => p = q
    BY <2>1 DEF WholeFile
  <2> QED
    BY <2>1, <2>2, <2>3, <2>4 DEF WholeBlocks
<1> QED
  BY <1>1, <1>2, <1>3, PTL DEF PersistSpec

(* While no block is cut short, saving copies the value that a key has at  *)
(* that instant, touches no other key, and a restart brings back what was  *)
(* saved, or the defaults when the file cannot be opened: persist_thread,  *)
(* kv_i8_set and kv_v_init (keyvalue.c), whatever is written in between.   *)
THEOREM PersistenceHolds ==
  ASSUME "torn" \notin Faults
  PROVE  PersistSpec => ImplementsPersist
<1>1. PersistInit => PersistInv /\ Store!Init
  <2> SUFFICES ASSUME PersistInit PROVE PersistInv /\ Store!Init
    OBVIOUS
  <2>1. PersistInv /\ Saved(file) = [k \in Keys |-> Default]
    BY PersistStarts
  <2>2. ram = [k \in Keys |-> Default]
    BY DEF PersistInit
  <2> QED
    BY <2>1, <2>2 DEF Store!Init, Saved
<1>2. PersistInv /\ [PersistNext]_persistVars => PersistInv' /\ [Store!Next]_(Store!vars)
  <2> SUFFICES ASSUME PersistInv, [PersistNext]_persistVars
               PROVE  PersistInv' /\ [Store!Next]_(Store!vars)
    OBVIOUS
  <2>1. PersistInv' /\ Meaning
    BY PersistSteps
  <2>2. CASE Copies
    <3>1. \E k \in Keys \ Direct : Store!Save(k)
      BY <2>2 DEF Copies, SavesTo, Saved, Store!Save
    <3> QED
      BY <2>1, <3>1 DEF Store!Next
  <2>3. CASE Puts
    <3>1. \E k \in Direct, v \in Values : Store!Put(k, v)
      BY <2>3 DEF Puts, SavesTo, Saved, Store!Put
    <3> QED
      BY <2>1, <3>1 DEF Store!Next
  <2>4. CASE Sets
    <3>1. \E k \in Keys \ Direct, v \in Values : Store!Set(k, v)
      BY <2>4 DEF Sets, Store!Set
    <3> QED
      BY <2>1, <3>1 DEF Store!Next
  <2>5. CASE Restarts
    <3>1. Store!Restart
      BY <2>5 DEF Restarts, Restored, Saved, Store!Restart
    <3> QED
      BY <2>1, <3>1 DEF Store!Next
  <2>6. CASE file' = file /\ ram' = ram
    BY <2>1, <2>6 DEF Store!vars
  <2> QED
    BY <2>1, <2>2, <2>3, <2>4, <2>5, <2>6 DEF Meaning
<1> QED
  BY <1>1, <1>2, PTL DEF PersistSpec, ImplementsPersist, Store!Spec
=============================================================================

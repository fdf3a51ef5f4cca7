------------------------------ MODULE Sockets ------------------------------
(***************************************************************************)
(* UDP sockets (sapphireos/sockets.c) and the messages that carry          *)
(* datagrams to and from them (sapphireos/netmsg.c).  A socket has room    *)
(* for one received datagram and one remote address, which a received      *)
(* datagram and a sent one both overwrite.                                 *)
(* Calls are atomic; between two of them other threads may call.           *)
(***************************************************************************)
EXTENDS Integers, FiniteSets

CONSTANTS
  Sockets,     \* socket handles
  Blocks,      \* memory for datagrams
  Remotes,     \* addresses that datagrams are sent to, or come from
  Loop, Zero,  \* 127.x.x.x and 0.0.0.0
  Low, High,   \* SOCK_EPHEMERAL_PORT_LOW and SOCK_EPHEMERAL_PORT_HIGH
  Services,    \* ports that servers bind
  Timeouts,    \* in ticks of a second; 0 is none
  None

Ports == Services \cup Low .. High - 1
Local(p) == [ip |-> Zero, port |-> p]
Addresses == Remotes \cup {Local(p) : p \in Ports}

ASSUME SocketsAssumption ==
  /\ Low \in Nat /\ High \in Nat /\ Low < High
  /\ Services \subseteq Nat /\ Services \cap (Low .. High) = {}
  /\ Timeouts \subseteq Nat
  /\ \A a \in Remotes : a.ip # Zero /\ a.port \in Nat
  /\ None \notin Blocks /\ None \notin Addresses

VARIABLES
  sock,      \* the sockets; a datagram socket's state for each
  ephemeral, \* current_ephemeral_port
  mem,       \* the blocks that are allocated
  taken      \* blocks that the application owns

vars == <<sock, ephemeral, mem, taken>>

Closed == [open |-> FALSE, lport |-> 0, state |-> "idle", buffer |-> None, raddr |-> None,
           setting |-> 0, current |-> 0]

-----------------------------------------------------------------------------
(* Ports.                                                                  *)

InUse == {sock[s].lport : s \in {x \in Sockets : sock[x].open}}

(* The n-th port after the last one given, around the range.               *)
Nth(n) == Low + ((ephemeral - Low + n) % (High - Low))

(* get_lport takes the first of them that is not in use.                   *)
Bug_TakesNext(n) == n = 1
FirstFree(n) == Nth(n) \notin InUse /\ \A m \in 1 .. n - 1 : Nth(m) \in InUse

(* sock_s_create.  With no free port get_lport would not return.           *)
Create(s) ==
  /\ ~sock[s].open
  /\ \E n \in 1 .. High - Low :
       /\ FirstFree(n)
       /\ sock' = [sock EXCEPT ![s] = [Closed EXCEPT !.open = TRUE, !.lport = Nth(n)]]
       /\ ephemeral' = Nth(n)
  /\ UNCHANGED <<mem, taken>>

Freed(m, b) == m \ {b}

(* sock_v_release.                                                         *)
Release(s) ==
  /\ sock[s].open
  /\ mem' = Freed(mem, sock[s].buffer)
  /\ sock' = [sock EXCEPT ![s] = Closed]
  /\ UNCHANGED <<ephemeral, taken>>

(* sock_v_bind, which asserts that nobody uses the port.                   *)
Bind(s, p) ==
  /\ sock[s].open /\ p \notin InUse
  /\ sock' = [sock EXCEPT ![s] = [@ EXCEPT !.lport = p]]
  /\ UNCHANGED <<ephemeral, mem, taken>>

-----------------------------------------------------------------------------
(* Settings: sock_v_set_timeout, sock_v_set_raddr.                         *)

SetTimeout(s, t) ==
  /\ sock[s].open
  /\ sock' = [sock EXCEPT ![s] = [@ EXCEPT !.setting = t, !.current = 0]]
  /\ UNCHANGED <<ephemeral, mem, taken>>

SetRaddr(s, a) ==
  /\ sock[s].open
  /\ sock' = [sock EXCEPT ![s] = [@ EXCEPT !.raddr = a]]
  /\ UNCHANGED <<ephemeral, mem, taken>>

-----------------------------------------------------------------------------
(* sock_v_recv: the datagram in block b, from `from`, for port p.  What it *)
(* leaves of sockets sk and memory m; netmsg_v_release frees what no       *)
(* socket took.                                                            *)

Accepts(sk, s) == sk[s].buffer = None \/ sk[s].state = "received"

Received(sk, m, b, from, p) ==
  LET takers == {s \in Sockets : sk[s].open /\ sk[s].lport = p}
      s == CHOOSE x \in takers : TRUE
  IN  IF takers # {} /\ Accepts(sk, s)
      THEN [sock |-> [sk EXCEPT ![s] = [@ EXCEPT !.buffer = b, !.raddr = from, !.state = "pending"]],
            mem  |-> Freed(m \cup {b}, sk[s].buffer)]
      ELSE [sock |-> sk, mem |-> Freed(m, b)]

FreeBlocks == Blocks \ mem
NewBlock == CHOOSE b \in FreeBlocks : TRUE

(* A datagram comes from the wifi processor; without memory it is lost.    *)
Arrive(from, p) ==
  /\ FreeBlocks # {}
  /\ LET r == Received(sock, mem, NewBlock, from, p) IN sock' = r.sock /\ mem' = r.mem
  /\ UNCHANGED <<ephemeral, taken>>

-----------------------------------------------------------------------------
(* sock_i8_recvfrom: what it leaves of a socket.                           *)

Polled(k) ==
  CASE k.state = "idle"     -> [k EXCEPT !.state = "waiting", !.current = k.setting]
    [] k.state = "waiting"  -> k
    [] k.state = "pending"  -> [k EXCEPT !.state = "received"]
    [] k.state = "received" -> [k EXCEPT !.state = "idle", !.buffer = None]
    [] k.state = "timedout" -> [k EXCEPT !.state = "idle"]

(* It answers 0.                                                           *)
Ready(k) == k.state \in {"pending", "timedout"}

Dropped(k) == IF k.state = "received" THEN k.buffer ELSE None

Poll(s) ==
  /\ sock[s].open
  /\ sock' = [sock EXCEPT ![s] = Polled(sock[s])]
  /\ mem' = Freed(mem, Dropped(sock[s]))
  /\ UNCHANGED <<ephemeral, taken>>

(* sock_h_get_data_handle, for a datagram that was received.               *)
TakeHandle(s) ==
  /\ sock[s].open /\ sock[s].state = "received" /\ sock[s].buffer # None
  /\ taken' = taken \cup {sock[s].buffer}
  /\ sock' = [sock EXCEPT ![s] = [@ EXCEPT !.buffer = None]]
  /\ UNCHANGED <<ephemeral, mem>>

FreeTaken(b) ==
  /\ b \in taken
  /\ taken' = taken \ {b} /\ mem' = Freed(mem, b)
  /\ UNCHANGED <<sock, ephemeral>>

-----------------------------------------------------------------------------
(* sock_i8_transmit and netmsg_v_send: block b goes to the remote address  *)
(* that socket s has in sk.  Loopback is received at once, with the        *)
(* addresses swapped: the local one has only a port.  Everything else is   *)
(* given to the wifi processor, or dropped without memory, a route or a    *)
(* connection, and is freed.                                               *)

Loopback(sk, b, s) ==
  LET r == Received(sk, mem, b, Local(sk[s].lport), sk[s].raddr.port)
  IN  sock' = r.sock /\ mem' = r.mem

Transmit(s, sk, b) ==
  \/ sk[s].raddr.ip = Loop /\ Loopback(sk, b, s)
  \/ sock' = sk /\ mem' = Freed(mem, b)

(* sock_i16_sendto, to an address or, without one, to the socket's.        *)
SendTo(s, a) ==
  /\ sock[s].open /\ FreeBlocks # {}
  /\ Transmit(s, [sock EXCEPT ![s] = [@ EXCEPT !.raddr = a]], NewBlock)
  /\ UNCHANGED <<ephemeral, taken>>

Reply(s) ==
  /\ sock[s].open /\ sock[s].raddr # None /\ FreeBlocks # {}
  /\ Transmit(s, sock, NewBlock)
  /\ UNCHANGED <<ephemeral, taken>>

(* sock_i16_sendto_m: a block that the application owns goes with it.      *)
ReplyTaken(s, b) ==
  /\ sock[s].open /\ sock[s].raddr # None /\ b \in taken
  /\ Transmit(s, sock, b)
  /\ taken' = taken \ {b}
  /\ UNCHANGED ephemeral

-----------------------------------------------------------------------------
(* timeout_thread, each second.                                            *)

Less(t) == IF t > 0 THEN t - 1 ELSE 0
Bug_NeverZero(k) == [k EXCEPT !.current = Less(k.current)]
Ticked(k) ==
  [k EXCEPT !.current = Less(k.current),
            !.state = IF k.setting > 0 /\ Less(k.current) = 0 /\ k.state = "waiting"
                        THEN "timedout" ELSE k.state]

Tick ==
  /\ sock' = [s \in Sockets |-> IF sock[s].open THEN Ticked(sock[s]) ELSE sock[s]]
  /\ UNCHANGED <<ephemeral, mem, taken>>

Init ==
  /\ sock = [s \in Sockets |-> Closed]
  /\ ephemeral \in Low .. High - 1
  /\ mem = {} /\ taken = {}

Call(s) ==
  \/ Create(s) \/ Release(s) \/ \E p \in Services : Bind(s, p)
  \/ \E t \in Timeouts : SetTimeout(s, t)
  \/ Poll(s) \/ TakeHandle(s) \/ Reply(s)
  \/ \E a \in Remotes : SetRaddr(s, a) \/ SendTo(s, a)
  \/ \E b \in Blocks : ReplyTaken(s, b)

Next ==
  \/ \E s \in Sockets : Call(s)
  \/ \E b \in Blocks : FreeTaken(b)
  \/ \E a \in Remotes, p \in Ports : a.ip # Loop /\ Arrive(a, p)
  \/ Tick

Spec == Init /\ [][Next]_vars /\ WF_vars(Tick)
-----------------------------------------------------------------------------
(* Properties.                                                             *)

TypeOK ==
  /\ sock \in [Sockets -> [open : BOOLEAN, lport : Ports \cup {0},
                           state : {"idle", "waiting", "pending", "received", "timedout"},
                           buffer : Blocks \cup {None}, raddr : Addresses \cup {None},
                           setting : Nat, current : Nat]]
  /\ ephemeral \in Ports /\ mem \subseteq Blocks
  /\ taken \subseteq Blocks

(* A block in use belongs to one socket or to the application, and one     *)
(* that belongs to somebody is in use: nothing leaks, and nothing is freed *)
(* twice, over replacement, loopback, release and taken handles.           *)
Held == {sock[s].buffer : s \in Sockets} \ {None}
HandlesOwned ==
  /\ mem = Held \cup taken /\ Held \cap taken = {}
  /\ \A s, t \in Sockets : sock[s].buffer = sock[t].buffer /\ sock[s].buffer # None => s = t

(* The assertion in sock_i8_recvfrom never fails, and no state but those   *)
(* of a datagram holds one: a time-out is told from data by the handle.    *)
StateTrue ==
  \A s \in Sockets :
    /\ sock[s].state = "pending" => sock[s].buffer # None
    /\ sock[s].buffer # None => sock[s].state \in {"pending", "received"}

(* No two sockets have one port, so that a datagram has one receiver.      *)
PortsDistinct ==
  \A s, t \in Sockets : sock[s].open /\ sock[t].open /\ sock[s].lport = sock[t].lport => s = t

(* All three, of which each alone follows from none of the others.         *)
SocketsSound == HandlesOwned /\ StateTrue /\ PortsDistinct

(* With a timeout set, no socket waits for ever.                           *)
WaitsEnd ==
  \A s \in Sockets :
    [](sock[s].setting > 0) => []<>(sock[s].state # "waiting")
=============================================================================

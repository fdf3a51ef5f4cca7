------------------------------- MODULE Catbus -------------------------------
(***************************************************************************)
(* The catbus server (sapphireos/catbus.c): one socket, on which a server  *)
(* thread answers requests, a thread announces the node, and threads that  *)
(* hash files send what they find; and a file session, a thread that       *)
(* closes the file of a transfer that has stopped.                         *)
(* A request is its kind, and the sender it came from.                     *)
(***************************************************************************)
EXTENDS Sockets

CONSTANTS
  Clients,      \* addresses that requests come from
  Broadcast,    \* 255.255.255.255
  Files,        \* file handles
  SessionTicks, \* FILE_SESSION_TIMEOUT
  MaxChecks     \* bound on the threads that hash files

Kinds == {"empty", "quiet", "query", "set", "open", "use", "close", "check"}

ASSUME CatbusAssumption ==
  /\ Sockets # {} /\ Services # {} /\ Clients # {}
  /\ Clients \cup {Broadcast} \subseteq Remotes /\ Broadcast \notin Clients
  /\ \A c \in Clients \cup {Broadcast} : c.ip # Loop   \* they are other nodes
  /\ SessionTicks \in 1 .. 255 /\ MaxChecks \in Nat
  /\ None \notin [file : Files, timeout : 0 .. 255]

VARIABLES
  request, \* the request in the socket's buffer
  session, \* the data of the file session's thread, or None
  handle,  \* is file_session_thread a handle?
  checks,  \* the threads that hash files: the file, and whom to tell
  files,   \* open file handles
  checked, \* auxiliary: was a hash sent while the request waited?
  last     \* auxiliary: did the last answer go to who asked, and was a hash
           \* sent while it waited?

catVars == <<request, session, handle, checks, files>>
allVars == <<vars, catVars, last, checked>>

cb == CHOOSE s \in Sockets : TRUE
Port == CHOOSE p \in Services : TRUE
own == sock[cb]

Bytes == own.buffer # None

-----------------------------------------------------------------------------
(* A request comes.                                                        *)

Request(kind, from) ==
  /\ Arrive(from, Port)
  /\ IF Accepts(sock, cb)
     THEN request' = [kind |-> kind, from |-> from] /\ checked' = FALSE
     ELSE UNCHANGED <<request, checked>>
  /\ UNCHANGED <<session, handle, checks, files, last>>

-----------------------------------------------------------------------------
(* catbus_server_thread, from recvfrom to the next yield.                  *)

Waits ==
  /\ ~Ready(own) /\ Poll(cb)
  /\ UNCHANGED <<catVars, last, checked>>

TimesOut ==
  /\ own.state = "timedout" /\ Poll(cb)
  /\ UNCHANGED <<catVars, last, checked>>

Has(kinds) == own.state = "pending" /\ request.kind \in kinds
After0 == [sock EXCEPT ![cb] = Polled(own)]

(* The answer, to the socket's address; without memory there is none.      *)
Answer(sk) ==
  /\ \/ FreeBlocks # {} /\ Transmit(cb, sk, NewBlock)
     \/ sock' = sk /\ UNCHANGED mem
  /\ last' = [right |-> sk[cb].raddr = request.from, checked |-> checked]
  /\ UNCHANGED <<ephemeral, request, checked>>

Ignored ==
  /\ Has({"empty", "quiet"}) /\ Poll(cb)
  /\ UNCHANGED <<catVars, last, checked>>

Answered ==
  /\ Has({"query"}) /\ Answer(After0)
  /\ UNCHANGED <<taken, session, handle, checks, files>>

(* SET_KEYS: the datagram becomes its own answer.  When a key is refused,  *)
(* an error is sent instead, and the datagram stays with the thread.       *)
Emptied == [After0 EXCEPT ![cb].buffer = None]

SetKeys ==
  /\ Has({"set"}) /\ Transmit(cb, Emptied, own.buffer)
  /\ last' = [right |-> own.raddr = request.from, checked |-> checked]
  /\ UNCHANGED <<taken, ephemeral, catVars, checked>>

SetRefused ==
  /\ Has({"set"}) /\ Answer(Emptied)
  /\ taken' = taken \cup {own.buffer}
  /\ UNCHANGED <<session, handle, checks, files>>

-----------------------------------------------------------------------------
(* FILE_OPEN, FILE_GET and FILE_DATA, FILE_CLOSE: the one session.         *)

NewFile == CHOOSE f \in Files \ files : TRUE

Open ==
  /\ Has({"open"}) /\ ~handle /\ files # Files
  /\ session' = [file |-> NewFile, timeout |-> SessionTicks]
  /\ files' = files \cup {NewFile} /\ handle' = TRUE
  /\ Answer(After0)
  /\ UNCHANGED <<taken, checks>>

(* No such session, a busy one, no such file, no memory for a thread: the  *)
(* file is closed again.                                                   *)
OpenFails ==
  /\ Has({"open", "use", "close", "check"}) /\ Answer(After0)
  /\ UNCHANGED <<taken, session, handle, checks, files>>

Renewed == [session EXCEPT !.timeout = SessionTicks]

(* Data that is not the next in the file gets no answer.                   *)
Use ==
  /\ Has({"use"}) /\ handle
  /\ session' = Renewed
  /\ \/ Answer(After0) /\ UNCHANGED taken
     \/ Poll(cb) /\ UNCHANGED <<request, last, checked>>
  /\ UNCHANGED <<handle, checks, files>>

Killed == None

Close ==
  /\ Has({"close"}) /\ handle
  /\ files' = files \ {session.file} /\ session' = Killed /\ handle' = FALSE
  /\ Answer(After0)
  /\ UNCHANGED <<taken, checks>>

(* catbus_file_session_thread, every 100 ms.                               *)
Expired == session.timeout = 1

SessionTick ==
  /\ session # None
  /\ IF Expired
     THEN files' = files \ {session.file} /\ session' = None /\ handle' = FALSE
     ELSE session' = [session EXCEPT !.timeout = (@ - 1) % 256] /\ UNCHANGED <<files, handle>>
  /\ UNCHANGED <<vars, request, checks, last, checked>>

-----------------------------------------------------------------------------
(* FILE_CHECK, and catbus_file_check_thread.                               *)

StartCheck ==
  /\ Has({"check"}) /\ files # Files /\ Cardinality(checks) < MaxChecks
  /\ checks' = checks \cup {[file |-> NewFile, to |-> own.raddr]}
  /\ files' = files \cup {NewFile}
  /\ Poll(cb)
  /\ UNCHANGED <<request, session, handle, last, checked>>

(* The hash goes out on the same socket, whatever it holds.                *)
Unattended == Bytes /\ own.state = "pending"

EndCheck(c) ==
  /\ c \in checks
  /\ checks' = checks \ {c} /\ files' = files \ {c.file}
  /\ \/ SendTo(cb, c.to) /\ checked' = (checked \/ Unattended)
     \/ UNCHANGED <<vars, checked>>
  /\ UNCHANGED <<request, session, handle, last>>

-----------------------------------------------------------------------------
(* catbus_announce_thread, which waits while the socket has data.          *)

Bug_AnnounceAtOnce == FALSE
DataPending == Bytes /\ request.kind # "empty"

Announce ==
  /\ ~DataPending
  /\ SendTo(cb, Broadcast)
  /\ UNCHANGED <<catVars, last, checked>>

(* The timeout thread of the sockets.                                      *)
SocketTick == Tick /\ UNCHANGED <<catVars, last, checked>>

CatRest ==
  /\ request = [kind |-> "quiet", from |-> CHOOSE c \in Clients : TRUE]
  /\ session = None /\ handle = FALSE /\ checks = {} /\ files = {}
  /\ last = [right |-> TRUE, checked |-> FALSE] /\ checked = FALSE

CatInit ==
  /\ sock = [s \in Sockets |->
               IF s = cb THEN [Closed EXCEPT !.open = TRUE, !.lport = Port, !.setting = 1] ELSE Closed]
  /\ ephemeral = Low /\ mem = {} /\ taken = {}
  /\ CatRest

Server ==
  \/ Waits \/ TimesOut \/ Ignored \/ Answered \/ SetKeys \/ SetRefused
  \/ Open \/ OpenFails \/ Use \/ Close \/ StartCheck

CatNext ==
  \/ Server
  \/ \E kind \in Kinds, from \in Clients : Request(kind, from)
  \/ SessionTick \/ SocketTick \/ Announce
  \/ \E c \in checks : EndCheck(c)

CatSpec ==
  CatInit /\ [][CatNext]_allVars
  /\ WF_allVars(Server) /\ WF_allVars(SocketTick) /\ WF_allVars(SessionTick)
-----------------------------------------------------------------------------
(* Properties.                                                             *)

(* An answer goes to who asked, the announcements on the same socket       *)
(* notwithstanding, unless a file's hash was sent in between.              *)
RepliesReach == last.right \/ last.checked

(* As the comment in catbus_announce_thread wants it, whoever sends.       *)
AnswersAsker == last.right

(* Every open file belongs to the session or to one thread that hashes it, *)
(* is closed once, and file_session_thread never names a dead thread.      *)
FilesHeld ==
  /\ handle = (session # None)
  /\ files = {c.file : c \in checks} \cup (IF session = None THEN {} ELSE {session.file})
  /\ Cardinality(files) = Cardinality(checks) + (IF session = None THEN 0 ELSE 1)

(* The server serves the right one, and holds what it has opened.          *)
ServerSound == RepliesReach /\ FilesHeld

(* Nobody is left with a datagram: memory in use is the socket's.          *)
NothingLost == taken = {}

(* The server's wait ends, with data or the time-out, and a session that   *)
(* nobody uses ends, whatever other clients ask for.                       *)
ServerBack == own.state \notin {"waiting", "pending"}
ServerReturns == []<>ServerBack
SessionsEnd == []<>(session = None) \/ []<>Has({"use"})
=============================================================================

------------------------------- MODULE MCKeys -------------------------------
(***************************************************************************)
(* The parts that keys are made of, side by side: the catbus server and    *)
(* its sockets, a file transfer, the database of dynamic keys, and the     *)
(* persistence of keys.  They share nothing in the models; the initial     *)
(* state chooses which of them runs, and the others rest.                  *)
(***************************************************************************)
EXTENDS Catbus, FileTransfer, KvDatabase, KvPersist, TLC

CONSTANTS loop, a, b, all

Address(ip) == [ip |-> ip, port |-> 1]
MCClients   == {Address(a), Address(b)}
MCBroadcast == Address(all)
MCRemotes   == {Address(ip) : ip \in {loop, a, all}} \cup MCClients

MCKeySeq    == <<"a", "b">>

VARIABLE subject

all_vars == <<subject, allVars, kvVars, persistVars, transferVars>>

-----------------------------------------------------------------------------
(* One of them runs, from its initial state.                               *)

Only(x) ==
  /\ UNCHANGED subject
  /\ IF x \in {"sockets", "catbus"} THEN TRUE ELSE UNCHANGED allVars
  /\ IF x = "keys"     THEN TRUE ELSE UNCHANGED kvVars
  /\ IF x = "persist"  THEN TRUE ELSE UNCHANGED persistVars
  /\ IF x = "transfer" THEN TRUE ELSE UNCHANGED transferVars

(* The sockets alone, which send to each other.                            *)
FewRemotes == \A s \in Sockets : sock'[s].raddr \notin MCClients \cup {MCBroadcast}

MCInit ==
  /\ subject \in {"sockets", "catbus", "keys", "persist", "transfer"}
  /\ IF subject = "sockets" THEN Init /\ CatRest ELSE CatInit
  /\ KvInit /\ (subject # "keys" => db = << >>)
  /\ PersistInit
  /\ TransferInit /\ (subject # "transfer" => mode = "read")

MCNext ==
  \/ subject = "sockets"  /\ Next /\ FewRemotes /\ UNCHANGED <<catVars, last, checked>> /\ Only("sockets")
  \/ subject = "catbus"   /\ CatNext /\ Only("catbus")
  \/ subject = "keys"     /\ KvNext /\ Only("keys")
  \/ subject = "persist"  /\ PersistNext /\ Only("persist")
  \/ subject = "transfer" /\ TransferNext /\ Only("transfer")

(* The fairness of the specifications, by kind.                            *)
Fair ==
  \/ subject = "catbus"   /\ Server /\ Only("catbus")
  \/ subject = "persist"  /\ Thread /\ Only("persist")
  \/ subject = "transfer" /\ TimeOut /\ Only("transfer")
FairTick    == subject = "catbus" /\ SocketTick /\ Only("catbus")
FairSession == subject = "catbus" /\ SessionTick /\ Only("catbus")
FairNode    == subject = "transfer" /\ NodeHears /\ Only("transfer")
FairClient  == subject = "transfer" /\ ClientHears /\ Only("transfer")

MCSpec ==
  /\ MCInit /\ [][MCNext]_all_vars
  /\ WF_all_vars(Fair) /\ WF_all_vars(FairTick) /\ WF_all_vars(FairSession)
  /\ SF_all_vars(FairNode) /\ SF_all_vars(FairClient)
-----------------------------------------------------------------------------
(* The properties of each, where it runs.                                  *)

(* Catbus: the server's waits and the file sessions end.  FileTransfer:    *)
(* reads end, and writes do unless a message is lost.  What has ended      *)
(* stays so.                                                               *)
WorkEnds ==
  /\ []<>(subject # "catbus" \/ ServerBack)
  /\ []<>(subject # "catbus" \/ session = None) \/ []<>Has({"use"})
  /\ []<>(subject # "transfer" \/ Ended)
=============================================================================

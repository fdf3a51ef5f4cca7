------------------------------ MODULE KeySync ------------------------------
(***************************************************************************)
(* A key that the two processors share while a program runs.  The main     *)
(* processor keeps the key for the world (kvdb.c or the table of static    *)
(* keys), the wifi processor keeps a copy for the program (its own         *)
(* kvdb.c), and each tells the other what changes: the main processor when *)
(* a dynamic key is set (kvdb_v_notify_set in graphics.c) and, before a    *)
(* frame, the keys the program reads (send_read_keys); the wifi processor  *)
(* after every frame, for the variables the program publishes and the keys *)
(* it writes (_vm_i8_run_vm in vm_runner.cpp).  The messages cross.        *)
(*                                                                         *)
(* One key is modelled: keys do not depend on each other, except that more *)
(* than one message full of read keys is never sent.                       *)
(***************************************************************************)
EXTENDS Integers, Sequences

CONSTANTS
  Values,     \* what a program or a user sets the key to; 0 is one of them
  Limit,      \* largest value of the type of a static key
  None,       \* the key is not there
  MaxSets, MaxChanges, MaxLosses, MaxLoads   \* bounds

SyncAssumption ==
  /\ Values \subseteq Int /\ 0 \in Values /\ Limit \in Values /\ None \notin Values
  /\ MaxSets \in Nat /\ MaxChanges \in Nat /\ MaxLosses \in Nat /\ MaxLoads \in Nat
ASSUME SyncAssumption

(* What the program does with the key.  A published variable is added to   *)
(* the dynamic keys of the main processor; otherwise it is a static key.   *)
Uses == {{"published"}, {"published", "read"}, {"read"}, {"written"}, {"read", "written"}}

VARIABLES
  use, paced,      \* how the key is used; frames leave time for the messages
  main, running,   \* main processor: the value, and vm_running
  step,            \* of gfx_control_thread
  toWifi,          \* the message on its way to the wifi processor, if any
  db, vm, runVm,   \* wifi processor: the value, whether a program is loaded, run_vm
  sendList,        \* kv_send_list, as far as it is about the key
  toMain,          \* messages on their way to the main processor
  sets, changes, losses, loads

mainVars == <<main, running, step>>
wifiVars == <<db, vm, runVm, sendList>>
bounds   == <<sets, changes, losses, loads>>
vars     == <<use, paced, mainVars, toWifi, wifiVars, toMain, bounds>>

Dynamic == "published" \in use
Set(v)  == [type |-> "set", value |-> v]
Run     == [type |-> "run", value |-> 0]
Loaded  == [type |-> "end", value |-> 0]

-----------------------------------------------------------------------------
(* The main processor.                                                     *)

(* A message takes its turn: the sender waits for the wifi processor, and  *)
(* for no longer than a time-out.                                          *)
Send(m) ==
  /\ toWifi = << >>
  /\ \/ toWifi' = <<m>> /\ UNCHANGED losses
     \/ losses < MaxLosses /\ losses' = losses + 1 /\ UNCHANGED toWifi

(* A value is brought within the type of a static key.                     *)
Converted(v) == IF Dynamic \/ v <= Limit THEN v ELSE Limit

Bug_NoEcho(v, fromWifi) == Dynamic /\ main # v /\ ~fromWifi
Notifies(v, fromWifi) == Dynamic /\ main # v

(* catbus_i8_set, kvdb_i8_set and kvdb_v_notify_set.                       *)
SetMain(v, fromWifi) ==
  IF main = None THEN UNCHANGED <<main, toWifi, losses>>
  ELSE /\ main' = Converted(v)
       /\ IF Notifies(v, fromWifi) THEN Send(Set(v)) ELSE UNCHANGED <<toWifi, losses>>

UserSet(v) ==
  /\ sets < MaxSets /\ sets' = sets + 1
  /\ SetMain(v, FALSE)
  /\ UNCHANGED <<use, paced, running, step, wifiVars, toMain, changes, loads>>

(* wifi_i8_msg_handler, for a batch of keys.                               *)
BatchArrives ==
  /\ toMain # << >>
  /\ SetMain(Head(toMain), TRUE) /\ toMain' = Tail(toMain)
  /\ UNCHANGED <<use, paced, running, step, wifiVars, sets, changes, loads>>

(* gfx_control_thread: the keys the program reads, then the frame.         *)
Quiet == toWifi = << >> /\ toMain = << >> /\ sendList = << >> /\ ~runVm

SendReadKeys ==
  /\ step = "idle" /\ running /\ (paced => Quiet)
  /\ step' = "frame"
  /\ IF "read" \in use THEN Send(Set(main)) ELSE UNCHANGED <<toWifi, losses>>
  /\ UNCHANGED <<use, paced, main, running, wifiVars, toMain, sets, changes, loads>>

SendRunVm ==
  /\ step = "frame"
  /\ step' = "idle" /\ Send(Run)
  /\ UNCHANGED <<use, paced, main, running, wifiVars, toMain, sets, changes, loads>>

(* vm_loader: a program that was stopped takes its published keys along,   *)
(* and a frame that is due already is still sent.                          *)
Stop ==
  /\ running /\ toWifi = << >>
  /\ running' = FALSE /\ vm' = FALSE
  /\ main' = IF Dynamic THEN None ELSE main
  /\ UNCHANGED <<use, paced, step, toWifi, db, runVm, sendList, toMain, bounds>>

(* load_vm_wifi: the last message starts the program; the keys are added   *)
(* after it, while no message is taken.                                    *)
Load ==
  /\ ~running /\ toWifi = << >> /\ loads < MaxLoads /\ loads' = loads + 1
  /\ running' = TRUE /\ toWifi' = <<Loaded>>
  /\ main' = IF Dynamic THEN 0 ELSE main
  /\ UNCHANGED <<use, paced, step, wifiVars, toMain, sets, changes, losses>>

-----------------------------------------------------------------------------
(* The wifi processor.                                                     *)

(* What the program makes of the value, and what is sent of it; what was   *)
(* not sent before is dropped for it.                                      *)
Bug_ChangesOnly(old, new) == IF use = {"read"} \/ old = new THEN << >> ELSE <<new>>
Batch(old, new) == IF use = {"read"} THEN << >> ELSE <<new>>

Frame(old) ==
  \E new \in IF use = {"read"} \/ changes = MaxChanges THEN {old} ELSE Values :
    /\ db' = new /\ sendList' = Batch(old, new)
    /\ changes' = IF new # old THEN changes + 1 ELSE changes

(* intf_v_process: a batch of keys, or a frame, or the end of a program,   *)
(* whose keys are 0 at first and which runs once to start.                 *)
SetArrives ==
  /\ toWifi # << >> /\ Head(toWifi).type = "set"
  /\ db' = Head(toWifi).value /\ toWifi' = << >>
  /\ UNCHANGED <<use, paced, mainVars, vm, runVm, sendList, toMain, bounds>>

RunArrives ==
  /\ toWifi # << >> /\ Head(toWifi).type = "run"
  /\ runVm' = TRUE /\ toWifi' = << >>
  /\ UNCHANGED <<use, paced, mainVars, db, vm, sendList, toMain, bounds>>

EndArrives ==
  /\ toWifi # << >> /\ Head(toWifi).type = "end"
  /\ vm' = TRUE /\ toWifi' = << >> /\ Frame(0)
  /\ UNCHANGED <<use, paced, mainVars, runVm, toMain, sets, losses, loads>>

(* vm_v_process.                                                           *)
RunFrame ==
  /\ runVm /\ runVm' = FALSE
  /\ IF vm THEN Frame(db) ELSE UNCHANGED <<db, sendList, changes>>
  /\ UNCHANGED <<use, paced, mainVars, toWifi, vm, toMain, sets, losses, loads>>

(* One batch at a time, when nothing else is to be sent and there is room. *)
SendBatch ==
  /\ sendList # << >> /\ Len(toMain) < 2
  /\ toMain' = Append(toMain, Head(sendList)) /\ sendList' = Tail(sendList)
  /\ UNCHANGED <<use, paced, mainVars, toWifi, db, vm, runVm, bounds>>

(* A message is lost on its way, but for the one that ends a load: if that *)
(* is lost the loader notices.                                             *)
Lose ==
  /\ losses < MaxLosses /\ losses' = losses + 1
  /\ \/ toWifi # << >> /\ Head(toWifi).type # "end" /\ toWifi' = << >> /\ UNCHANGED toMain
     \/ toMain # << >> /\ toMain' = Tail(toMain) /\ UNCHANGED toWifi
  /\ UNCHANGED <<use, paced, mainVars, wifiVars, sets, changes, loads>>

Init ==
  /\ use \in Uses /\ paced \in BOOLEAN
  /\ main = (IF Dynamic THEN None ELSE 0)
  /\ running = FALSE /\ step = "idle" /\ toWifi = << >>
  /\ db \in {0, Limit} /\ vm = FALSE /\ runVm = FALSE /\ sendList = << >> /\ toMain = << >>
  /\ sets = 0 /\ changes = 0 /\ losses = 0 /\ loads = 0

System ==
  \/ BatchArrives \/ SendReadKeys \/ SendRunVm
  \/ SetArrives \/ RunArrives \/ EndArrives \/ RunFrame \/ SendBatch

Next == System \/ Stop \/ Load \/ Lose \/ \E v \in Values : UserSet(v)

(* The threads of the main processor take turns, and the loop of the other *)
(* does one thing after the other.                                         *)
Spec ==
  /\ Init /\ [][Next]_vars
  /\ WF_vars(BatchArrives) /\ WF_vars(SendReadKeys) /\ WF_vars(SendRunVm)
  /\ WF_vars(SetArrives \/ RunArrives \/ EndArrives) /\ WF_vars(RunFrame) /\ WF_vars(SendBatch)
-----------------------------------------------------------------------------
(* Properties.                                                             *)

SyncTypeOK ==
  /\ use \in Uses /\ paced \in BOOLEAN
  /\ main \in Values \cup {None} /\ running \in BOOLEAN /\ step \in {"idle", "frame"}
  /\ toWifi \in {<< >>, <<Run>>, <<Loaded>>} \cup {<<Set(v)>> : v \in Values}
  /\ db \in Values /\ vm \in BOOLEAN /\ runVm \in BOOLEAN
  /\ sendList \in {<< >>} \cup {<<v>> : v \in Values}
  /\ toMain \in Seq(Values) /\ Len(toMain) <= 2
  /\ sets \in Nat /\ changes \in Nat /\ losses \in Nat /\ loads \in Nat

(* A published variable has one value: whatever the user and the program   *)
(* set, and however their messages crossed, once there is no message on    *)
(* its way the copies of both processors are the same, unless one was      *)
(* lost.  One of the two who set it at the same time has lost.             *)
KeysAgree == losses = 0 /\ Quiet /\ running /\ Dynamic => main = db

(* If frames leave time for the messages between them, copies that differ  *)
(* because a message was lost are the same again after a later frame: what *)
(* the program publishes or writes is on the main processor (within its    *)
(* type), and what it reads is what it gets.                               *)
Same ==
  /\ Dynamic \/ "written" \in use => main = Converted(db)
  /\ Dynamic \/ use = {"read"} => main = db
KeysSettle == paced => []<>(~running) \/ <>[](Same \/ ~Quiet)
=============================================================================

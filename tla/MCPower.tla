------------------------------- MODULE MCPower -------------------------------
(***************************************************************************)
(* What must survive a loss of power at any moment: the firmware, and the  *)
(* configuration store.  They share nothing in the models; the initial     *)
(* state chooses which of the two runs, and the other rests.               *)
(*                                                                         *)
(* The store has the version, a parameter with a default, and a tag of two *)
(* blocks that a firmware may give another type.                           *)
(***************************************************************************)
EXTENDS MCFirmwareUpdate, ConfigStore

MCDefaultSeq == <<"port">>
MCNBlocks == [p \in {"version", "port", "tag"} |-> IF p = "tag" THEN 2 ELSE 1]

ASSUME ConfigAssumption == ParamsAssumption /\ StoreAssumption

VARIABLE subject
all_vars == <<subject, vars, storeVars>>

-----------------------------------------------------------------------------

Only(x) ==
  /\ UNCHANGED subject
  /\ IF x = "firmware" THEN UNCHANGED storeVars ELSE UNCHANGED vars

MCInit ==
  /\ subject \in {"firmware", "store"}
  /\ Init /\ (subject # "firmware" => flash["internal"][Header] = Recovery)
  /\ StoreInit

MCNext ==
  \/ subject = "firmware" /\ Next /\ Only("firmware")
  \/ subject = "store"    /\ StoreNext /\ Only("store")

(* The processor runs.                                                     *)
Running ==
  \/ subject = "firmware" /\ (TryRecovery \/ Loader \/ Writing \/ Starting) /\ Only("firmware")
  \/ subject = "store"    /\ Code /\ Only("store")

MCSpec == MCInit /\ [][MCNext]_all_vars /\ WF_all_vars(Running)
-----------------------------------------------------------------------------
(* The properties of the firmware and of the store are those of            *)
(* FirmwareUpdate and ConfigStore; this is one of both.                    *)

(* FirmwareUpdate and ConfigStore: what has begun comes to its end: the    *)
(* application runs again unless a write failed, and every boot, write and *)
(* erasure of the store is over.                                           *)
Completes ==
  /\ subject = "firmware" /\ at = "start" ~> at = "app" \/ faults > 0
  /\ subject = "store" /\ phase # "idle" ~> phase = "idle"
==============================================================================

---------------------------- MODULE PersistStore ----------------------------
(***************************************************************************)
(* What persistence promises to the users of sapphireos/keyvalue.c: a key  *)
(* has a value in memory and a saved one, saving copies the one to the     *)
(* other at some later instant, and after a restart memory holds what was  *)
(* saved, or the default.  No file, no block and no thread is seen here.   *)
(***************************************************************************)
CONSTANTS Keys, Direct, Values, Default

VARIABLES ram, saved

vars == <<ram, saved>>

Init == ram = [k \in Keys |-> Default] /\ saved = [k \in Keys |-> Default]

Set(k, v) ==
  /\ ram' = [ram EXCEPT ![k] = v]
  /\ UNCHANGED saved

(* The value of a key in memory, at this instant.                          *)
Save(k) ==
  /\ saved' = [saved EXCEPT ![k] = ram[k]]
  /\ UNCHANGED ram

(* A key that is only in the file.                                         *)
Put(k, v) ==
  /\ saved' = [saved EXCEPT ![k] = v]
  /\ UNCHANGED ram

(* Memory is not restored when the file cannot be opened.                  *)
Restart ==
  /\ ram' \in {[k \in Keys |-> IF k \in Direct THEN Default ELSE saved[k]],
               [k \in Keys |-> Default]}
  /\ UNCHANGED saved

Next ==
  \/ \E k \in Keys \ Direct : Save(k) \/ \E v \in Values : Set(k, v)
  \/ \E k \in Direct, v \in Values : Put(k, v)
  \/ Restart

Spec == Init /\ [][Next]_vars
=============================================================================

----------------------------- MODULE ParamStore -----------------------------
(***************************************************************************)
(* What the configuration module (sapphireos/config.c) promises: a map     *)
(* from keys to values that survives a loss of power at any instant.  A    *)
(* write replaces the value of each of its keys at one instant, and a loss *)
(* of power only cancels what has not been written yet.  There are no      *)
(* EEPROM blocks here, so there is nothing to clean up: in ConfigStore the *)
(* whole recovery after a loss of power is a stutter of this module.       *)
(***************************************************************************)
EXTENDS Naturals

CONSTANTS
  Keys,      \* a block of a parameter
  Values,    \* what a block holds
  Absent     \* the value of a key that is not stored

VARIABLES
  kv,        \* what is stored
  pending,   \* the keys being written, with their new values
  condemned, \* the keys being erased
  losses,    \* how often power was lost
  room,      \* is there room to write?
  full       \* the warning that there was none

vars == <<kv, pending, condemned, losses, room, full>>

Nothing == [k \in {} |-> Absent]

Init ==
  /\ kv = [k \in Keys |-> Absent]
  /\ pending = Nothing /\ condemned = {} /\ losses = 0
  /\ room = TRUE /\ full = FALSE

(* What may be written: new values of some of the keys.                    *)
IsWrite(w) == DOMAIN w \subseteq Keys /\ \A k \in DOMAIN w : w[k] \in Values

(* A write or an erasure begins, or an erasure ends.                       *)
Request ==
  /\ pending = Nothing
  /\ condemned' \subseteq Keys /\ IsWrite(pending')
  /\ UNCHANGED <<kv, losses, room, full>>

Put(k) ==
  /\ k \in DOMAIN pending
  /\ kv' = [kv EXCEPT ![k] = pending[k]]
  /\ UNCHANGED <<pending, condemned, losses, room, full>>

Drop(k) ==
  /\ k \in condemned
  /\ kv' = [kv EXCEPT ![k] = Absent]
  /\ condemned' \in {condemned, condemned \ {k}}
  /\ UNCHANGED <<pending, losses, room, full>>

(* A write ends when all its values are stored, or with a warning because  *)
(* there is no room; the next one may follow at once.                      *)
EndWrite ==
  /\ pending # Nothing /\ IsWrite(pending')
  /\ \/ UNCHANGED full /\ \A k \in DOMAIN pending : kv[k] = pending[k]
     \/ ~room /\ full' = TRUE
  /\ UNCHANGED <<kv, condemned, losses, room>>

(* Blocks come into use or are freed.                                      *)
Space ==
  /\ room' = ~room
  /\ UNCHANGED <<kv, pending, condemned, losses, full>>

(* Power is lost: what is stored stays, what was going on is forgotten.    *)
PowerLoss ==
  /\ losses' = losses + 1
  /\ pending' = Nothing /\ full' = FALSE
  /\ condemned' \subseteq Keys
  /\ UNCHANGED <<kv, room>>

Next ==
  \/ Request \/ EndWrite \/ Space \/ PowerLoss
  \/ \E k \in Keys : Put(k) \/ Drop(k)

Spec == Init /\ [][Next]_vars
=============================================================================

------------------------------ MODULE KvPersist ------------------------------
(***************************************************************************)
(* Persistent keys (sapphireos/keyvalue.c).  The file "kv_data" is a       *)
(* sequence of blocks, each a header that names a key and a value of fixed *)
(* length, which are written one after the other.  A key with a variable   *)
(* in memory is saved by a thread, which a write to any such key wakes and *)
(* which saves one key every 20 ms; a key without one (Direct) lives in    *)
(* the file.                                                               *)
(*                                                                         *)
(* Here a header is one cell of the file and a value another.              *)
(***************************************************************************)
EXTENDS Integers, Sequences, FiniteSets

CONSTANTS
  KeySeq,   \* the keys with a variable, in the order of the key table
  Direct,   \* the keys without one
  Values, Default,
  Junk,     \* what a header is when it is read as a value
  Faults,   \* what goes wrong: "open" a file is not opened, "torn" power is
            \* lost or flash runs out between the two parts of a new block
  MaxCells, \* bound on the length of the file
  MaxLosses \* bound on the losses of power

Keyed == {KeySeq[n] : n \in 1 .. Len(KeySeq)}
Keys  == Keyed \cup Direct

ASSUME PersistAssumption ==
  /\ KeySeq \in Seq(Keyed)
  /\ Default \in Values /\ Junk \notin Values
  /\ Keyed \cap Direct = {} /\ Cardinality(Keyed) = Len(KeySeq)
  /\ Faults \subseteq {"open", "torn"}

VARIABLES
  file,    \* the cells of kv_data, after the header of the file
  ram,     \* the variables of the keys
  run,     \* run_persist
  fail,    \* persist_fail: the file could not be opened at boot
  at, key, \* where persist_thread is, and the key it looks at
  missed,  \* auxiliary: the file was not opened for the last write
  losses

persistVars == <<file, ram, run, fail, at, key, missed, losses>>

Hdr(k)   == [head |-> TRUE, is |-> k]
Val(v)  == [head |-> FALSE, is |-> v]
Block(k, v) == <<Hdr(k), Val(v)>>
ValueAt(f, p) == IF f[p].head THEN Junk ELSE f[p].is

Opens == IF "open" \in Faults THEN BOOLEAN ELSE {TRUE}

-----------------------------------------------------------------------------
(* Seeking.  A seek beyond the end goes to the end.                        *)

Seek(f, k) ==
  LET seek[p \in 1 .. Len(f) + 2] ==
        IF p > Len(f) THEN Len(f) + 1
        ELSE IF f[p] = Hdr(k) THEN p ELSE seek[p + 2]
  IN seek[1]

(* _kv_i8_persist_set_internal: the files it may leave.  The value of a    *)
(* block that ends with its header is compared with what the stack holds.  *)
Overwritten(f, p, b) == SubSeq(f, 1, p - 1) \o b \o SubSeq(f, p + 2, Len(f))

Written(f, k, v) ==
  LET p == Seek(f, k)
  IN  IF p < Len(f) /\ ValueAt(f, p + 1) = v THEN {f}
      ELSE {Overwritten(f, p, Block(k, v))} \cup (IF p = Len(f) THEN {f} ELSE {})

(* The same, cut short after the header.                                   *)
Cut(f, k) == Overwritten(f, Seek(f, k), IF Seek(f, k) < Len(f)
                                          THEN <<Hdr(k), f[Seek(f, k) + 1]>> ELSE <<Hdr(k)>>)

(* _kv_i8_init_persist: block after block, the last one of a key counts.   *)
Starts(f, k) == {p \in 1 .. Len(f) - 1 : p % 2 = 1 /\ f[p] = Hdr(k)}
Bug_FirstHeader(f, k) == IF Len(f) < 2 \/ ~f[1].head THEN Default ELSE ValueAt(f, 2)
Loaded(f, k) ==
  IF Starts(f, k) = {} THEN Default
  ELSE ValueAt(f, (CHOOSE p \in Starts(f, k) : \A q \in Starts(f, k) : q <= p) + 1)

(* _kv_i8_persist_get.                                                     *)
Read(f, k) == IF Seek(f, k) < Len(f) THEN ValueAt(f, Seek(f, k) + 1) ELSE Default

-----------------------------------------------------------------------------
(* _kv_i8_internal_set.                                                    *)

Bug_RamOnly(k, v) == ram' = [ram EXCEPT ![k] = v] /\ run' = (run \/ at = "wait") /\ missed' = fail
Assign(k, v) == ram' = [ram EXCEPT ![k] = v] /\ run' = TRUE /\ missed' = fail

SetVariable(k, v) ==
  /\ Assign(k, v)
  /\ UNCHANGED <<file, fail, at, key, losses>>

SetDirect(k, v) ==
  /\ IF fail THEN UNCHANGED file
     ELSE \E ok \in Opens : IF ok THEN file' \in Written(file, k, v) ELSE UNCHANGED file
  /\ UNCHANGED <<ram, run, fail, at, key, missed, losses>>

(* Flash runs out after the header; get_free_space_on_media allows nothing.*)
OutOfFlash(k) ==
  /\ "torn" \in Faults /\ ~fail
  /\ file' = Cut(file, k)
  /\ UNCHANGED <<ram, run, fail, at, key, missed, losses>>

-----------------------------------------------------------------------------
(* persist_thread.                                                         *)

Wake ==
  /\ ~fail /\ at = "wait" /\ run
  /\ run' = FALSE
  /\ \E ok \in Opens :
       /\ at' = (IF ok THEN "pass" ELSE "pause")
       /\ missed' = ~ok
  /\ key' = 1
  /\ UNCHANGED <<file, ram, fail, losses>>

SaveKey ==
  /\ at = "pass" /\ key <= Len(KeySeq)
  /\ file' \in Written(file, KeySeq[key], ram[KeySeq[key]])
  /\ key' = key + 1
  /\ UNCHANGED <<ram, run, fail, at, missed, losses>>

PassDone ==
  /\ at = "pass" /\ key > Len(KeySeq)
  /\ at' = "pause" /\ key' = 1
  /\ UNCHANGED <<file, ram, run, fail, missed, losses>>

(* 2000 ms between two passes.                                             *)
Rest ==
  /\ at = "pause" /\ at' = "wait"
  /\ UNCHANGED <<file, ram, run, fail, key, missed, losses>>

-----------------------------------------------------------------------------
(* Power is lost, between two writes or within one, and kv_v_init runs.    *)

Boot(f) ==
  /\ file' = f
  /\ \E ok \in Opens :
       /\ fail' = ~ok /\ missed' = ~ok
       /\ ram' = [k \in Keys |-> IF ok /\ k \in Keyed THEN Loaded(f, k) ELSE Default]
  /\ run' = FALSE /\ at' = "wait" /\ key' = 1

PowerLoss ==
  /\ losses < MaxLosses /\ losses' = losses + 1
  /\ \/ Boot(file)
     \/ "torn" \in Faults /\ at = "pass" /\ key <= Len(KeySeq) /\ Boot(Cut(file, KeySeq[key]))
     \/ "torn" \in Faults /\ \E k \in Direct : ~fail /\ Boot(Cut(file, k))

PersistInit ==
  /\ file = << >> /\ ram = [k \in Keys |-> Default]
  /\ run = FALSE /\ fail = FALSE /\ at = "wait" /\ key = 1 /\ missed = FALSE /\ losses = 0

Thread == Wake \/ SaveKey \/ PassDone \/ Rest
Calls ==
  \/ \E k \in Keyed, v \in Values : SetVariable(k, v)
  \/ \E k \in Direct, v \in Values : SetDirect(k, v)
  \/ \E k \in Direct : OutOfFlash(k)

PersistNext == (Thread \/ Calls \/ PowerLoss) /\ Len(file') <= MaxCells

PersistSpec == PersistInit /\ [][PersistNext]_persistVars /\ WF_persistVars(Thread)
-----------------------------------------------------------------------------
(* Properties.                                                             *)

(* The file is whole blocks, one for each key: what the comment in         *)
(* _kv_i8_persist_set_internal calls "an even number of full blocks", and  *)
(* what the scan relies on.                                                *)
WholeBlocks ==
  /\ Len(file) % 2 = 0
  /\ \A p \in DOMAIN file : file[p].head <=> p % 2 = 1
  /\ \A p, q \in DOMAIN file : file[p].head /\ file[p] = file[q] => p = q

Store == INSTANCE PersistStore WITH
  saved <- [k \in Keys |-> IF k \in Keyed THEN Loaded(file, k) ELSE Read(file, k)]

(* Saving takes the present value of one key and touches no other; a       *)
(* restart brings back what was saved, whatever was being written.         *)
ImplementsPersist == Store!Spec

(* A value that was set is saved, or set again, or the file could not be   *)
(* opened when the thread woke: the flag is cleared before that, so only   *)
(* the next write of any key makes up for it.                              *)
EventuallySaved ==
  \A k \in Keyed :
    []<>(Loaded(file, k) = ram[k] \/ missed) \/ []<><<ram'[k] # ram[k]>>_persistVars
=============================================================================

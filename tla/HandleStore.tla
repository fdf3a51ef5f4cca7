---------------------------- MODULE HandleStore ----------------------------
(***************************************************************************)
(* What the memory manager (sapphireos/memory.c) promises its callers: a   *)
(* store of blocks named by handles.  A block keeps its size, its type and *)
(* its contents until the caller that owns the handle changes them.  There *)
(* are no addresses here, so there is nothing for a garbage collector to   *)
(* do: in MemPool every step of the collector is a stutter of this module. *)
(***************************************************************************)
EXTENDS Integers

CONSTANTS
  Handles,   \* the handles a caller can be given
  Sizes,     \* the block sizes callers ask for
  Types,     \* the type tags of memtypes.h
  Data       \* the contents of a block, as far as they matter

VARIABLE store   \* what each live handle names

Entry == [size: Sizes, type: Types, data: Data]

Live == DOMAIN store

Init == store = [h \in {} |-> {}]

(* A fresh block is not cleared: its contents are whatever was there.      *)
Alloc(h, size, type, d) ==
  /\ h \notin Live
  /\ store' = [g \in Live \cup {h} |->
                 IF g = h THEN [size |-> size, type |-> type, data |-> d]
                          ELSE store[g]]

Realloc(h, size) ==
  /\ h \in Live
  /\ store' = [store EXCEPT ![h].size = size]

Free(h) ==
  /\ h \in Live
  /\ store' = [g \in Live \ {h} |-> store[g]]

Write(h, d) ==
  /\ h \in Live
  /\ store' = [store EXCEPT ![h].data = d]

Next ==
  \E h \in Handles :
    \/ \E size \in Sizes, type \in Types, d \in Data : Alloc(h, size, type, d)
    \/ \E size \in Sizes : Realloc(h, size)
    \/ Free(h)
    \/ \E d \in Data : Write(h, d)

Spec == Init /\ [][Next]_store
=============================================================================

------------------------------ MODULE MemPool ------------------------------
(***************************************************************************)
(* The handle-based memory manager of SapphireOS (sapphireos/memory.c).    *)
(*                                                                         *)
(* The heap is a run of blocks (header, data, canary) followed by free     *)
(* space.  A block is reached through an entry of the handle table.        *)
(* Freeing a block only marks it dirty; a compacting collector, called by  *)
(* the thread scheduler between two passes over the threads, slides the    *)
(* clean blocks down over the dirty ones and patches the handle table.     *)
(*                                                                         *)
(* Every entry point runs between MEM_ATOMIC and MEM_END_ATOMIC, so each   *)
(* is one action.  The collector is atomic too; its two loops are modelled *)
(* one iteration at a time (no other action is enabled meanwhile) so that  *)
(* its loop invariants can be stated.                                      *)
(***************************************************************************)
EXTENDS Integers, FiniteSets

CONSTANTS
  MaxHandles,   \* MAX_MEM_HANDLES
  HeapSize,     \* mem_rt_data.heap_size
  Threshold,    \* MEM_DEFRAG_THRESHOLD
  WordSize,     \* 2^16: the range of uint16_t
  Sizes,        \* the sizes callers request
  Types,        \* the type tags they pass
  Data,         \* block contents, as far as the properties tell them apart
  Shrinking     \* may a caller realloc a block to a smaller size?

ASSUME HandlesAssumption == MaxHandles \in Nat \ {0}
ASSUME HeapAssumption ==
  /\ HeapSize \in Nat /\ WordSize \in Nat /\ 2 * HeapSize < WordSize
  /\ Threshold \in Nat \ {0}
ASSUME RequestAssumption ==
  /\ Sizes \subseteq 1 .. (WordSize - 1)
  /\ Shrinking \in BOOLEAN

Overhead  == 5                 \* sizeof(mem_block_header_t) and the canary
Null      == 0
HeapStart == 1                 \* any non-null address
HeapEnd   == HeapStart + HeapSize
Handles   == 1 .. MaxHandles   \* handles as callers see them (swizzled)

Block == [size: Sizes, handle: Handles, type: Types,
          dirty: BOOLEAN, canary: BOOLEAN, data: Data]

VARIABLES
  mem,          \* the blocks in the heap, by the address of their header
  handles,      \* the handle table: an address or Null
  freePtr,      \* free_space_ptr
  handlesUsed, freeSpace, usedSpace, dirtySpace, dataSpace,  \* mem_rt_data
  phase,        \* who has the processor: the threads or a loop of the collector
  dst, src,     \* the collector's dirty and clean pointers
  asserted,     \* an ASSERT of memory.c has failed: the system is down
  held          \* (history) pointers handed out and still usable by contract

pool  == <<mem, handles, freePtr>>
stats == <<handlesUsed, freeSpace, usedSpace, dirtySpace, dataSpace>>
coll  == <<phase, dst, src>>
vars  == <<pool, stats, coll, asserted, held>>

BlockSize(b) == Overhead + b.size
After(a)     == a + BlockSize(mem[a])         \* the header that follows a's
Put(m, a, b) == [x \in DOMAIN m \cup {a} |-> IF x = a THEN b ELSE m[x]]
Forget(h)    == {p \in held : p.handle # h}

Bug_NotPatched(h, a) == handles
Patched(h, a) == [handles EXCEPT ![h] = a]

(* uint16_t addition of two values of that type.                           *)
Trunc(n) == IF n < WordSize THEN n ELSE n - WordSize

Bug_CollectorNotAtomic == ~asserted
Running == phase = "threads" /\ ~asserted

Init ==
  /\ mem = [a \in {} |-> {}]
  /\ handles = [h \in Handles |-> Null]
  /\ freePtr = HeapStart
  /\ freeSpace = HeapSize
  /\ handlesUsed = 0 /\ usedSpace = 0 /\ dirtySpace = 0 /\ dataSpace = 0
  /\ phase = "threads" /\ dst = HeapStart /\ src = HeapStart
  /\ asserted = FALSE
  /\ held = {}

-----------------------------------------------------------------------------
(* Allocation.                                                             *)

(* The test for space adds the overhead in 16 bits.                        *)
Fits(size) == freeSpace >= Trunc(size + Overhead)

(* The table is searched from the bottom for an empty entry.               *)
Bug_SlotInUse(h) == \A g \in Handles : g < h => handles[g] # Null
FirstFree(h) ==
  /\ handles[h] = Null
  /\ \A g \in Handles : g < h => handles[g] # Null

Alloc(h, size, type, d) ==
  /\ Running
  /\ Fits(size) /\ FirstFree(h) /\ size + Overhead < WordSize
  /\ mem' = Put(mem, freePtr,
                [size |-> size, handle |-> h, type |-> type,
                 dirty |-> FALSE, canary |-> TRUE, data |-> d])
  /\ handles' = [handles EXCEPT ![h] = freePtr]
  /\ freePtr' = freePtr + Overhead + size
  /\ handlesUsed' = handlesUsed + 1
  /\ dataSpace' = dataSpace + size
  /\ freeSpace' = freeSpace - (Overhead + size)
  /\ usedSpace' = usedSpace + Overhead + size
  /\ UNCHANGED <<dirtySpace, coll, asserted, held>>

(* -1 to the caller: no space, or no entry left in the table.              *)
AllocFails(size) ==
  /\ Running
  /\ ~Fits(size) \/ \A h \in Handles : handles[h] # Null
  /\ UNCHANGED vars

(* A request so large that its size plus the overhead wraps passes the     *)
(* test for space; subtracting it then drives free_space above heap_size   *)
(* and the assertion after the subtraction stops the system.               *)
AllocWraps(size) ==
  /\ Running
  /\ Fits(size) /\ size + Overhead >= WordSize
  /\ \E h \in Handles : handles[h] = Null
  /\ asserted' = TRUE
  /\ UNCHANGED <<pool, stats, coll, held>>

-----------------------------------------------------------------------------
(* Operations on a handle, each behind mem2_b_verify_handle.               *)

Valid(h) ==
  /\ handles[h] # Null
  /\ mem[handles[h]].canary
  /\ ~mem[handles[h]].dirty

VerifyFails(h) ==
  /\ Running
  /\ handles[h] # Null /\ ~Valid(h)
  /\ asserted' = TRUE
  /\ UNCHANGED <<pool, stats, coll, held>>

Bug_DirtyData(b) == b.size
Released(b) == BlockSize(b)

Bug_StaleEntry(h) == handles
Cleared(h) == [handles EXCEPT ![h] = Null]

Free(h) ==
  /\ Running
  /\ Valid(h)
  /\ LET b == mem[handles[h]] IN
       /\ mem' = [mem EXCEPT ![handles[h]].dirty = TRUE]
       /\ dataSpace' = dataSpace - b.size
       /\ dirtySpace' = dirtySpace + Released(b)
       /\ usedSpace' = usedSpace - BlockSize(b)
  /\ handles' = Cleared(h)
  /\ handlesUsed' = handlesUsed - 1
  /\ held' = Forget(h)
  /\ UNCHANGED <<freePtr, freeSpace, coll, asserted>>

(* A new block is taken like any other, the old block's bytes are copied   *)
(* (old size, whatever the new size is), the old block is released and its *)
(* handle is made to name the new one.  Copying into a smaller block runs  *)
(* over the new block's canary.                                            *)
Realloc(h, size, canary) ==
  /\ Running
  /\ Valid(h)
  /\ Fits(size) /\ size + Overhead < WordSize
  /\ \E g \in Handles : FirstFree(g)
  /\ LET old == mem[handles[h]] IN
       /\ Shrinking \/ size >= old.size
       /\ size >= old.size => canary
       /\ mem' = Put([mem EXCEPT ![handles[h]].dirty = TRUE], freePtr,
                     [size |-> size, handle |-> h, type |-> old.type,
                      dirty |-> FALSE, canary |-> canary, data |-> old.data])
       /\ dataSpace' = (dataSpace + size) - old.size
       /\ dirtySpace' = dirtySpace + Released(old)
       /\ usedSpace' = (usedSpace + Overhead + size) - BlockSize(old)
  /\ handles' = [handles EXCEPT ![h] = freePtr]
  /\ freePtr' = freePtr + Overhead + size
  /\ freeSpace' = freeSpace - (Overhead + size)
  /\ held' = Forget(h)
  /\ UNCHANGED <<handlesUsed, coll, asserted>>

GetPtr(h) ==
  /\ Running
  /\ Valid(h)
  /\ held' = held \cup {[handle |-> h, addr |-> handles[h]]}
  /\ UNCHANGED <<pool, stats, coll, asserted>>

(* The caller writes through a pointer; the pointer is all it uses.        *)
Write(p, d) ==
  /\ Running
  /\ p \in held
  /\ mem' = [mem EXCEPT ![p.addr].data = d]
  /\ UNCHANGED <<handles, freePtr, stats, coll, asserted, held>>

-----------------------------------------------------------------------------
(* The collector, called when every thread has had its turn.  By the       *)
(* contract above mem2_vp_get_ptr, no pointer is used across this call.    *)

Bug_LateCollection == dirtySpace > Threshold
CollectionDue == dirtySpace >= Threshold

EndPass ==
  /\ Running
  /\ held' = {}
  /\ phase' = IF CollectionDue THEN "seek" ELSE "threads"
  /\ UNCHANGED <<pool, stats, dst, src, asserted>>

(* First loop: step over the clean blocks at the bottom of the heap.       *)
Seek ==
  /\ phase = "seek"
  /\ src < freePtr /\ ~mem[src].dirty
  /\ src' = After(src)
  /\ dst' = src'
  /\ UNCHANGED <<pool, stats, phase, asserted, held>>

SeekDone ==
  /\ phase = "seek"
  /\ ~(src < freePtr /\ ~mem[src].dirty)
  /\ phase' = "slide"
  /\ UNCHANGED <<pool, stats, dst, src, asserted, held>>

(* Second loop: skip dirty blocks ...                                      *)
Skip ==
  /\ phase = "slide"
  /\ src < freePtr /\ mem[src].dirty
  /\ src' = After(src)
  /\ UNCHANGED <<pool, stats, phase, dst, asserted, held>>

(* ... and move each clean block down.  Headers between the copy and the   *)
(* next block are garbage from here on, overwritten or not.                *)
Move ==
  /\ phase = "slide"
  /\ src < freePtr /\ ~mem[src].dirty
  /\ LET b == mem[src] IN
       /\ handles' = Patched(b.handle, dst)
       /\ mem' = [a \in {a \in DOMAIN mem : a < dst \/ a >= After(src)} \cup {dst} |->
                    IF a = dst THEN b ELSE mem[a]]
       /\ dst' = dst + BlockSize(b)
  /\ src' = After(src)
  /\ UNCHANGED <<freePtr, stats, phase, asserted, held>>

Bug_NoCanaryCheck == FALSE
CanaryLost == \E h \in Handles : handles[h] # Null /\ ~mem[handles[h]].canary

(* All space above dst is free.  The canaries of live blocks are checked.  *)
Finish ==
  /\ phase = "slide"
  /\ src >= freePtr
  /\ freePtr' = dst
  /\ freeSpace' = freeSpace + dirtySpace
  /\ dirtySpace' = 0
  /\ mem' = [a \in {a \in DOMAIN mem : a < dst} |-> mem[a]]
  /\ asserted' = CanaryLost
  /\ phase' = "threads" /\ dst' = HeapStart /\ src' = HeapStart
  /\ UNCHANGED <<handles, handlesUsed, usedSpace, dataSpace, held>>

Collect == Seek \/ SeekDone \/ Skip \/ Move \/ Finish

-----------------------------------------------------------------------------
Next ==
  \/ \E h \in Handles, size \in Sizes, type \in Types, d \in Data :
       Alloc(h, size, type, d)
  \/ \E size \in Sizes : AllocFails(size) \/ AllocWraps(size)
  \/ \E h \in Handles : VerifyFails(h) \/ Free(h) \/ GetPtr(h)
  \/ \E h \in Handles, size \in Sizes, canary \in BOOLEAN : Realloc(h, size, canary)
  \/ \E p \in held, d \in Data : Write(p, d)
  \/ EndPass
  \/ Collect

(* Threads are cooperative and a thread that keeps the processor is reset  *)
(* by the watchdog, so a pass ends and the collector runs to its end.      *)
Spec == Init /\ [][Next]_vars /\ WF_vars(EndPass) /\ WF_vars(Collect)

-----------------------------------------------------------------------------
(* Properties.                                                             *)

(* Types of the variables, and free_space never below zero or above        *)
(* heap_size: a uint16_t that wrapped would satisfy every later request.   *)
TypeOK ==
  /\ DOMAIN mem \subseteq Nat /\ mem \in [DOMAIN mem -> Block]
  /\ handles \in [Handles -> Nat]
  /\ freePtr \in HeapStart .. HeapEnd
  /\ freeSpace \in 0 .. HeapSize
  /\ handlesUsed \in Int /\ usedSpace \in Int
  /\ dirtySpace \in Int /\ dataSpace \in Int
  /\ phase \in {"threads", "seek", "slide"}
  /\ dst \in Nat /\ src \in Nat
  /\ asserted \in BOOLEAN
  /\ held \subseteq [handle: Handles, addr: Nat]

(* The handle table and the block headers agree in both directions, at     *)
(* every iteration of the collector: an entry in use holds the address of  *)
(* a clean block that names that entry, and every clean block is named by  *)
(* its entry.  A collector that misses one block, or an allocation that    *)
(* takes an entry in use, strands a block or gives two handles one block.  *)
HandlesNameBlocks ==
  /\ \A h \in Handles : handles[h] # Null =>
       /\ handles[h] \in DOMAIN mem
       /\ mem[handles[h]].handle = h
       /\ ~mem[handles[h]].dirty
  /\ \A a \in DOMAIN mem : ~mem[a].dirty => handles[mem[a].handle] = a

(* The blocks tile the heap.  Walking from header to header from heap      *)
(* start meets every block and ends exactly at free_space_ptr; while the   *)
(* collector runs, the packed part holds clean blocks only and ends at dst, *)
(* the part not yet examined starts at src, and only dirty blocks lie      *)
(* between them.                                                           *)
Tiled ==
  /\ HeapStart <= dst /\ dst <= src /\ src <= freePtr
  /\ HeapStart \in DOMAIN mem \/ dst = HeapStart
  /\ src \in DOMAIN mem \/ src = freePtr
  /\ \A a \in DOMAIN mem :
       /\ HeapStart <= a
       /\ a < dst => ~mem[a].dirty /\ After(a) \in (DOMAIN mem \cap HeapStart .. dst) \cup {dst}
       /\ a >= dst /\ a < src => mem[a].dirty /\ After(a) <= src
       /\ a >= src => After(a) \in (DOMAIN mem \cap HeapStart .. freePtr) \cup {freePtr}
  /\ \A a, b \in DOMAIN mem : a < b => After(a) <= b

(* The counters alloc trusts: what it believes free is what lies above     *)
(* free_space_ptr, used and dirty bytes fill the heap below it, and the    *)
(* bytes callers asked for are the used ones less one overhead per handle. *)
SpaceAccounted ==
  /\ freePtr + freeSpace = HeapEnd
  /\ usedSpace + dirtySpace = freePtr - HeapStart
  /\ usedSpace = dataSpace + Overhead * handlesUsed
  /\ handlesUsed = Cardinality({h \in Handles : handles[h] # Null})

(* A pointer handed out by mem2_vp_get_ptr still points at its handle's    *)
(* block, as the comment above that function promises: until the next      *)
(* collection, unless its own handle is freed or reallocated.              *)
HeldPointersValid ==
  \A p \in held :
    /\ handles[p.handle] = p.addr
    /\ p.addr \in DOMAIN mem
    /\ mem[p.addr].handle = p.handle

(* No assertion of memory.c fails: neither mem2_b_verify_handle on a       *)
(* handle the caller owns, nor the check of free_space in alloc, nor the   *)
(* canary check after a collection.                                        *)
NoAssertFires == ~asserted

(* The contents behind the handles, seen without addresses.                *)
Contents ==
  [h \in {h \in Handles : handles[h] # Null} |->
     LET b == mem[handles[h]]
     IN [size |-> b.size, type |-> b.type, data |-> b.data]]

Store == INSTANCE HandleStore WITH store <- Contents

(* Whatever the collector moves, callers see the store of HandleStore.     *)
Refines == Store!Spec

(* Dirty space that has reached the threshold is reclaimed, so a request   *)
(* that failed while the space it needs was dirty can succeed later.       *)
DirtyReclaimed == (dirtySpace >= Threshold) ~> (dirtySpace < Threshold)

(* The contract breached: once a block's canary has been overrun, the next  *)
(* collection stops the system, and nothing can free the damaged block or   *)
(* mend it first.                                                           *)
DamageCaught ==
  (dirtySpace >= Threshold /\ \E a \in DOMAIN mem : ~mem[a].dirty /\ ~mem[a].canary)
    ~> asserted
=============================================================================

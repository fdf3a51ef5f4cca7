--------------------------- MODULE MemPoolProofs ---------------------------
(***************************************************************************)
(* TLAPS proofs about MemPool, for every value of its constants.           *)
(*                                                                         *)
(* The argument.  The layout of the heap (Tiled) is inductive together     *)
(* with the types and the agreement of table and headers.  The counters    *)
(* need one more idea: Finish adds dirty_space to free_space without       *)
(* looking at a block, so the invariant must know that dirty_space is the  *)
(* total size of the dirty blocks.  A sum over a set is out of the         *)
(* provers' reach; instead the invariant says that a prefix-sum function p *)
(* exists (Prefix): p starts at src - dst, grows over each block by its    *)
(* size if it is dirty and by nothing if it is clean, and reaches          *)
(* dirty_space at free_space_ptr.  When src meets free_space_ptr the two   *)
(* ends of p coincide and dirty_space = free_space_ptr - dst.              *)
(***************************************************************************)
EXTENDS MemPool, FiniteSetTheorems, TLAPS

USE DEF HeapStart, HeapEnd, Overhead, Null

-----------------------------------------------------------------------------
(* The parts of the invariant, as predicates of a heap m, a table hs, a    *)
(* free pointer f and the collector's pointers d and s, so that lemmas     *)
(* about heaps can be stated without mentioning a step.                    *)

Nx(m, a) == a + Overhead + m[a].size

HeapOK(m) == DOMAIN m \subseteq Nat /\ m \in [DOMAIN m -> Block]

TiledIn(m, f, d, s) ==
  /\ f \in Nat /\ d \in Nat /\ s \in Nat
  /\ HeapStart <= d /\ d <= s /\ s <= f
  /\ HeapStart \in DOMAIN m \/ d = HeapStart
  /\ s \in DOMAIN m \/ s = f
  /\ \A a \in DOMAIN m :
       /\ HeapStart <= a
       /\ a < d => ~m[a].dirty /\ Nx(m, a) <= d /\ (Nx(m, a) \in DOMAIN m \/ Nx(m, a) = d)
       /\ a >= d /\ a < s => m[a].dirty /\ Nx(m, a) <= s
       /\ a >= s => Nx(m, a) <= f /\ (Nx(m, a) \in DOMAIN m \/ Nx(m, a) = f)
  /\ \A a, b \in DOMAIN m : a < b => Nx(m, a) <= b

NamedIn(m, hs) ==
  /\ hs \in [Handles -> Nat]
  /\ \A h \in Handles : hs[h] # Null =>
       hs[h] \in DOMAIN m /\ m[hs[h]].handle = h /\ ~m[hs[h]].dirty
  /\ \A a \in DOMAIN m : ~m[a].dirty => hs[m[a].handle] = a

Prefix(p, m, f, d, s, total) ==
  /\ p \in [Nat -> Int]
  /\ p[s] = s - d
  /\ \A a \in DOMAIN m :
       a >= s => p[Nx(m, a)] = p[a] + (IF m[a].dirty THEN Overhead + m[a].size ELSE 0)
  /\ p[f] = total

PrefixSum(m, f, d, s, total) == \E p : Prefix(p, m, f, d, s, total)

(* The assumptions on the constants, in the form the provers use.          *)
LEMMA SizeFacts == \A s \in Sizes : s \in Nat /\ s >= 1 /\ s < WordSize
  BY RequestAssumption, HeapAssumption

LEMMA HeapFacts == HeapSize \in Nat /\ WordSize \in Nat /\ Threshold \in Nat /\ HeapSize < WordSize
  BY HeapAssumption

LEMMA BlockFacts ==
  ASSUME NEW m, HeapOK(m), NEW a \in DOMAIN m
  PROVE  /\ m[a] \in Block /\ m[a].handle \in Handles
         /\ m[a].dirty \in BOOLEAN /\ m[a].canary \in BOOLEAN
         /\ m[a].size \in Nat /\ m[a].size \in Sizes
         /\ m[a].type \in Types /\ m[a].data \in Data
         /\ a \in Nat /\ Nx(m, a) \in Nat /\ Nx(m, a) = a + 5 + m[a].size /\ a < Nx(m, a)
<1>1. m[a] \in Block
  BY DEF HeapOK
<1>2. m[a].size \in Sizes /\ m[a].size \in Nat
  BY <1>1, SizeFacts DEF Block
<1>3. a \in Nat
  BY DEF HeapOK
<1> QED
  BY <1>1, <1>2, <1>3 DEF Block, Nx

-----------------------------------------------------------------------------
(* Lemmas about heaps.                                                     *)

(* A block put at the free pointer extends the tiling.                     *)
LEMMA PutTiled ==
  ASSUME NEW m, HeapOK(m), NEW f, TiledIn(m, f, HeapStart, HeapStart), NEW b \in Block
  PROVE  /\ f \notin DOMAIN m /\ f # Null
         /\ HeapOK(Put(m, f, b))
         /\ TiledIn(Put(m, f, b), f + Overhead + b.size, HeapStart, HeapStart)
<1> DEFINE n == Put(m, f, b)
<1> DEFINE g == f + Overhead + b.size
<1>1. b.size \in Nat /\ f \in Nat /\ g \in Nat /\ HeapStart <= f /\ f < g
  BY SizeFacts DEF Block, TiledIn
<1>2. \A a \in DOMAIN m : /\ a \in Nat /\ Nx(m, a) \in Nat /\ a < Nx(m, a)
                          /\ HeapStart <= a /\ Nx(m, a) <= f /\ a # f
                          /\ Nx(m, a) \in DOMAIN m \/ Nx(m, a) = f
  <2> TAKE a \in DOMAIN m
  <2>1. a \in Nat /\ Nx(m, a) \in Nat /\ a < Nx(m, a)
    BY BlockFacts
  <2> QED
    BY <1>1, <2>1 DEF TiledIn
<1>3. n = [a \in DOMAIN m \cup {f} |-> IF a = f THEN b ELSE m[a]]
  BY DEF Put
<1>4. DOMAIN n = DOMAIN m \cup {f} /\ n[f] = b /\ \A a \in DOMAIN m : n[a] = m[a]
  BY <1>2, <1>3
<1>5. Nx(n, f) = g /\ \A a \in DOMAIN m : Nx(n, a) = Nx(m, a)
  BY <1>4 DEF Nx
<1>6. HeapOK(n)
  BY <1>1, <1>3, <1>4 DEF HeapOK
<1>7. HeapStart \in DOMAIN n
  BY <1>1, <1>4 DEF TiledIn
<1>8. \A a \in DOMAIN n : /\ a \in Nat /\ HeapStart <= a /\ Nx(n, a) \in Nat /\ Nx(n, a) <= g
                          /\ Nx(n, a) \in DOMAIN n \/ Nx(n, a) = g
  BY <1>1, <1>2, <1>4, <1>5
<1>9. \A x, y \in DOMAIN n : x < y => Nx(n, x) <= y
  BY <1>1, <1>2, <1>4, <1>5 DEF TiledIn
<1>10. TiledIn(n, g, HeapStart, HeapStart)
  BY <1>1, <1>7, <1>8, <1>9 DEF TiledIn
<1> QED
  BY <1>1, <1>2, <1>6, <1>10

(* The tiling depends on the sizes only, and survives blocks going dirty.  *)
LEMMA ShapeTiled ==
  ASSUME NEW m, NEW n, NEW f, HeapOK(m), TiledIn(m, f, HeapStart, HeapStart),
         DOMAIN n = DOMAIN m,
         \A a \in DOMAIN m : n[a].size = m[a].size
  PROVE  TiledIn(n, f, HeapStart, HeapStart)
<1>1. \A a \in DOMAIN m : Nx(n, a) = Nx(m, a) /\ HeapStart <= a /\ a \in Nat
  BY DEF Nx, TiledIn, HeapOK
<1> QED
  BY <1>1 DEF TiledIn

(* Setting a block's dirty bit changes nothing else about the heap.        *)
LEMMA DirtyShape ==
  ASSUME NEW m, HeapOK(m), NEW x \in DOMAIN m
  PROVE  LET n == [m EXCEPT ![x].dirty = TRUE] IN
           /\ DOMAIN n = DOMAIN m /\ HeapOK(n)
           /\ \A a \in DOMAIN m : n[a].size = m[a].size /\ n[a].handle = m[a].handle
<1> DEFINE n == [m EXCEPT ![x].dirty = TRUE]
<1>1. DOMAIN n = DOMAIN m /\ n[x] = [m[x] EXCEPT !.dirty = TRUE]
      /\ \A a \in DOMAIN m : a # x => n[a] = m[a]
  BY DEF HeapOK
<1>2. \A a \in DOMAIN m : m[a] \in Block
  BY DEF HeapOK
<1>3. n[x] \in Block /\ n[x].size = m[x].size /\ n[x].handle = m[x].handle
  BY <1>1, <1>2 DEF Block
<1>4. n \in [DOMAIN n -> Block]
  BY <1>1, <1>2, <1>3 DEF HeapOK
<1> QED
  BY <1>1, <1>3, <1>4 DEF HeapOK

LEMMA PutNamed ==
  ASSUME NEW m, NEW hs, NamedIn(m, hs), HeapOK(m), NEW f \in Nat, f # Null, f \notin DOMAIN m, Null \notin DOMAIN m,
         NEW h \in Handles, hs[h] = Null, NEW b \in Block, b.handle = h, ~b.dirty
  PROVE  NamedIn(Put(m, f, b), [hs EXCEPT ![h] = f])
<1> DEFINE n == Put(m, f, b)
<1> DEFINE t == [hs EXCEPT ![h] = f]
<1>1. DOMAIN n = DOMAIN m \cup {f} /\ n[f] = b /\ \A a \in DOMAIN m : n[a] = m[a]
  BY DEF Put
<1>2. t \in [Handles -> Nat] /\ t[h] = f /\ \A g \in Handles : g # h => t[g] = hs[g]
  BY DEF NamedIn
<1>3. \A g \in Handles : t[g] # Null =>
        t[g] \in DOMAIN n /\ n[t[g]].handle = g /\ ~n[t[g]].dirty
  BY <1>1, <1>2 DEF NamedIn
<1>4. ASSUME NEW a \in DOMAIN n, ~n[a].dirty PROVE t[n[a].handle] = a
  <2>1. CASE a = f
    BY <1>1, <1>2, <2>1
  <2>2. CASE a \in DOMAIN m
    <3>1. n[a] = m[a] /\ m[a].handle \in Handles /\ a \in DOMAIN m
      BY <1>1, <2>2, BlockFacts
    <3>2. hs[m[a].handle] = a /\ a # f
      BY <3>1, <1>4 DEF NamedIn
    <3>3. m[a].handle # h
      BY <3>1, <3>2
    <3> QED
      BY <3>1, <3>2, <3>3, <1>2
  <2> QED
    BY <1>1, <2>1, <2>2
<1> QED
  BY <1>2, <1>3, <1>4 DEF NamedIn

(* Releasing a block: its entry is cleared and it is marked dirty.         *)
LEMMA ReleaseNamed ==
  ASSUME NEW m, NEW hs, NamedIn(m, hs), HeapOK(m), Null \notin DOMAIN m,
         NEW h \in Handles, hs[h] # Null
  PROVE  NamedIn([m EXCEPT ![hs[h]].dirty = TRUE], [hs EXCEPT ![h] = Null])
<1> DEFINE x == hs[h]
<1> DEFINE n == [m EXCEPT ![x].dirty = TRUE]
<1> DEFINE t == [hs EXCEPT ![h] = Null]
<1>1. x \in DOMAIN m /\ m[x].handle = h
  BY DEF NamedIn
<1>2. /\ DOMAIN n = DOMAIN m
      /\ n[x].dirty
      /\ \A a \in DOMAIN m : n[a].handle = m[a].handle /\ (a # x => n[a] = m[a])
  BY <1>1, BlockFacts DEF Block
<1>3. t \in [Handles -> Nat] /\ t[h] = Null /\ \A g \in Handles : g # h => t[g] = hs[g]
  BY DEF NamedIn
<1>4. ASSUME NEW g \in Handles, t[g] # Null
      PROVE  t[g] \in DOMAIN n /\ n[t[g]].handle = g /\ ~n[t[g]].dirty
  <2>1. g # h /\ t[g] = hs[g] /\ hs[g] \in DOMAIN m /\ m[hs[g]].handle = g /\ ~m[hs[g]].dirty
    BY <1>3, <1>4 DEF NamedIn
  <2>2. hs[g] # x
    BY <1>1, <2>1
  <2> QED
    BY <1>2, <2>1, <2>2
<1>5. ASSUME NEW a \in DOMAIN n, ~n[a].dirty PROVE t[n[a].handle] = a
  <2>1. a # x /\ a \in DOMAIN m /\ n[a] = m[a] /\ m[a].handle \in Handles
    BY <1>2, <1>5, BlockFacts
  <2>2. hs[m[a].handle] = a
    BY <1>5, <2>1 DEF NamedIn
  <2>3. m[a].handle # h
    BY <2>1, <2>2
  <2> QED
    BY <1>3, <2>1, <2>2, <2>3
<1> QED
  BY <1>2, <1>3, <1>4, <1>5 DEF NamedIn

(* Changing contents, sizes kept, leaves the table's agreement alone.      *)
LEMMA ShapeNamed ==
  ASSUME NEW m, NEW n, NEW hs, NamedIn(m, hs), HeapOK(m), DOMAIN n = DOMAIN m,
         \A a \in DOMAIN m : n[a].handle = m[a].handle /\ n[a].dirty = m[a].dirty
  PROVE  NamedIn(n, hs)
  BY DEF NamedIn

LEMMA PutPrefix ==
  ASSUME NEW m, HeapOK(m), NEW f, TiledIn(m, f, HeapStart, HeapStart), NEW b \in Block, ~b.dirty,
         NEW total \in Int, PrefixSum(m, f, HeapStart, HeapStart, total)
  PROVE  PrefixSum(Put(m, f, b), f + Overhead + b.size, HeapStart, HeapStart, total)
<1> DEFINE n == Put(m, f, b)
<1> DEFINE g == f + Overhead + b.size
<1> PICK p : Prefix(p, m, f, HeapStart, HeapStart, total)
  BY DEF PrefixSum
<1> DEFINE q == [p EXCEPT ![g] = total]
<1>1. b.size \in Nat /\ f \in Nat /\ g \in Nat /\ HeapStart <= f /\ f < g /\ g # HeapStart
  BY SizeFacts DEF Block, TiledIn
<1>2. DOMAIN n = DOMAIN m \cup {f} /\ n[f] = b /\ f \notin DOMAIN m
      /\ \A a \in DOMAIN m : n[a] = m[a]
  BY PutTiled DEF Put
<1>3. q \in [Nat -> Int] /\ q[g] = total /\ \A x \in Nat : x # g => q[x] = p[x]
  BY <1>1 DEF Prefix
<1>4. \A a \in DOMAIN m : a \in Nat /\ a >= HeapStart /\ a # g /\ Nx(m, a) \in Nat /\ Nx(m, a) # g
  <2> TAKE a \in DOMAIN m
  <2>1. a \in Nat /\ Nx(m, a) \in Nat /\ a < Nx(m, a)
    BY BlockFacts
  <2>2. HeapStart <= a /\ Nx(m, a) <= f
    BY <1>1, <2>1 DEF TiledIn
  <2> QED
    BY <1>1, <2>1, <2>2
<1>5. ASSUME NEW a \in DOMAIN n, a >= HeapStart
      PROVE  q[Nx(n, a)] = q[a] + (IF n[a].dirty THEN Overhead + n[a].size ELSE 0)
  <2>1. CASE a = f
    <3>1. Nx(n, a) = g /\ n[a] = b
      BY <1>2, <2>1 DEF Nx
    <3>2. q[a] = total
      BY <1>1, <1>3, <2>1 DEF Prefix
    <3> QED
      BY <1>3, <3>1, <3>2
  <2>2. CASE a \in DOMAIN m
    <3>1. Nx(n, a) = Nx(m, a) /\ n[a] = m[a]
      BY <1>2, <2>2 DEF Nx
    <3>2. p[Nx(m, a)] = p[a] + (IF m[a].dirty THEN Overhead + m[a].size ELSE 0)
      BY <2>2, <1>5 DEF Prefix
    <3> QED
      BY <1>3, <1>4, <2>2, <3>1, <3>2
  <2> QED
    BY <1>2, <2>1, <2>2
<1>6. q[HeapStart] = HeapStart - HeapStart
  BY <1>1, <1>3 DEF Prefix
<1>7. Prefix(q, n, g, HeapStart, HeapStart, total)
  BY <1>3, <1>5, <1>6 DEF Prefix
<1> QED
  BY <1>7 DEF PrefixSum

LEMMA ReleasePrefix ==
  ASSUME NEW m, HeapOK(m), NEW f, TiledIn(m, f, HeapStart, HeapStart),
         NEW x \in DOMAIN m, ~m[x].dirty,
         NEW total \in Int, PrefixSum(m, f, HeapStart, HeapStart, total)
  PROVE  PrefixSum([m EXCEPT ![x].dirty = TRUE], f, HeapStart, HeapStart,
                   total + Overhead + m[x].size)
<1> DEFINE n == [m EXCEPT ![x].dirty = TRUE]
<1> DEFINE c == Overhead + m[x].size
<1> PICK p : Prefix(p, m, f, HeapStart, HeapStart, total)
  BY DEF PrefixSum
<1> DEFINE q == [y \in Nat |-> p[y] + (IF y > x THEN c ELSE 0)]
<1>1. /\ DOMAIN n = DOMAIN m /\ n[x].dirty /\ n[x].size = m[x].size
      /\ \A a \in DOMAIN m : a # x => n[a] = m[a]
  BY BlockFacts DEF Block
<1>2. x \in Nat /\ c \in Nat /\ HeapStart <= x /\ f \in Nat /\ Nx(m, x) = x + c /\ x < f
  <2>1. x \in Nat /\ m[x].size \in Nat /\ Nx(m, x) = x + c /\ x < Nx(m, x)
    BY BlockFacts
  <2> QED
    BY <2>1 DEF TiledIn
<1>3. q \in [Nat -> Int]
  BY <1>2 DEF Prefix
<1>4. ASSUME NEW a \in DOMAIN n, a >= HeapStart
      PROVE  q[Nx(n, a)] = q[a] + (IF n[a].dirty THEN Overhead + n[a].size ELSE 0)
  <2>1. a \in Nat /\ Nx(m, a) \in Nat /\ a < Nx(m, a) /\ a \in DOMAIN m
    BY <1>1, BlockFacts
  <2>2. Nx(n, a) = Nx(m, a)
    BY <1>1 DEF Nx
  <2>3. p[a] \in Int /\ p[Nx(m, a)] \in Int
        /\ p[Nx(m, a)] = p[a] + (IF m[a].dirty THEN Overhead + m[a].size ELSE 0)
    BY <1>4, <2>1 DEF Prefix
  <2>4. CASE a = x
    BY <1>1, <1>2, <2>1, <2>2, <2>3, <2>4
  <2>5. CASE a < x
    <3>1. Nx(m, a) <= x
      BY <2>1, <2>5 DEF TiledIn
    <3> QED
      BY <1>1, <1>2, <2>1, <2>2, <2>3, <2>5, <3>1
  <2>6. CASE a > x
    BY <1>1, <1>2, <2>1, <2>2, <2>3, <2>6, BlockFacts
  <2> QED
    BY <1>2, <2>1, <2>4, <2>5, <2>6
<1>5. q[HeapStart] = HeapStart - HeapStart /\ q[f] = total + Overhead + m[x].size
  BY <1>2, BlockFacts DEF Prefix
<1>6. Prefix(q, n, f, HeapStart, HeapStart, total + Overhead + m[x].size)
  BY <1>3, <1>4, <1>5 DEF Prefix
<1> QED
  BY <1>6 DEF PrefixSum

LEMMA ShapePrefix ==
  ASSUME NEW m, NEW n, NEW f, NEW d, NEW s, NEW total, PrefixSum(m, f, d, s, total),
         DOMAIN n = DOMAIN m,
         \A a \in DOMAIN m : n[a].size = m[a].size /\ n[a].dirty = m[a].dirty
  PROVE  PrefixSum(n, f, d, s, total)
<1> PICK p : Prefix(p, m, f, d, s, total)
  BY DEF PrefixSum
<1>1. \A a \in DOMAIN m : Nx(n, a) = Nx(m, a)
  BY DEF Nx
<1>2. Prefix(p, n, f, d, s, total)
  BY <1>1 DEF Prefix
<1> QED
  BY <1>2 DEF PrefixSum

-----------------------------------------------------------------------------
(* Lemmas about one iteration of the collector's loops.                    *)

LEMMA SeekIteration ==
  ASSUME NEW m, HeapOK(m), NEW f, NEW s, TiledIn(m, f, s, s), s < f, ~m[s].dirty,
         NEW total, PrefixSum(m, f, s, s, total)
  PROVE  /\ s \in DOMAIN m
         /\ TiledIn(m, f, Nx(m, s), Nx(m, s))
         /\ PrefixSum(m, f, Nx(m, s), Nx(m, s), total)
<1>1. s \in DOMAIN m /\ s \in Nat /\ f \in Nat /\ HeapStart <= s
  BY DEF TiledIn
<1>2. Nx(m, s) \in Nat /\ s < Nx(m, s) /\ Nx(m, s) <= f
      /\ (Nx(m, s) \in DOMAIN m \/ Nx(m, s) = f)
  BY <1>1, BlockFacts DEF TiledIn
<1>3. \A a \in DOMAIN m : a \in Nat /\ Nx(m, a) \in Nat /\ a < Nx(m, a)
  BY BlockFacts
<1>4. \A a \in DOMAIN m : a < Nx(m, s) =>
        ~m[a].dirty /\ Nx(m, a) <= Nx(m, s) /\ (Nx(m, a) \in DOMAIN m \/ Nx(m, a) = Nx(m, s))
  <2> TAKE a \in DOMAIN m
  <2> HAVE a < Nx(m, s)
  <2>1. a <= s
    BY <1>1, <1>2, <1>3 DEF TiledIn
  <2>2. CASE a = s
    BY <1>2, <2>2
  <2>3. CASE a < s
    <3>1. ~m[a].dirty /\ Nx(m, a) <= s /\ (Nx(m, a) \in DOMAIN m \/ Nx(m, a) = s)
      BY <2>3 DEF TiledIn
    <3> QED
      BY <1>1, <1>2, <1>3, <3>1
  <2> QED
    BY <1>1, <1>3, <2>1, <2>2, <2>3
<1>5. HeapStart \in DOMAIN m
  BY <1>1 DEF TiledIn
<1>6. TiledIn(m, f, Nx(m, s), Nx(m, s))
  BY <1>1, <1>2, <1>3, <1>4, <1>5 DEF TiledIn
<1>7. PrefixSum(m, f, Nx(m, s), Nx(m, s), total)
  <2> PICK p : Prefix(p, m, f, s, s, total)
    BY DEF PrefixSum
  <2>1. p[Nx(m, s)] = p[s] /\ p[s] = 0
    BY <1>1 DEF Prefix
  <2>2. Prefix(p, m, f, Nx(m, s), Nx(m, s), total)
    BY <1>1, <1>2, <1>3, <2>1 DEF Prefix
  <2> QED
    BY <2>2 DEF PrefixSum
<1> QED
  BY <1>1, <1>6, <1>7

LEMMA SkipIteration ==
  ASSUME NEW m, HeapOK(m), NEW f, NEW d, NEW s, TiledIn(m, f, d, s), s < f, m[s].dirty,
         NEW total, PrefixSum(m, f, d, s, total)
  PROVE  /\ s \in DOMAIN m
         /\ TiledIn(m, f, d, Nx(m, s))
         /\ PrefixSum(m, f, d, Nx(m, s), total)
<1>1. s \in DOMAIN m /\ s \in Nat /\ d \in Nat /\ f \in Nat /\ HeapStart <= d /\ d <= s
  BY DEF TiledIn
<1>2. Nx(m, s) \in Nat /\ s < Nx(m, s) /\ Nx(m, s) <= f /\ m[s].size \in Nat
      /\ Nx(m, s) = s + Overhead + m[s].size
      /\ (Nx(m, s) \in DOMAIN m \/ Nx(m, s) = f)
  BY <1>1, BlockFacts DEF TiledIn
<1>3. \A a \in DOMAIN m : a \in Nat /\ Nx(m, a) \in Nat /\ a < Nx(m, a)
  BY BlockFacts
<1>4. \A a \in DOMAIN m : a >= d /\ a < Nx(m, s) => m[a].dirty /\ Nx(m, a) <= Nx(m, s)
  <2> TAKE a \in DOMAIN m
  <2> HAVE a >= d /\ a < Nx(m, s)
  <2>1. a <= s
    BY <1>1, <1>2, <1>3 DEF TiledIn
  <2>2. CASE a = s
    BY <1>2, <2>2
  <2>3. CASE a < s
    <3>1. m[a].dirty /\ Nx(m, a) <= s
      BY <2>3 DEF TiledIn
    <3> QED
      BY <1>1, <1>2, <1>3, <3>1
  <2> QED
    BY <1>1, <1>3, <2>1, <2>2, <2>3
<1>5. TiledIn(m, f, d, Nx(m, s))
  BY <1>1, <1>2, <1>3, <1>4 DEF TiledIn
<1>6. PrefixSum(m, f, d, Nx(m, s), total)
  <2> PICK p : Prefix(p, m, f, d, s, total)
    BY DEF PrefixSum
  <2>1. p[Nx(m, s)] = Nx(m, s) - d
    BY <1>1, <1>2 DEF Prefix
  <2>2. Prefix(p, m, f, d, Nx(m, s), total)
    BY <1>1, <1>2, <1>3, <2>1 DEF Prefix
  <2> QED
    BY <2>2 DEF PrefixSum
<1> QED
  BY <1>1, <1>5, <1>6

Slid(m, d, s) ==
  [a \in {a \in DOMAIN m : a < d \/ a >= Nx(m, s)} \cup {d} |->
     IF a = d THEN m[s] ELSE m[a]]

LEMMA MoveIteration ==
  ASSUME NEW m, HeapOK(m), NEW f, NEW d, NEW s, TiledIn(m, f, d, s), s < f, ~m[s].dirty,
         NEW hs, NamedIn(m, hs),
         NEW total, PrefixSum(m, f, d, s, total)
  PROVE  /\ s \in DOMAIN m
         /\ HeapOK(Slid(m, d, s))
         /\ TiledIn(Slid(m, d, s), f, d + Overhead + m[s].size, Nx(m, s))
         /\ NamedIn(Slid(m, d, s), [hs EXCEPT ![m[s].handle] = d])
         /\ PrefixSum(Slid(m, d, s), f, d + Overhead + m[s].size, Nx(m, s), total)
<1> DEFINE n == Slid(m, d, s)
<1> DEFINE e == d + Overhead + m[s].size
<1> DEFINE t == Nx(m, s)
<1> DEFINE h == m[s].handle
<1>1. s \in DOMAIN m /\ s \in Nat /\ d \in Nat /\ f \in Nat /\ HeapStart <= d /\ d <= s
  BY DEF TiledIn
<1>2. /\ t \in Nat /\ s < t /\ t <= f /\ (t \in DOMAIN m \/ t = f)
      /\ t = s + Overhead + m[s].size
      /\ m[s].size \in Nat /\ m[s] \in Block /\ h \in Handles
      /\ e \in Nat /\ d < e /\ e <= t
  <2>1. t \in Nat /\ s < t /\ t = s + Overhead + m[s].size /\ m[s].size \in Nat
        /\ m[s] \in Block /\ h \in Handles
    BY <1>1, BlockFacts
  <2>2. t <= f /\ (t \in DOMAIN m \/ t = f)
    BY <1>1 DEF TiledIn
  <2> QED
    BY <1>1, <2>1, <2>2
<1>3. \A a \in DOMAIN m : a \in Nat /\ Nx(m, a) \in Nat /\ a < Nx(m, a) /\ m[a] \in Block
  BY BlockFacts
<1>4. /\ DOMAIN n = {a \in DOMAIN m : a < d \/ a >= t} \cup {d}
      /\ n[d] = m[s]
      /\ \A a \in DOMAIN n : a # d => n[a] = m[a] /\ a \in DOMAIN m /\ (a < d \/ a >= t)
  BY DEF Slid
<1>5. Nx(n, d) = e /\ \A a \in DOMAIN n : a # d => Nx(n, a) = Nx(m, a)
  BY <1>4 DEF Nx
<1>6. HeapOK(n)
  <2>1. DOMAIN n \subseteq Nat
    BY <1>1, <1>3, <1>4
  <2>2. \A a \in DOMAIN n : n[a] \in Block
    BY <1>2, <1>3, <1>4
  <2>3. n = [a \in DOMAIN n |-> n[a]]
    BY DEF Slid
  <2> QED
    BY <2>1, <2>2, <2>3 DEF HeapOK
<1>7. TiledIn(n, f, e, t)
  <2>1. HeapStart \in DOMAIN n
    BY <1>1, <1>4 DEF TiledIn
  <2>2. t \in DOMAIN n \/ t = f
    BY <1>2, <1>4
  <2>3. ASSUME NEW a \in DOMAIN n, a < e
        PROVE  ~n[a].dirty /\ Nx(n, a) <= e /\ (Nx(n, a) \in DOMAIN n \/ Nx(n, a) = e)
    <3>1. CASE a = d
      BY <1>2, <1>4, <1>5, <3>1
    <3>2. CASE a # d
      <4>1. a < d /\ a \in DOMAIN m /\ n[a] = m[a] /\ Nx(n, a) = Nx(m, a)
        BY <1>2, <1>3, <1>4, <1>5, <2>3, <3>2
      <4>2. ~m[a].dirty /\ Nx(m, a) <= d /\ (Nx(m, a) \in DOMAIN m \/ Nx(m, a) = d)
        BY <4>1 DEF TiledIn
      <4>3. Nx(m, a) \in DOMAIN n
        BY <1>1, <1>3, <1>4, <4>1, <4>2
      <4> QED
        BY <1>1, <1>2, <1>3, <4>1, <4>2, <4>3
    <3> QED
      BY <3>1, <3>2
  <2>4. \A a \in DOMAIN n : ~(a >= e /\ a < t)
    BY <1>1, <1>2, <1>3, <1>4
  <2>5. ASSUME NEW a \in DOMAIN n, a >= t
        PROVE  Nx(n, a) <= f /\ (Nx(n, a) \in DOMAIN n \/ Nx(n, a) = f)
    <3>1. a # d /\ a \in DOMAIN m /\ Nx(n, a) = Nx(m, a) /\ a >= s
      BY <1>1, <1>2, <1>3, <1>4, <1>5, <2>5
    <3>2. Nx(m, a) <= f /\ (Nx(m, a) \in DOMAIN m \/ Nx(m, a) = f)
      BY <3>1 DEF TiledIn
    <3> QED
      BY <1>2, <1>3, <1>4, <2>5, <3>1, <3>2
  <2>6. ASSUME NEW a \in DOMAIN n, NEW b \in DOMAIN n, a < b
        PROVE  Nx(n, a) <= b
    <3>1. CASE a = d
      <4>1. b \in DOMAIN m /\ b >= t
        BY <1>1, <1>3, <1>4, <2>6, <3>1
      <4> QED
        BY <1>2, <1>3, <1>5, <3>1, <4>1
    <3>2. CASE b = d
      <4>1. a # d /\ a < d /\ a \in DOMAIN m
        BY <1>1, <1>3, <1>4, <2>6, <3>2
      <4> QED
        BY <1>5, <3>2, <4>1 DEF TiledIn
    <3>3. CASE a # d /\ b # d
      <4>1. a \in DOMAIN m /\ b \in DOMAIN m /\ Nx(n, a) = Nx(m, a)
        BY <1>4, <1>5, <3>3
      <4> QED
        BY <2>6, <4>1 DEF TiledIn
    <3> QED
      BY <3>1, <3>2, <3>3
  <2>7. \A a \in DOMAIN n : HeapStart <= a
    BY <1>1, <1>4 DEF TiledIn
  <2> QED
    BY <1>1, <1>2, <2>1, <2>2, <2>3, <2>4, <2>5, <2>6, <2>7 DEF TiledIn
<1>8. NamedIn(n, [hs EXCEPT ![h] = d])
  <2> DEFINE u == [hs EXCEPT ![h] = d]
  <2>1. u \in [Handles -> Nat] /\ u[h] = d /\ \A g \in Handles : g # h => u[g] = hs[g]
    BY <1>1, <1>2 DEF NamedIn
  <2>2. ASSUME NEW g \in Handles, u[g] # Null
        PROVE  u[g] \in DOMAIN n /\ n[u[g]].handle = g /\ ~n[u[g]].dirty
    <3>1. CASE g = h
      BY <1>4, <2>1, <3>1
    <3>2. CASE g # h
      <4>1. u[g] = hs[g] /\ hs[g] \in DOMAIN m /\ m[hs[g]].handle = g /\ ~m[hs[g]].dirty
        BY <2>1, <2>2, <3>2 DEF NamedIn
      <4>2. hs[g] # s /\ hs[g] \in Nat
        BY <1>3, <3>2, <4>1
      <4>3. hs[g] < d \/ hs[g] >= s
        BY <1>1, <4>1, <4>2 DEF TiledIn
      <4>4. hs[g] < d \/ hs[g] >= t
        BY <1>1, <4>1, <4>2, <4>3 DEF TiledIn
      <4>5. hs[g] \in DOMAIN n /\ hs[g] # d
        BY <1>1, <1>2, <1>4, <4>1, <4>2, <4>4
      <4> QED
        BY <1>4, <4>1, <4>5
    <3> QED
      BY <3>1, <3>2
  <2>3. ASSUME NEW a \in DOMAIN n, ~n[a].dirty PROVE u[n[a].handle] = a
    <3>1. CASE a = d
      BY <1>4, <2>1, <3>1
    <3>2. CASE a # d
      <4>1. n[a] = m[a] /\ a \in DOMAIN m /\ (a < d \/ a >= t) /\ m[a].handle \in Handles
        BY <1>4, <3>2, BlockFacts
      <4>2. hs[m[a].handle] = a /\ hs[h] = s
        BY <1>1, <2>3, <4>1 DEF NamedIn
      <4>3. a # s
        BY <1>1, <1>2, <4>1
      <4> QED
        BY <2>1, <4>1, <4>2, <4>3
    <3> QED
      BY <3>1, <3>2
  <2> QED
    BY <2>1, <2>2, <2>3 DEF NamedIn
<1>9. PrefixSum(n, f, e, t, total)
  <2> PICK p : Prefix(p, m, f, d, s, total)
    BY DEF PrefixSum
  <2>1. p[t] = t - e
    BY <1>1, <1>2 DEF Prefix
  <2>2. ASSUME NEW a \in DOMAIN n, a >= t
        PROVE  p[Nx(n, a)] = p[a] + (IF n[a].dirty THEN Overhead + n[a].size ELSE 0)
    <3>1. a # d /\ a \in DOMAIN m /\ Nx(n, a) = Nx(m, a) /\ n[a] = m[a] /\ a >= s
      BY <1>1, <1>2, <1>3, <1>4, <1>5, <2>2
    <3> QED
      BY <3>1 DEF Prefix
  <2>3. Prefix(p, n, f, e, t, total)
    BY <2>1, <2>2 DEF Prefix
  <2> QED
    BY <2>3 DEF PrefixSum
<1> QED
  BY <1>1, <1>6, <1>7, <1>8, <1>9

Cut(m, d) == [a \in {a \in DOMAIN m : a < d} |-> m[a]]

LEMMA FinishIteration ==
  ASSUME NEW m, HeapOK(m), NEW f, NEW d, NEW s, TiledIn(m, f, d, s), s >= f,
         NEW hs, NamedIn(m, hs),
         NEW total, PrefixSum(m, f, d, s, total)
  PROVE  /\ HeapOK(Cut(m, d))
         /\ TiledIn(Cut(m, d), d, HeapStart, HeapStart)
         /\ NamedIn(Cut(m, d), hs)
         /\ PrefixSum(Cut(m, d), d, HeapStart, HeapStart, 0)
         /\ total = f - d /\ d <= f
<1> DEFINE n == Cut(m, d)
<1>1. s = f /\ s \in Nat /\ d \in Nat /\ f \in Nat /\ HeapStart <= d /\ d <= s
  BY DEF TiledIn
<1>2. total = f - d
  BY <1>1 DEF PrefixSum, Prefix
<1>3. \A a \in DOMAIN m : a \in Nat /\ Nx(m, a) \in Nat /\ a < Nx(m, a) /\ m[a] \in Block
  BY BlockFacts
<1>4. DOMAIN n = {a \in DOMAIN m : a < d} /\ \A a \in DOMAIN n : n[a] = m[a]
  BY DEF Cut
<1>5. \A a \in DOMAIN n : Nx(n, a) = Nx(m, a)
  BY <1>4 DEF Nx
<1>6. HeapOK(n)
  BY <1>3, <1>4 DEF HeapOK, Cut
<1>7. \A a \in DOMAIN n : /\ a \in Nat /\ a < d /\ a \in DOMAIN m /\ HeapStart <= a
                          /\ ~n[a].dirty /\ Nx(n, a) <= d
                          /\ Nx(n, a) \in DOMAIN n \/ Nx(n, a) = d
  <2> TAKE a \in DOMAIN n
  <2>1. a \in DOMAIN m /\ a < d /\ n[a] = m[a] /\ Nx(n, a) = Nx(m, a)
    BY <1>4, <1>5
  <2>2. HeapStart <= a /\ ~m[a].dirty /\ Nx(m, a) <= d /\ (Nx(m, a) \in DOMAIN m \/ Nx(m, a) = d)
    BY <2>1 DEF TiledIn
  <2> QED
    BY <1>1, <1>3, <1>4, <2>1, <2>2
<1>8. TiledIn(n, d, HeapStart, HeapStart)
  <2>1. HeapStart \in DOMAIN n \/ HeapStart = d
    BY <1>1, <1>4 DEF TiledIn
  <2>2. \A a, b \in DOMAIN n : a < b => Nx(n, a) <= b
    BY <1>4, <1>5 DEF TiledIn
  <2> QED
    BY <1>1, <1>7, <2>1, <2>2 DEF TiledIn
<1>9. NamedIn(n, hs)
  <2>1. \A g \in Handles : hs[g] # Null => hs[g] \in DOMAIN n
    <3> TAKE g \in Handles
    <3> HAVE hs[g] # Null
    <3>1. hs[g] \in DOMAIN m /\ ~m[hs[g]].dirty
      BY DEF NamedIn
    <3>2. hs[g] < d \/ hs[g] >= s
      BY <1>1, <1>3, <3>1 DEF TiledIn
    <3>3. Nx(m, hs[g]) <= f \/ hs[g] < d
      BY <3>1, <3>2 DEF TiledIn
    <3> QED
      BY <1>1, <1>3, <1>4, <3>1, <3>2, <3>3
  <2> QED
    BY <1>4, <2>1 DEF NamedIn
<1>10. PrefixSum(n, d, HeapStart, HeapStart, 0)
  <2> DEFINE q == [y \in Nat |-> 0]
  <2>1. \A a \in DOMAIN n : Nx(n, a) \in Nat
    BY <1>3, <1>5, <1>7
  <2>2. Prefix(q, n, d, HeapStart, HeapStart, 0)
    BY <1>1, <1>7, <2>1 DEF Prefix
  <2> QED
    BY <2>2 DEF PrefixSum
<1> QED
  BY <1>1, <1>2, <1>6, <1>8, <1>9, <1>10

-----------------------------------------------------------------------------
(* The inductive invariant.                                                *)

Phases ==
  /\ phase = "threads" => dst = HeapStart /\ src = HeapStart
  /\ phase = "seek" => dst = src
  /\ phase # "threads" => held = {}

InUse(hs) == {h \in Handles : hs[h] # Null}

Accounts ==
  /\ freePtr + freeSpace = HeapEnd
  /\ usedSpace + dirtySpace = freePtr - HeapStart
  /\ usedSpace = dataSpace + Overhead * handlesUsed
  /\ handlesUsed = Cardinality(InUse(handles))
  /\ PrefixSum(mem, freePtr, dst, src, dirtySpace)

IInv ==
  /\ TypeOK
  /\ TiledIn(mem, freePtr, dst, src)
  /\ NamedIn(mem, handles)
  /\ Phases
  /\ Accounts
  /\ HeldPointersValid

LEMMA Implied == IInv => HandlesNameBlocks /\ SpaceAccounted /\ Tiled
<1> SUFFICES ASSUME IInv PROVE HandlesNameBlocks /\ SpaceAccounted /\ Tiled
  OBVIOUS
<1>1. HandlesNameBlocks
  BY DEF IInv, NamedIn, HandlesNameBlocks
<1>2. SpaceAccounted
  BY DEF IInv, Accounts, SpaceAccounted, InUse
<1>3. HeapOK(mem)
  BY DEF IInv, TypeOK, HeapOK
<1>4. \A a \in DOMAIN mem : a \in Nat /\ After(a) = Nx(mem, a) /\ Nx(mem, a) \in Nat /\ a < Nx(mem, a)
  BY <1>3, BlockFacts DEF After, BlockSize
<1>5. Tiled
  BY <1>4 DEF IInv, TiledIn, Tiled
<1> QED
  BY <1>1, <1>2, <1>5

(* Facts the action lemmas share.                                          *)
LEMMA Basics ==
  ASSUME IInv
  PROVE  /\ HeapOK(mem)
         /\ freePtr \in Nat /\ HeapStart <= freePtr /\ freeSpace \in Nat /\ freePtr <= HeapEnd
         /\ Null \notin DOMAIN mem
         /\ handles \in [Handles -> Nat]
         /\ \A a \in DOMAIN mem : a # freePtr
         /\ IsFiniteSet(InUse(handles))
<1>1. HeapOK(mem) /\ handles \in [Handles -> Nat]
  BY DEF IInv, TypeOK, HeapOK
<1>2. freePtr \in Nat /\ HeapStart <= freePtr /\ freeSpace \in Nat /\ freePtr <= HeapEnd
  BY HeapFacts DEF IInv, TypeOK
<1>3. Null \notin DOMAIN mem
  BY DEF IInv, TiledIn
<1>4. \A a \in DOMAIN mem : a # freePtr
  <2> TAKE a \in DOMAIN mem
  <2>1. a \in Nat /\ Nx(mem, a) \in Nat /\ a < Nx(mem, a)
    BY <1>1, BlockFacts
  <2>2. Nx(mem, a) <= freePtr
    BY <1>2, <2>1 DEF IInv, TiledIn
  <2> QED
    BY <1>2, <2>1, <2>2
<1>5. IsFiniteSet(Handles)
  BY HandlesAssumption, FS_Interval DEF Handles
<1>6. IsFiniteSet(InUse(handles))
  BY <1>5, FS_Subset DEF InUse
<1> QED
  BY <1>1, <1>2, <1>3, <1>4, <1>6

LEMMA Step ==
  ASSUME IInv, src < freePtr
  PROVE  /\ src \in DOMAIN mem /\ After(src) = Nx(mem, src)
         /\ dst + BlockSize(mem[src]) = dst + Overhead + mem[src].size
<1>1. src \in DOMAIN mem /\ dst \in Nat
  BY DEF IInv, TiledIn
<1>2. src \in Nat /\ mem[src].size \in Nat
  BY <1>1, Basics, BlockFacts
<1> QED
  BY <1>1, <1>2 DEF After, BlockSize, Nx

LEMMA InitInv == Init => IInv
<1> SUFFICES ASSUME Init PROVE IInv
  OBVIOUS
<1>1. DOMAIN mem = {} /\ freePtr = 1 /\ dst = 1 /\ src = 1 /\ held = {}
  BY DEF Init
<1>2. TypeOK
  <2>1. mem \in [DOMAIN mem -> Block] /\ handles \in [Handles -> Nat]
    BY DEF Init
  <2>2. freePtr \in HeapStart .. HeapEnd /\ freeSpace \in 0 .. HeapSize
    BY HeapFacts DEF Init
  <2>3. phase \in {"threads", "seek", "slide"} /\ asserted \in BOOLEAN
    BY DEF Init
  <2>4. handlesUsed \in Int /\ usedSpace \in Int /\ dirtySpace \in Int /\ dataSpace \in Int
    BY DEF Init
  <2> QED
    BY <1>1, <2>1, <2>2, <2>3, <2>4 DEF TypeOK
<1>3. TiledIn(mem, freePtr, dst, src)
  BY <1>1 DEF TiledIn
<1>4. NamedIn(mem, handles)
  BY DEF Init, NamedIn
<1>5. Phases
  BY DEF Init, Phases
<1>6. Accounts
  <2>1. InUse(handles) = {}
    BY DEF Init, InUse
  <2>2. Cardinality(InUse(handles)) = 0
    BY <2>1, FS_EmptySet
  <2>3. Prefix([y \in Nat |-> 0], mem, freePtr, dst, src, 0)
    BY <1>1 DEF Prefix
  <2>4. PrefixSum(mem, freePtr, dst, src, 0)
    BY <2>3 DEF PrefixSum
  <2>5. freePtr + freeSpace = HeapEnd
    BY HeapFacts DEF Init
  <2> QED
    BY <2>2, <2>4, <2>5 DEF Init, Accounts
<1>7. HeldPointersValid
  BY <1>1 DEF HeldPointersValid
<1> QED
  BY <1>2, <1>3, <1>4, <1>5, <1>6, <1>7 DEF IInv

LEMMA AllocInv ==
  ASSUME IInv, NEW h \in Handles, NEW size \in Sizes, NEW type \in Types, NEW d \in Data,
         Alloc(h, size, type, d)
  PROVE  IInv'
<1> DEFINE b == [size |-> size, handle |-> h, type |-> type,
                 dirty |-> FALSE, canary |-> TRUE, data |-> d]
<1>1. size \in Nat /\ b \in Block /\ b.handle = h /\ b.size = size /\ ~b.dirty
  BY SizeFacts DEF Block
<1>2. /\ phase = "threads" /\ handles[h] = Null
      /\ mem' = Put(mem, freePtr, b) /\ handles' = [handles EXCEPT ![h] = freePtr]
      /\ freePtr' = freePtr + Overhead + b.size
      /\ freeSpace' = freeSpace - (Overhead + size) /\ freeSpace >= Overhead + size
      /\ usedSpace' = usedSpace + Overhead + size /\ dataSpace' = dataSpace + size
      /\ dirtySpace' = dirtySpace /\ handlesUsed' = handlesUsed + 1
      /\ phase' = phase /\ dst' = dst /\ src' = src /\ asserted' = asserted /\ held' = held
  BY <1>1 DEF Alloc, Running, FirstFree, Fits, Trunc, coll
<1>3. TypeOK /\ TiledIn(mem, freePtr, HeapStart, HeapStart) /\ NamedIn(mem, handles)
      /\ Phases /\ dst = HeapStart /\ src = HeapStart
      /\ PrefixSum(mem, freePtr, HeapStart, HeapStart, dirtySpace)
  BY <1>2 DEF IInv, Phases, Accounts
<1>4. HeapOK(mem') /\ TiledIn(mem', freePtr', dst', src') /\ freePtr \notin DOMAIN mem
  BY <1>1, <1>2, <1>3, Basics, PutTiled
<1>5. NamedIn(mem', handles')
  <2>1. /\ HeapOK(mem) /\ freePtr \in Nat /\ freePtr # Null
        /\ Null \notin DOMAIN mem /\ freePtr \notin DOMAIN mem
    BY <1>4, Basics
  <2>2. handles[h] = Null
    BY <1>2
  <2>3. NamedIn(Put(mem, freePtr, b), [handles EXCEPT ![h] = freePtr])
    BY <1>1, <1>3, <2>1, <2>2, PutNamed
  <2> QED
    BY <1>2, <2>3
<1>6. TypeOK'
  <2>1. freePtr' \in HeapStart .. HeapEnd /\ freeSpace' \in 0 .. HeapSize
    BY <1>1, <1>2, Basics, HeapFacts DEF IInv, Accounts
  <2>2. handlesUsed' \in Int /\ usedSpace' \in Int /\ dirtySpace' \in Int /\ dataSpace' \in Int
    BY <1>1, <1>2, <1>3 DEF TypeOK
  <2> QED
    BY <1>2, <1>3, <1>4, <1>5, <2>1, <2>2 DEF TypeOK, HeapOK, NamedIn
<1>7. Phases'
  BY <1>2, <1>3 DEF Phases
<1>8. Accounts'
  <2>1. PrefixSum(mem', freePtr', dst', src', dirtySpace')
    BY <1>1, <1>2, <1>3, Basics, PutPrefix DEF TypeOK
  <2>2. InUse(handles') = InUse(handles) \cup {h} /\ h \notin InUse(handles)
    BY <1>2, Basics DEF InUse
  <2>3. handlesUsed' = Cardinality(InUse(handles'))
    BY <1>2, <2>2, Basics, FS_AddElement DEF IInv, Accounts
  <2>4. freePtr' + freeSpace' = HeapEnd
    BY <1>1, <1>2, Basics, HeapFacts DEF IInv, Accounts
  <2>5. usedSpace' + dirtySpace' = freePtr' - HeapStart
        /\ usedSpace' = dataSpace' + Overhead * handlesUsed'
    <3>1. /\ usedSpace \in Int /\ dirtySpace \in Int /\ dataSpace \in Int
          /\ handlesUsed \in Int /\ freePtr \in Nat
      BY <1>3, Basics DEF TypeOK
    <3>2. usedSpace + dirtySpace = freePtr - HeapStart
          /\ usedSpace = dataSpace + Overhead * handlesUsed
      BY DEF IInv, Accounts
    <3> QED
      BY <1>1, <1>2, <3>1, <3>2
  <2> QED
    BY <2>1, <2>3, <2>4, <2>5 DEF Accounts
<1>9. HeldPointersValid'
  <2> SUFFICES ASSUME NEW p \in held
               PROVE  /\ handles'[p.handle] = p.addr /\ p.addr \in DOMAIN mem'
                      /\ mem'[p.addr].handle = p.handle
    BY <1>2 DEF HeldPointersValid
  <2>1. handles[p.handle] = p.addr /\ p.addr \in DOMAIN mem /\ mem[p.addr].handle = p.handle
    BY DEF IInv, HeldPointersValid
  <2>2. p.handle \in Handles /\ p.handle # h
    BY <1>2, <1>3, <2>1, Basics DEF TypeOK
  <2> QED
    BY <1>2, <1>4, <2>1, <2>2, Basics DEF Put
<1> QED
  BY <1>4, <1>5, <1>6, <1>7, <1>8, <1>9 DEF IInv

LEMMA FreeInv ==
  ASSUME IInv, NEW h \in Handles, Free(h)
  PROVE  IInv'
<1> DEFINE x == handles[h]
<1> DEFINE c == Overhead + mem[x].size
<1>1. x # Null /\ x \in DOMAIN mem /\ ~mem[x].dirty /\ mem[x].handle = h
  BY DEF Free, Valid, IInv, NamedIn
<1>2. mem[x].size \in Nat /\ c \in Nat /\ BlockSize(mem[x]) = c
  BY <1>1, Basics, BlockFacts DEF BlockSize
<1>3. /\ phase = "threads"
      /\ mem' = [mem EXCEPT ![x].dirty = TRUE] /\ handles' = [handles EXCEPT ![h] = Null]
      /\ freePtr' = freePtr /\ freeSpace' = freeSpace
      /\ usedSpace' = usedSpace - c /\ dataSpace' = dataSpace - mem[x].size
      /\ dirtySpace' = dirtySpace + c /\ handlesUsed' = handlesUsed - 1
      /\ phase' = phase /\ dst' = dst /\ src' = src /\ asserted' = asserted /\ held' = Forget(h)
  BY <1>2 DEF Free, Running, Cleared, Released, coll
<1>4. TypeOK /\ TiledIn(mem, freePtr, HeapStart, HeapStart) /\ NamedIn(mem, handles)
      /\ Phases /\ dst = HeapStart /\ src = HeapStart
      /\ PrefixSum(mem, freePtr, HeapStart, HeapStart, dirtySpace)
  BY <1>3 DEF IInv, Phases, Accounts
<1>5. /\ DOMAIN mem' = DOMAIN mem /\ HeapOK(mem')
      /\ \A a \in DOMAIN mem : mem'[a].size = mem[a].size /\ mem'[a].handle = mem[a].handle
  BY <1>1, <1>3, Basics, DirtyShape
<1>6. TiledIn(mem', freePtr', dst', src')
  BY <1>3, <1>4, <1>5, Basics, ShapeTiled
<1>7. NamedIn(mem', handles')
  BY <1>1, <1>3, <1>4, Basics, ReleaseNamed
<1>8. TypeOK'
  <2>1. handlesUsed' \in Int /\ usedSpace' \in Int /\ dirtySpace' \in Int /\ dataSpace' \in Int
    BY <1>2, <1>3, <1>4 DEF TypeOK
  <2> QED
    BY <1>3, <1>4, <1>5, <1>7, <2>1 DEF TypeOK, HeapOK, NamedIn, Forget
<1>9. Phases'
  BY <1>3, <1>4 DEF Phases, Forget
<1>10. Accounts'
  <2>1. PrefixSum(mem', freePtr', dst', src', dirtySpace')
    <3>1. dirtySpace \in Int /\ dirtySpace' = dirtySpace + Overhead + mem[x].size
      BY <1>2, <1>3, <1>4 DEF TypeOK
    <3>2. PrefixSum([mem EXCEPT ![x].dirty = TRUE], freePtr, HeapStart, HeapStart,
                    dirtySpace + Overhead + mem[x].size)
      BY <1>1, <1>4, <3>1, Basics, ReleasePrefix
    <3> QED
      BY <1>3, <1>4, <3>1, <3>2
  <2>2. InUse(handles') = InUse(handles) \ {h} /\ h \in InUse(handles)
    BY <1>1, <1>3, Basics DEF InUse
  <2>3. handlesUsed' = Cardinality(InUse(handles'))
    BY <1>3, <2>2, Basics, FS_RemoveElement DEF IInv, Accounts
  <2>4. freePtr' + freeSpace' = HeapEnd
    BY <1>3 DEF IInv, Accounts
  <2>5. usedSpace' + dirtySpace' = freePtr' - HeapStart
        /\ usedSpace' = dataSpace' + Overhead * handlesUsed'
    <3>1. /\ usedSpace \in Int /\ dirtySpace \in Int /\ dataSpace \in Int
          /\ handlesUsed \in Int /\ freePtr \in Nat
      BY <1>4, Basics DEF TypeOK
    <3>2. usedSpace + dirtySpace = freePtr - HeapStart
          /\ usedSpace = dataSpace + Overhead * handlesUsed
      BY DEF IInv, Accounts
    <3> QED
      BY <1>2, <1>3, <3>1, <3>2
  <2> QED
    BY <2>1, <2>3, <2>4, <2>5 DEF Accounts
<1>11. HeldPointersValid'
  <2> SUFFICES ASSUME NEW p \in held, p.handle # h
               PROVE  /\ handles'[p.handle] = p.addr /\ p.addr \in DOMAIN mem'
                      /\ mem'[p.addr].handle = p.handle
    BY <1>3 DEF HeldPointersValid, Forget
  <2>1. handles[p.handle] = p.addr /\ p.addr \in DOMAIN mem /\ mem[p.addr].handle = p.handle
    BY DEF IInv, HeldPointersValid
  <2> QED
    BY <1>3, <1>5, <2>1, Basics
<1> QED
  BY <1>6, <1>7, <1>8, <1>9, <1>10, <1>11 DEF IInv

LEMMA ReallocInv ==
  ASSUME IInv, NEW h \in Handles, NEW size \in Sizes, NEW canary \in BOOLEAN,
         Realloc(h, size, canary)
  PROVE  IInv'
<1> DEFINE x == handles[h]
<1> DEFINE c == Overhead + mem[x].size
<1> DEFINE m == [mem EXCEPT ![x].dirty = TRUE]
<1> DEFINE t == [handles EXCEPT ![h] = Null]
<1> DEFINE b == [size |-> size, handle |-> h, type |-> mem[x].type,
                 dirty |-> FALSE, canary |-> canary, data |-> mem[x].data]
<1>1. x # Null /\ x \in DOMAIN mem /\ ~mem[x].dirty /\ mem[x].handle = h
  BY DEF Realloc, Valid, IInv, NamedIn
<1>2. /\ mem[x].size \in Nat /\ c \in Nat /\ BlockSize(mem[x]) = c /\ size \in Nat
      /\ b \in Block /\ b.handle = h /\ b.size = size /\ ~b.dirty
  BY <1>1, Basics, BlockFacts, SizeFacts DEF BlockSize, Block
<1>3. /\ phase = "threads"
      /\ mem' = Put(m, freePtr, b) /\ handles' = [handles EXCEPT ![h] = freePtr]
      /\ freePtr' = freePtr + Overhead + b.size
      /\ freeSpace' = freeSpace - (Overhead + size) /\ freeSpace >= Overhead + size
      /\ usedSpace' = (usedSpace + Overhead + size) - c
      /\ dataSpace' = (dataSpace + size) - mem[x].size
      /\ dirtySpace' = dirtySpace + c /\ handlesUsed' = handlesUsed
      /\ phase' = phase /\ dst' = dst /\ src' = src /\ asserted' = asserted /\ held' = Forget(h)
  BY <1>2 DEF Realloc, Running, Released, Fits, Trunc, coll
<1>4. TypeOK /\ TiledIn(mem, freePtr, HeapStart, HeapStart) /\ NamedIn(mem, handles)
      /\ Phases /\ dst = HeapStart /\ src = HeapStart
      /\ PrefixSum(mem, freePtr, HeapStart, HeapStart, dirtySpace)
  BY <1>3 DEF IInv, Phases, Accounts
<1>5. /\ DOMAIN m = DOMAIN mem /\ HeapOK(m)
      /\ \A a \in DOMAIN mem : m[a].size = mem[a].size /\ m[a].handle = mem[a].handle
  BY <1>1, Basics, DirtyShape
<1>6. TiledIn(m, freePtr, HeapStart, HeapStart) /\ NamedIn(m, t) /\ t[h] = Null
  BY <1>1, <1>4, <1>5, Basics, ShapeTiled, ReleaseNamed
<1>7. HeapOK(mem') /\ TiledIn(mem', freePtr', dst', src') /\ freePtr \notin DOMAIN m
  BY <1>2, <1>3, <1>4, <1>5, <1>6, PutTiled
<1>8. NamedIn(mem', handles')
  <2>1. NamedIn(mem', [t EXCEPT ![h] = freePtr])
    BY <1>2, <1>3, <1>5, <1>6, <1>7, Basics, PutNamed
  <2>2. [t EXCEPT ![h] = freePtr] = handles'
    BY <1>3, Basics
  <2> QED
    BY <2>1, <2>2
<1>9. TypeOK'
  <2>1. freePtr' \in HeapStart .. HeapEnd /\ freeSpace' \in 0 .. HeapSize
    BY <1>2, <1>3, Basics, HeapFacts DEF IInv, Accounts
  <2>2. handlesUsed' \in Int /\ usedSpace' \in Int /\ dirtySpace' \in Int /\ dataSpace' \in Int
    BY <1>2, <1>3, <1>4 DEF TypeOK
  <2> QED
    BY <1>3, <1>4, <1>7, <1>8, <2>1, <2>2 DEF TypeOK, HeapOK, NamedIn, Forget
<1>10. Phases'
  BY <1>3, <1>4 DEF Phases, Forget
<1>11. Accounts'
  <2>1. PrefixSum(mem', freePtr', dst', src', dirtySpace')
    <3>1. dirtySpace \in Int /\ dirtySpace' = dirtySpace + Overhead + mem[x].size
          /\ dirtySpace' \in Int
      BY <1>2, <1>3, <1>4 DEF TypeOK
    <3>2. PrefixSum(m, freePtr, HeapStart, HeapStart, dirtySpace')
      BY <1>1, <1>4, <3>1, Basics, ReleasePrefix
    <3> QED
      BY <1>2, <1>3, <1>4, <1>5, <1>6, <3>1, <3>2, PutPrefix
  <2>2. InUse(handles') = InUse(handles)
    BY <1>1, <1>3, Basics DEF InUse
  <2>3. handlesUsed' = Cardinality(InUse(handles'))
    BY <1>3, <2>2 DEF IInv, Accounts
  <2>4. freePtr' + freeSpace' = HeapEnd
    BY <1>2, <1>3, Basics, HeapFacts DEF IInv, Accounts
  <2>5. usedSpace' + dirtySpace' = freePtr' - HeapStart
        /\ usedSpace' = dataSpace' + Overhead * handlesUsed'
    <3>1. /\ usedSpace \in Int /\ dirtySpace \in Int /\ dataSpace \in Int
          /\ handlesUsed \in Int /\ freePtr \in Nat
      BY <1>4, Basics DEF TypeOK
    <3>2. usedSpace + dirtySpace = freePtr - HeapStart
          /\ usedSpace = dataSpace + Overhead * handlesUsed
      BY DEF IInv, Accounts
    <3> QED
      BY <1>2, <1>3, <3>1, <3>2
  <2> QED
    BY <2>1, <2>3, <2>4, <2>5 DEF Accounts
<1>12. HeldPointersValid'
  <2> SUFFICES ASSUME NEW p \in held, p.handle # h
               PROVE  /\ handles'[p.handle] = p.addr /\ p.addr \in DOMAIN mem'
                      /\ mem'[p.addr].handle = p.handle
    BY <1>3 DEF HeldPointersValid, Forget
  <2>1. handles[p.handle] = p.addr /\ p.addr \in DOMAIN mem /\ mem[p.addr].handle = p.handle
    BY DEF IInv, HeldPointersValid
  <2> QED
    BY <1>3, <1>5, <1>7, <2>1, Basics DEF Put
<1> QED
  BY <1>7, <1>8, <1>9, <1>10, <1>11, <1>12 DEF IInv

LEMMA GetPtrInv ==
  ASSUME IInv, NEW h \in Handles, GetPtr(h)
  PROVE  IInv'
<1>1. /\ phase = "threads" /\ handles[h] # Null
      /\ held' = held \cup {[handle |-> h, addr |-> handles[h]]}
      /\ UNCHANGED <<mem, handles, freePtr, handlesUsed, freeSpace, usedSpace, dirtySpace,
                     dataSpace, phase, dst, src, asserted>>
  BY DEF GetPtr, Running, Valid, pool, stats, coll
<1>2. handles[h] \in DOMAIN mem /\ mem[handles[h]].handle = h /\ handles[h] \in Nat
  BY <1>1, Basics DEF IInv, NamedIn
<1>3. TypeOK'
  <2>1. held' \subseteq [handle : Handles, addr : Nat]
    BY <1>1, <1>2 DEF IInv, TypeOK
  <2> QED
    BY <1>1, <2>1 DEF IInv, TypeOK
<1>4. TiledIn(mem, freePtr, dst, src)' /\ NamedIn(mem, handles)' /\ Accounts' /\ Phases'
  BY <1>1 DEF IInv, TiledIn, NamedIn, Accounts, InUse, PrefixSum, Prefix, Phases, Nx
<1>5. HeldPointersValid'
  BY <1>1, <1>2 DEF IInv, HeldPointersValid
<1> QED
  BY <1>3, <1>4, <1>5 DEF IInv

LEMMA WriteInv ==
  ASSUME IInv, NEW p \in held, NEW d \in Data, Write(p, d)
  PROVE  IInv'
<1>1. /\ mem' = [mem EXCEPT ![p.addr].data = d]
      /\ UNCHANGED <<handles, freePtr, handlesUsed, freeSpace, usedSpace, dirtySpace,
                     dataSpace, phase, dst, src, asserted, held>>
  BY DEF Write, stats, coll
<1>2. p.addr \in DOMAIN mem /\ \A a \in DOMAIN mem : mem[a] \in Block
  BY Basics, BlockFacts DEF IInv, HeldPointersValid
<1>3. DOMAIN mem' = DOMAIN mem /\ mem'[p.addr] = [mem[p.addr] EXCEPT !.data = d]
      /\ \A a \in DOMAIN mem : a # p.addr => mem'[a] = mem[a]
  BY <1>1, <1>2, Basics DEF HeapOK
<1>4. \A a \in DOMAIN mem : /\ mem'[a] \in Block /\ mem'[a].size = mem[a].size
                            /\ mem'[a].handle = mem[a].handle /\ mem'[a].dirty = mem[a].dirty
                            /\ Nx(mem', a) = Nx(mem, a)
  BY <1>2, <1>3 DEF Block, Nx
<1>5. mem' \in [DOMAIN mem' -> Block] /\ DOMAIN mem' \subseteq Nat
  BY <1>1, <1>3, <1>4, Basics DEF HeapOK
<1>6. TypeOK'
  BY <1>1, <1>5 DEF IInv, TypeOK
<1>7. TiledIn(mem', freePtr', dst', src')
  BY <1>1, <1>3, <1>4 DEF IInv, TiledIn
<1>8. NamedIn(mem', handles')
  BY <1>1, <1>3, <1>4, Basics, ShapeNamed DEF IInv
<1>9. PrefixSum(mem', freePtr', dst', src', dirtySpace')
  BY <1>1, <1>3, <1>4, ShapePrefix DEF IInv, Accounts
<1>10. Accounts' /\ Phases'
  BY <1>1, <1>9 DEF IInv, Accounts, Phases, InUse
<1>11. HeldPointersValid'
  BY <1>1, <1>3, <1>4 DEF IInv, HeldPointersValid
<1> QED
  BY <1>6, <1>7, <1>8, <1>10, <1>11 DEF IInv

LEMMA EndPassInv ==
  ASSUME IInv, EndPass
  PROVE  IInv'
<1>1. /\ phase = "threads" /\ phase' \in {"threads", "seek"} /\ held' = {}
      /\ UNCHANGED <<mem, handles, freePtr, handlesUsed, freeSpace, usedSpace, dirtySpace,
                     dataSpace, dst, src, asserted>>
  BY DEF EndPass, Running, pool, stats
<1>2. TypeOK' /\ TiledIn(mem, freePtr, dst, src)' /\ NamedIn(mem, handles)' /\ Accounts'
  BY <1>1 DEF IInv, TypeOK, TiledIn, NamedIn, Accounts, InUse, PrefixSum, Prefix, Nx
<1>3. Phases' /\ HeldPointersValid'
  BY <1>1 DEF IInv, Phases, HeldPointersValid
<1> QED
  BY <1>2, <1>3 DEF IInv

LEMMA SeekInv ==
  ASSUME IInv, Seek
  PROVE  IInv'
<1>1. /\ phase = "seek" /\ src < freePtr /\ ~mem[src].dirty
      /\ src' = Nx(mem, src) /\ dst' = Nx(mem, src)
      /\ UNCHANGED <<mem, handles, freePtr, handlesUsed, freeSpace, usedSpace, dirtySpace,
                     dataSpace, phase, asserted, held>>
  BY Step DEF Seek, pool, stats
<1>2. dst = src /\ TiledIn(mem, freePtr, src, src) /\ PrefixSum(mem, freePtr, src, src, dirtySpace)
  BY <1>1 DEF IInv, Phases, Accounts
<1>3. /\ src \in DOMAIN mem /\ TiledIn(mem, freePtr, src', dst')
      /\ PrefixSum(mem, freePtr, dst', src', dirtySpace)
  BY <1>1, <1>2, Basics, SeekIteration
<1>4. src' \in Nat /\ dst' \in Nat
  BY <1>3 DEF TiledIn
<1>5. TypeOK'
  BY <1>1, <1>4 DEF IInv, TypeOK
<1>6. TiledIn(mem', freePtr', dst', src') /\ NamedIn(mem', handles')
      /\ PrefixSum(mem', freePtr', dst', src', dirtySpace')
  BY <1>1, <1>3 DEF IInv
<1>7. Accounts' /\ Phases' /\ HeldPointersValid'
  BY <1>1, <1>6 DEF IInv, Accounts, Phases, HeldPointersValid, InUse
<1> QED
  BY <1>5, <1>6, <1>7 DEF IInv

LEMMA SeekDoneInv ==
  ASSUME IInv, SeekDone
  PROVE  IInv'
<1>1. /\ phase = "seek" /\ phase' = "slide"
      /\ UNCHANGED <<mem, handles, freePtr, handlesUsed, freeSpace, usedSpace, dirtySpace,
                     dataSpace, dst, src, asserted, held>>
  BY DEF SeekDone, pool, stats
<1>2. TypeOK' /\ TiledIn(mem, freePtr, dst, src)' /\ NamedIn(mem, handles)' /\ Accounts'
  BY <1>1 DEF IInv, TypeOK, TiledIn, NamedIn, Accounts, InUse, PrefixSum, Prefix, Nx
<1>3. Phases' /\ HeldPointersValid'
  BY <1>1 DEF IInv, Phases, HeldPointersValid
<1> QED
  BY <1>2, <1>3 DEF IInv

LEMMA SkipInv ==
  ASSUME IInv, Skip
  PROVE  IInv'
<1>1. /\ phase = "slide" /\ src < freePtr /\ mem[src].dirty
      /\ src' = Nx(mem, src)
      /\ UNCHANGED <<mem, handles, freePtr, handlesUsed, freeSpace, usedSpace, dirtySpace,
                     dataSpace, phase, dst, asserted, held>>
  BY Step DEF Skip, pool, stats
<1>2. TiledIn(mem, freePtr, dst, src) /\ PrefixSum(mem, freePtr, dst, src, dirtySpace)
  BY DEF IInv, Accounts
<1>3. TiledIn(mem, freePtr, dst, src') /\ PrefixSum(mem, freePtr, dst, src', dirtySpace)
  BY <1>1, <1>2, Basics, SkipIteration
<1>4. src' \in Nat
  BY <1>3 DEF TiledIn
<1>5. TypeOK'
  BY <1>1, <1>4 DEF IInv, TypeOK
<1>6. TiledIn(mem', freePtr', dst', src') /\ NamedIn(mem', handles')
      /\ PrefixSum(mem', freePtr', dst', src', dirtySpace')
  BY <1>1, <1>3 DEF IInv
<1>7. Accounts' /\ Phases' /\ HeldPointersValid'
  BY <1>1, <1>6 DEF IInv, Accounts, Phases, HeldPointersValid, InUse
<1> QED
  BY <1>5, <1>6, <1>7 DEF IInv

LEMMA MoveInv ==
  ASSUME IInv, Move
  PROVE  IInv'
<1> DEFINE h == mem[src].handle
<1>0. src < freePtr /\ After(src) = Nx(mem, src)
      /\ dst + BlockSize(mem[src]) = dst + Overhead + mem[src].size
  BY Step DEF Move
<1>1. /\ phase = "slide" /\ src < freePtr /\ ~mem[src].dirty
      /\ handles' = [handles EXCEPT ![h] = dst]
      /\ mem' = Slid(mem, dst, src)
      /\ dst' = dst + Overhead + mem[src].size /\ src' = Nx(mem, src)
      /\ UNCHANGED <<freePtr, handlesUsed, freeSpace, usedSpace, dirtySpace,
                     dataSpace, phase, asserted, held>>
  BY <1>0 DEF Move, Slid, Patched, stats
<1>2. TiledIn(mem, freePtr, dst, src) /\ NamedIn(mem, handles)
      /\ PrefixSum(mem, freePtr, dst, src, dirtySpace)
  BY DEF IInv, Accounts
<1>3. /\ src \in DOMAIN mem /\ HeapOK(mem')
      /\ TiledIn(mem', freePtr, dst', src') /\ NamedIn(mem', handles')
      /\ PrefixSum(mem', freePtr, dst', src', dirtySpace)
  BY <1>1, <1>2, Basics, MoveIteration
<1>4. src' \in Nat /\ dst' \in Nat /\ handles' \in [Handles -> Nat]
  BY <1>3 DEF TiledIn, NamedIn
<1>5. TypeOK'
  BY <1>1, <1>3, <1>4 DEF IInv, TypeOK, HeapOK
<1>6. InUse(handles') = InUse(handles)
  <2>1. handles[h] = src /\ h \in Handles
    BY <1>1, <1>2, <1>3, Basics, BlockFacts DEF NamedIn
  <2>2. dst # Null /\ src # Null
    BY <1>2 DEF TiledIn
  <2>3. \A g \in Handles : g # h => handles'[g] = handles[g]
    BY <1>1, Basics
  <2>4. handles'[h] = dst
    BY <1>1, <2>1, Basics
  <2> QED
    BY <2>1, <2>2, <2>3, <2>4 DEF InUse
<1>7. Accounts' /\ Phases' /\ HeldPointersValid'
  BY <1>1, <1>3, <1>6 DEF IInv, Accounts, Phases, HeldPointersValid
<1> QED
  BY <1>1, <1>3, <1>5, <1>7 DEF IInv

LEMMA FinishInv ==
  ASSUME IInv, Finish
  PROVE  IInv'
<1>1. /\ phase = "slide" /\ src >= freePtr
      /\ mem' = Cut(mem, dst) /\ freePtr' = dst
      /\ freeSpace' = freeSpace + dirtySpace /\ dirtySpace' = 0
      /\ dst' = HeapStart /\ src' = HeapStart /\ phase' = "threads"
      /\ asserted' \in BOOLEAN
      /\ UNCHANGED <<handles, handlesUsed, usedSpace, dataSpace, held>>
  BY DEF Finish, Cut, CanaryLost
<1>2. TiledIn(mem, freePtr, dst, src) /\ NamedIn(mem, handles)
      /\ PrefixSum(mem, freePtr, dst, src, dirtySpace)
  BY DEF IInv, Accounts
<1>3. /\ HeapOK(mem') /\ TiledIn(mem', freePtr', dst', src') /\ NamedIn(mem', handles')
      /\ PrefixSum(mem', freePtr', dst', src', dirtySpace')
      /\ dirtySpace = freePtr - dst /\ dst <= freePtr
  BY <1>1, <1>2, Basics, FinishIteration
<1>4. dst \in Nat /\ HeapStart <= dst
  BY <1>2 DEF TiledIn
<1>5. /\ freePtr' + freeSpace' = HeapEnd
      /\ usedSpace' + dirtySpace' = freePtr' - HeapStart
      /\ freePtr' \in HeapStart .. HeapEnd /\ freeSpace' \in 0 .. HeapSize
  <2>1. freePtr + freeSpace = HeapEnd /\ usedSpace + dirtySpace = freePtr - HeapStart
        /\ usedSpace \in Int /\ dirtySpace \in Int
    BY DEF IInv, Accounts, TypeOK
  <2> QED
    BY <1>1, <1>3, <1>4, <2>1, Basics, HeapFacts
<1>6. TypeOK'
  BY <1>1, <1>3, <1>5 DEF IInv, TypeOK, HeapOK
<1>7. Accounts' /\ Phases' /\ HeldPointersValid'
  BY <1>1, <1>3, <1>5 DEF IInv, Accounts, Phases, HeldPointersValid, InUse
<1> QED
  BY <1>3, <1>6, <1>7 DEF IInv

LEMMA StutterInv ==
  ASSUME IInv, UNCHANGED <<pool, stats, coll, held>>, asserted' \in BOOLEAN
  PROVE  IInv'
<1>1. UNCHANGED <<mem, handles, freePtr, handlesUsed, freeSpace, usedSpace, dirtySpace,
                  dataSpace, phase, dst, src, held>>
  BY DEF pool, stats, coll
<1>2. TypeOK'
  BY <1>1 DEF IInv, TypeOK
<1>3. TiledIn(mem, freePtr, dst, src)' /\ NamedIn(mem, handles)' /\ Accounts'
  BY <1>1 DEF IInv, TiledIn, NamedIn, Accounts, InUse, PrefixSum, Prefix, Nx
<1>4. Phases' /\ HeldPointersValid'
  BY <1>1 DEF IInv, Phases, HeldPointersValid
<1> QED
  BY <1>2, <1>3, <1>4 DEF IInv

(* Every step of the pool keeps the invariant, action by action.           *)
LEMMA NextInv == IInv /\ [Next]_vars => IInv'
<1> SUFFICES ASSUME IInv, [Next]_vars PROVE IInv'
  OBVIOUS
<1>1. ASSUME NEW h \in Handles, NEW size \in Sizes, NEW type \in Types, NEW d \in Data,
             Alloc(h, size, type, d)
      PROVE  IInv'
  BY <1>1, AllocInv
<1>2. ASSUME NEW size \in Sizes, AllocFails(size) \/ AllocWraps(size) PROVE IInv'
  <2>1. UNCHANGED <<pool, stats, coll, held>> /\ asserted' \in BOOLEAN
    BY <1>2 DEF AllocFails, AllocWraps, vars, IInv, TypeOK
  <2> QED
    BY <2>1, StutterInv
<1>3. ASSUME NEW h \in Handles, VerifyFails(h) PROVE IInv'
  <2>1. UNCHANGED <<pool, stats, coll, held>> /\ asserted' \in BOOLEAN
    BY <1>3 DEF VerifyFails
  <2> QED
    BY <2>1, StutterInv
<1>4. ASSUME NEW h \in Handles, Free(h) PROVE IInv'
  BY <1>4, FreeInv
<1>5. ASSUME NEW h \in Handles, GetPtr(h) PROVE IInv'
  BY <1>5, GetPtrInv
<1>6. ASSUME NEW h \in Handles, NEW size \in Sizes, NEW canary \in BOOLEAN,
             Realloc(h, size, canary)
      PROVE  IInv'
  BY <1>6, ReallocInv
<1>7. ASSUME NEW p \in held, NEW d \in Data, Write(p, d) PROVE IInv'
  BY <1>7, WriteInv
<1>8. CASE EndPass
  BY <1>8, EndPassInv
<1>9. CASE Collect
  BY <1>9, SeekInv, SeekDoneInv, SkipInv, MoveInv, FinishInv DEF Collect
<1>10. CASE UNCHANGED vars
  <2>1. UNCHANGED <<pool, stats, coll, held>> /\ asserted' \in BOOLEAN
    BY <1>10 DEF vars, IInv, TypeOK
  <2> QED
    BY <2>1, StutterInv
<1> QED
  BY <1>1, <1>2, <1>3, <1>4, <1>5, <1>6, <1>7, <1>8, <1>9, <1>10 DEF Next

THEOREM Invariance == Spec => []IInv
<1>1. Init => IInv
  BY InitInv
<1>2. IInv /\ [Next]_vars => IInv'
  BY NextInv
<1> QED
  BY <1>1, <1>2, PTL DEF Spec

(* free_space_ptr stays in the heap and free_space never wraps, whatever   *)
(* callers request and the collector does (memory.c:394-944).              *)
THEOREM TypeCorrect == Spec => []TypeOK
<1>1. IInv => TypeOK
  BY DEF IInv
<1> QED
  BY <1>1, Invariance, PTL

(* Table and headers agree between any two iterations of the collector     *)
(* (memory.c:834-925), in a heap of any size with any number of handles.   *)
THEOREM HandlesNameBlocksHolds == Spec => []HandlesNameBlocks
<1>1. IInv => HandlesNameBlocks
  BY Implied
<1> QED
  BY <1>1, Invariance, PTL

(* The header walk of the collector visits every block and stops at        *)
(* free_space_ptr (memory.c:849-908).                                      *)
THEOREM TiledHolds == Spec => []Tiled
<1>1. IInv => Tiled
  BY Implied
<1> QED
  BY <1>1, Invariance, PTL

(* The counters of mem_rt_data are exact: in particular the collector may  *)
(* add dirty_space to free_space without looking (memory.c:918-925).       *)
THEOREM SpaceAccountedHolds == Spec => []SpaceAccounted
<1>1. IInv => SpaceAccounted
  BY Implied
<1> QED
  BY <1>1, Invariance, PTL

(* The contract of mem2_vp_get_ptr (memory.c:685-693).                     *)
THEOREM HeldPointersHold == Spec => []HeldPointersValid
<1>1. IInv => HeldPointersValid
  BY DEF IInv
<1> QED
  BY <1>1, Invariance, PTL

-----------------------------------------------------------------------------
(* No assertion fails as long as callers keep to two rules: no reallocation*)
(* to a smaller size, and no request near the end of the 16-bit range.     *)

Intact == ~asserted /\ \A a \in DOMAIN mem : mem[a].canary

LEMMA IntactNext ==
  ASSUME ~Shrinking, \A size \in Sizes : size + Overhead < WordSize,
         IInv, Intact, [Next]_vars
  PROVE  Intact'
<1>1. \A h \in Handles : handles[h] # Null =>
        handles[h] \in DOMAIN mem /\ ~mem[handles[h]].dirty /\ mem[handles[h]].canary
  BY DEF IInv, NamedIn, Intact
<1>2. \A a \in DOMAIN mem : mem[a] \in Block
  BY Basics, BlockFacts
<1>3. ASSUME NEW h \in Handles, NEW size \in Sizes, NEW type \in Types, NEW d \in Data,
             Alloc(h, size, type, d)
      PROVE  Intact'
  BY <1>3 DEF Alloc, Put, Intact
<1>4. ASSUME NEW size \in Sizes, AllocFails(size) \/ AllocWraps(size) PROVE Intact'
  <2>1. size + Overhead < WordSize /\ size \in Nat
    BY SizeFacts
  <2>2. ~AllocWraps(size)
    BY <2>1, HeapFacts DEF AllocWraps
  <2> QED
    BY <1>4, <2>2 DEF AllocFails, vars, pool, Intact
<1>5. ASSUME NEW h \in Handles, VerifyFails(h) PROVE Intact'
  BY <1>1, <1>5 DEF VerifyFails, Valid
<1>6. ASSUME NEW h \in Handles, Free(h) PROVE Intact'
  <2>1. mem' = [mem EXCEPT ![handles[h]].dirty = TRUE] /\ asserted' = asserted
        /\ handles[h] \in DOMAIN mem
    BY <1>1, <1>6 DEF Free, Valid
  <2>2. \A a \in DOMAIN mem' : a \in DOMAIN mem /\ mem'[a].canary = mem[a].canary
    BY <1>2, <2>1, Basics DEF Block, HeapOK
  <2> QED
    BY <2>1, <2>2 DEF Intact
<1>7. ASSUME NEW h \in Handles, GetPtr(h) PROVE Intact'
  BY <1>7 DEF GetPtr, pool, Intact
<1>8. ASSUME NEW h \in Handles, NEW size \in Sizes, NEW canary \in BOOLEAN,
             Realloc(h, size, canary)
      PROVE  Intact'
  <2> DEFINE x == handles[h]
  <2> DEFINE m == [mem EXCEPT ![x].dirty = TRUE]
  <2> DEFINE b == [size |-> size, handle |-> h, type |-> mem[x].type,
                   dirty |-> FALSE, canary |-> canary, data |-> mem[x].data]
  <2>1. mem' = Put(m, freePtr, b) /\ asserted' = asserted /\ canary
    BY <1>8 DEF Realloc
  <2>2. x \in DOMAIN mem
    BY <1>1, <1>8 DEF Realloc, Valid
  <2>3. DOMAIN m = DOMAIN mem /\ \A a \in DOMAIN mem : m[a].canary = mem[a].canary
    BY <1>2, <2>2, Basics DEF Block, HeapOK
  <2>4. \A a \in DOMAIN Put(m, freePtr, b) : Put(m, freePtr, b)[a].canary
    BY <2>1, <2>3 DEF Put, Intact
  <2> QED
    BY <2>1, <2>4 DEF Intact
<1>9. ASSUME NEW p \in held, NEW d \in Data, Write(p, d) PROVE Intact'
  <2>1. mem' = [mem EXCEPT ![p.addr].data = d] /\ asserted' = asserted
        /\ p.addr \in DOMAIN mem
    BY <1>9 DEF Write, IInv, HeldPointersValid
  <2>2. \A a \in DOMAIN mem' : a \in DOMAIN mem /\ mem'[a].canary = mem[a].canary
    BY <1>2, <2>1, Basics DEF Block, HeapOK
  <2> QED
    BY <2>1, <2>2 DEF Intact
<1>10. CASE EndPass
  BY <1>10 DEF EndPass, pool, Intact
<1>11. CASE Seek \/ SeekDone \/ Skip
  BY <1>11 DEF Seek, SeekDone, Skip, pool, Intact
<1>12. CASE Move
  <2>1. src \in DOMAIN mem
    BY <1>12, Step DEF Move
  <2>2. asserted' = asserted /\ DOMAIN mem' \subseteq DOMAIN mem \cup {dst}
        /\ \A a \in DOMAIN mem' : mem'[a] = mem[IF a = dst THEN src ELSE a]
    BY <1>12 DEF Move
  <2>3. \A a \in DOMAIN mem' : mem'[a].canary
    BY <2>1, <2>2 DEF Intact
  <2> QED
    BY <2>2, <2>3 DEF Intact
<1>13. CASE Finish
  <2>1. ~asserted'
    BY <1>1, <1>13 DEF Finish, CanaryLost
  <2>2. \A a \in DOMAIN mem' : mem'[a] = mem[a] /\ a \in DOMAIN mem
    BY <1>13 DEF Finish
  <2> QED
    BY <2>1, <2>2 DEF Intact
<1>14. CASE UNCHANGED vars
  BY <1>14 DEF vars, pool, Intact
<1>15. CASE Collect
  BY <1>15, <1>11, <1>12, <1>13 DEF Collect
<1> QED
  BY <1>3, <1>4, <1>5, <1>6, <1>7, <1>8, <1>9, <1>10, <1>14, <1>15 DEF Next

(* Under those two rules none of the assertions of memory.c can fail       *)
(* (memory.c:349-391, 455, 742-762): every one of them reports a caller's   *)
(* mistake, never one of the manager's own.                                *)
THEOREM NoAssertHolds ==
  ASSUME ~Shrinking, \A size \in Sizes : size + Overhead < WordSize
  PROVE  Spec => []NoAssertFires
<1>1. Init => Intact
  BY DEF Init, Intact
<1>2. IInv /\ Intact /\ [Next]_vars => Intact'
  BY IntactNext
<1>3. Intact => NoAssertFires
  BY DEF Intact, NoAssertFires
<1> QED
  BY <1>1, <1>2, <1>3, Invariance, PTL DEF Spec

-----------------------------------------------------------------------------
(* The memory manager implements HandleStore: the collector and everything *)
(* else that moves or marks blocks is invisible behind the handles.        *)

Seen(b) == [size |-> b.size, type |-> b.type, data |-> b.data]

LEMMA ContentsIs ==
  /\ Contents  = [h \in InUse(handles) |-> Seen(mem[handles[h]])]
  /\ Contents' = [h \in InUse(handles') |-> Seen(mem'[handles'[h]])]
  BY DEF Contents, InUse, Seen

(* A step that keeps the entries in use and what their blocks show is a    *)
(* stutter of the store.                                                   *)
LEMMA Invisible ==
  ASSUME InUse(handles') = InUse(handles),
         \A h \in InUse(handles) : Seen(mem'[handles'[h]]) = Seen(mem[handles[h]])
  PROVE  UNCHANGED Contents
  BY ContentsIs

LEMMA AllocStep ==
  ASSUME IInv, NEW h \in Handles, NEW size \in Sizes, NEW type \in Types, NEW d \in Data,
         Alloc(h, size, type, d)
  PROVE  Store!Alloc(h, size, type, d)
<1> DEFINE b == [size |-> size, handle |-> h, type |-> type,
                 dirty |-> FALSE, canary |-> TRUE, data |-> d]
<1>1. /\ mem' = Put(mem, freePtr, b) /\ handles' = [handles EXCEPT ![h] = freePtr]
      /\ handles[h] = Null
  BY DEF Alloc, FirstFree
<1>2. freePtr # Null /\ freePtr \notin DOMAIN mem /\ h \notin InUse(handles)
      /\ InUse(handles') = InUse(handles) \cup {h}
  BY <1>1, Basics DEF InUse
<1>3. mem'[handles'[h]] = b
  BY <1>1, Basics DEF Put
<1>4. \A g \in InUse(handles) : g # h /\ mem'[handles'[g]] = mem[handles[g]]
  <2> TAKE g \in InUse(handles)
  <2>1. g \in Handles /\ g # h /\ handles[g] \in DOMAIN mem
    BY <1>2 DEF InUse, IInv, NamedIn
  <2> QED
    BY <1>1, <1>2, <2>1, Basics DEF Put
<1>5. Contents' = [g \in InUse(handles) \cup {h} |->
                     IF g = h THEN [size |-> size, type |-> type, data |-> d]
                              ELSE Contents[g]]
  BY <1>2, <1>3, <1>4, ContentsIs DEF Seen
<1>6. DOMAIN Contents = InUse(handles)
  BY ContentsIs
<1> QED
  BY <1>2, <1>5, <1>6 DEF Store!Alloc, Store!Live

LEMMA FreeStep ==
  ASSUME IInv, NEW h \in Handles, Free(h)
  PROVE  Store!Free(h)
<1>1. /\ mem' = [mem EXCEPT ![handles[h]].dirty = TRUE]
      /\ handles' = [handles EXCEPT ![h] = Null] /\ handles[h] # Null
  BY DEF Free, Valid, Cleared
<1>2. h \in InUse(handles) /\ InUse(handles') = InUse(handles) \ {h}
  BY <1>1, Basics DEF InUse
<1>3. \A g \in InUse(handles) \ {h} : mem'[handles'[g]] = mem[handles[g]]
  <2> TAKE g \in InUse(handles) \ {h}
  <2>1. g \in Handles /\ g # h /\ handles'[g] = handles[g] /\ handles[g] \in DOMAIN mem
        /\ handles[g] # handles[h]
    BY <1>1, Basics DEF InUse, IInv, NamedIn
  <2> QED
    BY <1>1, <2>1, Basics DEF HeapOK
<1>4. Contents' = [g \in InUse(handles) \ {h} |-> Contents[g]]
  BY <1>2, <1>3, ContentsIs
<1>5. DOMAIN Contents = InUse(handles)
  BY ContentsIs
<1> QED
  BY <1>2, <1>4, <1>5 DEF Store!Free, Store!Live

LEMMA ReallocStep ==
  ASSUME IInv, NEW h \in Handles, NEW size \in Sizes, NEW canary \in BOOLEAN,
         Realloc(h, size, canary)
  PROVE  Store!Realloc(h, size)
<1> DEFINE x == handles[h]
<1> DEFINE m == [mem EXCEPT ![x].dirty = TRUE]
<1> DEFINE b == [size |-> size, handle |-> h, type |-> mem[x].type,
                 dirty |-> FALSE, canary |-> canary, data |-> mem[x].data]
<1>1. /\ mem' = Put(m, freePtr, b) /\ handles' = [handles EXCEPT ![h] = freePtr]
      /\ x # Null
  BY DEF Realloc, Valid
<1>2. freePtr # Null /\ freePtr \notin DOMAIN mem /\ h \in InUse(handles)
      /\ InUse(handles') = InUse(handles)
  BY <1>1, Basics DEF InUse
<1>3. mem'[handles'[h]] = b
  BY <1>1, Basics DEF Put
<1>4. \A g \in InUse(handles) \ {h} : mem'[handles'[g]] = mem[handles[g]]
  <2> TAKE g \in InUse(handles) \ {h}
  <2>1. g \in Handles /\ g # h /\ handles'[g] = handles[g] /\ handles[g] \in DOMAIN mem
        /\ handles[g] # handles[h]
    BY <1>1, Basics DEF InUse, IInv, NamedIn
  <2>2. DOMAIN m = DOMAIN mem /\ m[handles[g]] = mem[handles[g]]
    BY <2>1, Basics DEF HeapOK
  <2>3. handles[g] # freePtr
    BY <1>2, <2>1
  <2> QED
    BY <1>1, <2>1, <2>2, <2>3 DEF Put
<1>5. Contents' = [Contents EXCEPT ![h] = [size |-> size, type |-> mem[x].type, data |-> mem[x].data]]
  BY <1>2, <1>3, <1>4, ContentsIs DEF Seen
<1>6. Contents[h] = [size |-> mem[x].size, type |-> mem[x].type, data |-> mem[x].data]
      /\ DOMAIN Contents = InUse(handles)
  BY <1>2, ContentsIs DEF Seen
<1>7. [Contents[h] EXCEPT !.size = size]
        = [size |-> size, type |-> mem[x].type, data |-> mem[x].data]
  BY <1>6
<1> QED
  BY <1>2, <1>5, <1>6, <1>7 DEF Store!Realloc, Store!Live

LEMMA WriteStep ==
  ASSUME IInv, NEW p \in held, NEW d \in Data, Write(p, d)
  PROVE  p.handle \in Handles /\ Store!Write(p.handle, d)
<1> DEFINE h == p.handle
<1>1. /\ mem' = [mem EXCEPT ![p.addr].data = d] /\ handles' = handles
      /\ p.addr \in DOMAIN mem /\ handles[h] = p.addr /\ h \in Handles
  BY DEF Write, IInv, HeldPointersValid, TypeOK
<1>2. h \in InUse(handles) /\ InUse(handles') = InUse(handles)
  BY <1>1, Basics DEF InUse
<1>3. \A g \in InUse(handles) \ {h} : mem'[handles'[g]] = mem[handles[g]]
  <2> TAKE g \in InUse(handles) \ {h}
  <2>1. g \in Handles /\ handles[g] \in DOMAIN mem /\ handles[g] # p.addr
    BY <1>1 DEF InUse, IInv, NamedIn
  <2> QED
    BY <1>1, <2>1, Basics DEF HeapOK
<1>4. mem'[handles'[h]] = [mem[p.addr] EXCEPT !.data = d] /\ mem[p.addr] \in Block
  BY <1>1, Basics, BlockFacts DEF HeapOK
<1>5. Seen(mem'[handles'[h]]) = [Seen(mem[p.addr]) EXCEPT !.data = d]
  BY <1>4 DEF Seen, Block
<1>6. Contents' = [Contents EXCEPT ![h] = [Contents[h] EXCEPT !.data = d]]
  BY <1>1, <1>2, <1>3, <1>5, ContentsIs
<1>7. DOMAIN Contents = InUse(handles)
  BY ContentsIs
<1> QED
  BY <1>1, <1>2, <1>6, <1>7 DEF Store!Write, Store!Live

LEMMA MoveStep ==
  ASSUME IInv, Move
  PROVE  UNCHANGED Contents
<1> DEFINE h == mem[src].handle
<1>1. /\ src \in DOMAIN mem /\ ~mem[src].dirty
      /\ handles' = [handles EXCEPT ![h] = dst] /\ mem' = Slid(mem, dst, src)
      /\ Nx(mem, src) = After(src)
  BY Step DEF Move, Slid, Patched
<1>2. handles[h] = src /\ h \in Handles /\ dst # Null /\ src # Null
  BY <1>1, Basics, BlockFacts DEF IInv, NamedIn, TiledIn
<1>3. InUse(handles') = InUse(handles)
  <2>1. \A g \in Handles : g # h => handles'[g] = handles[g]
    BY <1>1, Basics
  <2>2. handles'[h] = dst
    BY <1>1, <1>2, Basics
  <2> QED
    BY <1>2, <2>1, <2>2 DEF InUse
<1>4. ASSUME NEW g \in InUse(handles) PROVE mem'[handles'[g]] = mem[handles[g]]
  <2>1. CASE g = h
    <3>1. handles'[g] = dst
      BY <1>1, <1>2, <2>1, Basics
    <3>2. Slid(mem, dst, src)[dst] = mem[src]
      BY DEF Slid
    <3> QED
      BY <1>1, <1>2, <2>1, <3>1, <3>2
  <2>2. CASE g # h
    <3> DEFINE a == handles[g]
    <3>1. g \in Handles /\ handles'[g] = a /\ a \in DOMAIN mem /\ ~mem[a].dirty
          /\ mem[a].handle = g
      BY <1>1, <2>2, Basics DEF InUse, IInv, NamedIn
    <3>2. a # src /\ a \in Nat /\ dst \in Nat /\ src \in Nat
      BY <1>1, <2>2, <3>1, Basics DEF HeapOK, IInv, TiledIn
    <3>3. a < dst \/ a >= src
      BY <3>1, <3>2 DEF IInv, TiledIn
    <3>4. a < dst \/ (a >= Nx(mem, src) /\ a > src)
      BY <1>1, <3>1, <3>2, <3>3 DEF IInv, TiledIn
    <3>5. a # dst
      BY <3>2, <3>4 DEF IInv, TiledIn
    <3> QED
      BY <1>1, <3>1, <3>4, <3>5 DEF Slid
  <2> QED
    BY <2>1, <2>2
<1> QED
  BY <1>3, <1>4, Invisible

LEMMA FinishStep ==
  ASSUME IInv, Finish
  PROVE  UNCHANGED Contents
<1>1. handles' = handles /\ mem' = Cut(mem, dst) /\ src >= freePtr
  BY DEF Finish, Cut
<1>2. DOMAIN Cut(mem, dst) = {a \in DOMAIN mem : a < dst}
      /\ \A a \in DOMAIN mem : a < dst => Cut(mem, dst)[a] = mem[a]
  BY DEF Cut
<1>3. ASSUME NEW g \in InUse(handles) PROVE mem'[handles'[g]] = mem[handles[g]]
  <2> DEFINE a == handles[g]
  <2>1. a \in DOMAIN mem /\ ~mem[a].dirty
    BY DEF InUse, IInv, NamedIn
  <2>2. a \in Nat /\ Nx(mem, a) \in Nat /\ a < Nx(mem, a)
    BY <2>1, Basics, BlockFacts
  <2>3. a < dst \/ a >= src
    BY <2>1, <2>2 DEF IInv, TiledIn
  <2>4. a >= src => Nx(mem, a) <= freePtr
    BY <2>1, <2>2 DEF IInv, TiledIn
  <2>5. a < dst
    <3>1. src \in Nat /\ freePtr \in Nat
      BY DEF IInv, TiledIn
    <3> QED
      BY <1>1, <2>2, <2>3, <2>4, <3>1
  <2> QED
    BY <1>1, <1>2, <2>1, <2>5
<1> QED
  BY <1>1, <1>3, Invisible

LEMMA StoreInit == Init => Store!Init
<1> SUFFICES ASSUME Init PROVE Store!Init
  OBVIOUS
<1>1. InUse(handles) = {}
  BY DEF Init, InUse
<1>2. Contents = [h \in {} |-> Seen(mem[handles[h]])]
  BY <1>1, ContentsIs
<1> QED
  BY <1>2 DEF Store!Init

LEMMA StoreStep == IInv /\ [Next]_vars => [Store!Next]_Contents
<1> SUFFICES ASSUME IInv, [Next]_vars PROVE [Store!Next]_Contents
  OBVIOUS
<1>1. ASSUME UNCHANGED <<mem, handles>> PROVE UNCHANGED Contents
  BY <1>1, Invisible DEF InUse, Seen
<1>2. ASSUME NEW h \in Handles, NEW size \in Sizes, NEW type \in Types, NEW d \in Data,
             Alloc(h, size, type, d)
      PROVE  Store!Next
  BY <1>2, AllocStep DEF Store!Next
<1>3. ASSUME NEW size \in Sizes, AllocFails(size) \/ AllocWraps(size)
      PROVE  UNCHANGED Contents
  BY <1>1, <1>3 DEF AllocFails, AllocWraps, vars, pool
<1>4. ASSUME NEW h \in Handles, VerifyFails(h) PROVE UNCHANGED Contents
  BY <1>1, <1>4 DEF VerifyFails, pool
<1>5. ASSUME NEW h \in Handles, Free(h) PROVE Store!Next
  BY <1>5, FreeStep DEF Store!Next
<1>6. ASSUME NEW h \in Handles, GetPtr(h) PROVE UNCHANGED Contents
  BY <1>1, <1>6 DEF GetPtr, pool
<1>7. ASSUME NEW h \in Handles, NEW size \in Sizes, NEW canary \in BOOLEAN,
             Realloc(h, size, canary)
      PROVE  Store!Next
  BY <1>7, ReallocStep DEF Store!Next
<1>8. ASSUME NEW p \in held, NEW d \in Data, Write(p, d) PROVE Store!Next
  BY <1>8, WriteStep DEF Store!Next
<1>9. CASE EndPass
  BY <1>1, <1>9 DEF EndPass, pool
<1>10. CASE Collect
  <2>1. CASE Seek \/ SeekDone \/ Skip
    BY <1>1, <2>1 DEF Seek, SeekDone, Skip, pool
  <2> QED
    BY <1>10, <2>1, MoveStep, FinishStep DEF Collect
<1>11. CASE UNCHANGED vars
  BY <1>1, <1>11 DEF vars, pool
<1> QED
  BY <1>2, <1>3, <1>4, <1>5, <1>6, <1>7, <1>8, <1>9, <1>10, <1>11 DEF Next

(* Every behaviour of the memory manager, collections included, is a       *)
(* behaviour of the store of HandleStore.                                  *)
THEOREM Implements == Spec => Refines
<1>1. Init => Store!Init
  BY StoreInit
<1>2. IInv /\ [Next]_vars => [Store!Next]_Contents
  BY StoreStep
<1> QED
  BY <1>1, <1>2, Invariance, PTL DEF Spec, Refines, Store!Spec
=============================================================================

---------------------------- MODULE FlashProofs ----------------------------
(***************************************************************************)
(* Proofs about FlashFS: between two calls every block is in exactly one   *)
(* list, once, and a block that can be allocated is erased, however often  *)
(* power is lost anywhere but between a copied block's header and the mark *)
(* of the block that it replaces.                                          *)
(*                                                                         *)
(* The mark of a block says in which list it may be, and in a file's list  *)
(* at which place; so what has to be shown is that each list holds blocks  *)
(* of its mark, no block twice, and that no block is left out (Tables).    *)
(* A call takes blocks out of their lists and puts them into others; those *)
(* that are in none for the time being are its loose blocks.  Flash that a *)
(* loss of power may leave has the blocks of a file in different places    *)
(* and at most one block that looks free and is not erased (FlashOK): from *)
(* such a flash the mount makes tables of all blocks.                      *)
(***************************************************************************)
EXTENDS FlashFS, FiniteSetTheorems, TLAPS

-----------------------------------------------------------------------------
(* Sequences without repetition.                                           *)

LEMMA ToSetIs ==
  ASSUME NEW S, NEW q \in Seq(S)
  PROVE  /\ ToSet(q) = {q[i] : i \in 1 .. Len(q)} /\ ToSet(q) \subseteq S
         /\ \A b : Contains(q, b) <=> b \in ToSet(q)
BY DEF ToSet, Contains

LEMMA TailIs ==
  ASSUME NEW S, NEW q \in Seq(S), q # <<>>, IsInjective(q)
  PROVE  /\ Head(q) \in S /\ Head(q) \in ToSet(q)
         /\ Tail(q) \in Seq(S) /\ IsInjective(Tail(q)) /\ ToSet(Tail(q)) = ToSet(q) \ {Head(q)}
<1>1. /\ Len(q) \in Nat \ {0} /\ Head(q) = q[1] /\ q[1] \in S
      /\ Tail(q) \in Seq(S) /\ Len(Tail(q)) = Len(q) - 1
      /\ \A i \in 1 .. Len(q) - 1 : Tail(q)[i] = q[i + 1]
  OBVIOUS
<1>2. \A i, j \in 1 .. Len(q) : q[i] = q[j] => i = j
  BY DEF IsInjective
<1>3. IsInjective(Tail(q))
  BY <1>1, <1>2 DEF IsInjective
<1>6. ToSet(Tail(q)) = ToSet(q) \ {Head(q)}
  <2> DEFINE r == Tail(q)
  <2>0. ToSet(q) = {q[i] : i \in 1 .. Len(q)} /\ ToSet(r) = {r[i] : i \in 1 .. Len(q) - 1}
    BY <1>1, ToSetIs
  <2>3. \A i \in 1 .. Len(q) - 1 : r[i] = q[i + 1]
    BY <1>1
  <2> HIDE DEF r
  <2>1. \A b \in ToSet(r) : b \in ToSet(q) /\ b # Head(q)
    <3> SUFFICES ASSUME NEW i \in 1 .. Len(q) - 1 PROVE r[i] \in ToSet(q) /\ r[i] # Head(q)
      BY <2>0
    <3>1. i + 1 \in 1 .. Len(q) /\ i + 1 # 1 /\ 1 \in 1 .. Len(q) /\ r[i] = q[i + 1]
      BY <1>1, <2>3
    <3> QED
      BY <1>1, <1>2, <2>0, <3>1
  <2>2. \A b \in ToSet(q) \ {Head(q)} : b \in ToSet(r)
    <3> SUFFICES ASSUME NEW i \in 1 .. Len(q), i # 1 PROVE q[i] \in ToSet(r)
      BY <1>1, <2>0
    <3>1. i - 1 \in 1 .. Len(q) - 1 /\ q[i] = r[i - 1]
      BY <1>1, <2>3
    <3> QED
      BY <2>0, <3>1
  <2> QED
    BY <2>1, <2>2 DEF r
<1> QED
  BY <1>1, <1>3, <1>6, ToSetIs

LEMMA AppendIs ==
  ASSUME NEW S, NEW q \in Seq(S), NEW b \in S, b \notin ToSet(q), IsInjective(q)
  PROVE  /\ Append(q, b) \in Seq(S) /\ IsInjective(Append(q, b))
         /\ ToSet(Append(q, b)) = ToSet(q) \cup {b}
<1>1. /\ Append(q, b) \in Seq(S) /\ Len(Append(q, b)) = Len(q) + 1 /\ Append(q, b)[Len(q) + 1] = b
      /\ \A i \in 1 .. Len(q) : Append(q, b)[i] = q[i]
      /\ Len(q) \in Nat
  OBVIOUS
<1>2. \A i, j \in 1 .. Len(q) : q[i] = q[j] => i = j
  BY DEF IsInjective
<1>3. \A i \in 1 .. Len(q) : q[i] # b
  BY ToSetIs
<1>4. \A i \in 1 .. Len(q) + 1 : i = Len(q) + 1 \/ i \in 1 .. Len(q)
  BY <1>1
<1>5. IsInjective(Append(q, b))
  <2>1. DOMAIN Append(q, b) = 1 .. Len(q) + 1
    BY <1>1
  <2> QED
    BY <1>1, <1>2, <1>3, <1>4, <2>1 DEF IsInjective
<1>6. ToSet(Append(q, b)) = ToSet(q) \cup {b}
  <2> DEFINE r == Append(q, b)
  <2>0. r \in Seq(S) /\ Len(r) = Len(q) + 1
    BY <1>1
  <2>4. r[Len(q) + 1] = b /\ \A i \in 1 .. Len(q) : r[i] = q[i] /\ i \in 1 .. Len(q) + 1
    BY <1>1
  <2>5. Len(q) + 1 \in 1 .. Len(q) + 1
    BY <1>1
  <2> HIDE DEF r
  <2>1. ToSet(q) = {q[i] : i \in 1 .. Len(q)} /\ ToSet(r) = {r[i] : i \in 1 .. Len(q) + 1}
    <3>1. ToSet(r) = {r[i] : i \in 1 .. Len(r)}
      BY <2>0, ToSetIs
    <3> QED
      BY <2>0, <3>1, ToSetIs
  <2>2. \A c \in ToSet(r) : c \in ToSet(q) \cup {b}
    BY <1>4, <2>1, <2>4
  <2>3. \A c \in ToSet(q) \cup {b} : c \in ToSet(r)
    BY <2>1, <2>4, <2>5
  <2> QED
    BY <2>2, <2>3 DEF r
<1> QED
  BY <1>1, <1>5, <1>6

LEMMA RemoveAtIs ==
  ASSUME NEW S, NEW q \in Seq(S), IsInjective(q), NEW k \in 1 .. Len(q)
  PROVE  /\ RemoveAt(q, k) \in Seq(S) /\ IsInjective(RemoveAt(q, k))
         /\ ToSet(RemoveAt(q, k)) = ToSet(q) \ {q[k]}
<1> DEFINE r == RemoveAt(q, k)
<1>1. /\ r \in Seq(S) /\ Len(r) = Len(q) - 1 /\ Len(q) \in Nat \ {0}
      /\ \A i \in 1 .. Len(q) - 1 : r[i] = IF i < k THEN q[i] ELSE q[i + 1]
  <2>1. /\ SubSeq(q, 1, k - 1) \in Seq(S) /\ Len(SubSeq(q, 1, k - 1)) = k - 1
        /\ \A i \in 1 .. k - 1 : SubSeq(q, 1, k - 1)[i] = q[i]
    OBVIOUS
  <2>2. /\ SubSeq(q, k + 1, Len(q)) \in Seq(S) /\ Len(SubSeq(q, k + 1, Len(q))) = Len(q) - k
        /\ \A i \in 1 .. Len(q) - k : SubSeq(q, k + 1, Len(q))[i] = q[k + i]
    OBVIOUS
  <2> DEFINE x == SubSeq(q, 1, k - 1)
             y == SubSeq(q, k + 1, Len(q))
  <2>3. r = x \o y /\ x \in Seq(S) /\ y \in Seq(S)
    BY <2>1, <2>2 DEF RemoveAt
  <2>4. Len(x) = k - 1 /\ Len(y) = Len(q) - k /\ Len(q) \in Nat
    BY <2>1, <2>2
  <2>5. (\A i \in 1 .. k - 1 : x[i] = q[i]) /\ (\A i \in 1 .. Len(q) - k : y[i] = q[k + i])
    BY <2>1, <2>2
  <2> HIDE DEF r, x, y
  <2>6. r \in Seq(S) /\ Len(r) = Len(q) - 1
    BY <2>3, <2>4
  <2>7. ASSUME NEW i \in 1 .. Len(q) - 1 PROVE r[i] = IF i < k THEN q[i] ELSE q[i + 1]
    <3>1. CASE i < k
      <4>1. i \in 1 .. k - 1 /\ i \in 1 .. Len(x)
        BY <2>4, <3>1
      <4> QED
        BY <2>3, <2>5, <3>1, <4>1
    <3>2. CASE ~(i < k)
      <4>1. i - (k - 1) \in 1 .. Len(q) - k /\ i > Len(x) /\ i <= Len(x) + Len(y)
        BY <2>4, <3>2
      <4>2. r[i] = y[i - Len(x)]
        BY <2>3, <2>4, <4>1
      <4>3. y[i - (k - 1)] = q[k + (i - (k - 1))] /\ k + (i - (k - 1)) = i + 1
        BY <2>5, <4>1
      <4> QED
        BY <2>4, <3>2, <4>2, <4>3
    <3> QED
      BY <3>1, <3>2
  <2> QED
    BY <2>4, <2>6, <2>7
<1> HIDE DEF r
<1>2. \A i, j \in 1 .. Len(q) : q[i] = q[j] => i = j
  BY DEF IsInjective
<1>3. IsInjective(r)
  BY <1>1, <1>2 DEF IsInjective
<1>4. ToSet(r) = ToSet(q) \ {q[k]}
  <2>0. ToSet(q) = {q[i] : i \in 1 .. Len(q)} /\ ToSet(r) = {r[i] : i \in 1 .. Len(r)}
    BY <1>1, ToSetIs
  <2>1. \A b \in ToSet(r) : b \in ToSet(q) \ {q[k]}
    <3> SUFFICES ASSUME NEW i \in 1 .. Len(r) PROVE r[i] \in ToSet(q) \ {q[k]}
      BY <2>0
    <3>1. i \in 1 .. Len(q) /\ i + 1 \in 1 .. Len(q)
      BY <1>1
    <3>2. r[i] = IF i < k THEN q[i] ELSE q[i + 1]
      BY <1>1
    <3> QED
      BY <1>2, <2>0, <3>1, <3>2
  <2>2. \A b \in ToSet(q) \ {q[k]} : b \in ToSet(r)
    <3> SUFFICES ASSUME NEW i \in 1 .. Len(q), i # k PROVE q[i] \in ToSet(r)
      BY <2>0
    <3>1. CASE i < k
      BY <1>1, <2>0, <3>1
    <3>2. CASE i > k
      <4>1. i - 1 \in 1 .. Len(r) /\ r[i - 1] = q[i]
        BY <1>1, <3>2
      <4> QED
        BY <1>1, <2>0, <4>1
    <3> QED
      BY <3>1, <3>2
  <2> QED
    BY <2>1, <2>2
<1> QED
  BY <1>1, <1>3, <1>4 DEF r

-----------------------------------------------------------------------------
(* Blocks and the flash.                                                   *)

Fresh == {"free", "part"}

IsBlock(x) ==
  /\ DOMAIN x = {"mark", "file", "num", "pages", "clear"}
  /\ x.mark \in Fresh \cup {"torn", "unread", "valid", "dirty"}

IsFlash(fl) == fl = [b \in Blocks |-> fl[b]] /\ \A b \in Blocks : IsBlock(fl[b])

Spoilt(x)  == x.mark \in Fresh /\ x # Erased
Twins(x, y) == x.mark = "valid" /\ y.mark = "valid" /\ x.file = y.file /\ x.num = y.num
Placed(x)  == x.mark = "valid" => x.file \in Files /\ x.num \in Nat

(* What a loss of power may leave.                                         *)
Sane(fl, B) ==
  /\ \A b \in B : Placed(fl[b])
  /\ \A a, b \in B : Twins(fl[a], fl[b]) \/ (Spoilt(fl[a]) /\ Spoilt(fl[b])) => a = b

FlashOK(fl) == IsFlash(fl) /\ Sane(fl, Blocks)

(* A flash but for one block.                                              *)
SaneBut(fl, b) == IsFlash(fl) /\ Sane(fl, Blocks \ {b})

LEMMA BlocksAre ==
  /\ IsBlock(Erased) /\ Erased.mark = "free"
  /\ \A m \in Fresh \cup {"torn", "unread", "valid", "dirty"} : IsBlock(Spoiled(m)) /\ Spoiled(m).mark = m
  /\ \A m \in {"torn", "unread", "dirty"} : ~Spoilt(Spoiled(m))
<1>1. ASSUME NEW m PROVE DOMAIN Spoiled(m) = {"mark", "file", "num", "pages", "clear"} /\ Spoiled(m).mark = m
  BY DEF Erased, Spoiled
<1>2. ASSUME NEW m \in Fresh \cup {"torn", "unread", "valid", "dirty"}
      PROVE  IsBlock(Spoiled(m)) /\ Spoiled(m).mark = m
  BY <1>1 DEF IsBlock, Fresh
<1>3. IsBlock(Erased) /\ Erased.mark = "free"
  BY DEF IsBlock, Erased, Fresh
<1>4. ASSUME NEW m \in {"torn", "unread", "dirty"} PROVE ~Spoilt(Spoiled(m))
  <2>1. Spoiled(m).mark = m
    BY <1>1
  <2> QED
    BY <2>1 DEF Spoilt, Fresh
<1> QED
  BY <1>2, <1>3, <1>4

(* One block of a flash is written.                                        *)
LEMMA WrittenIs ==
  ASSUME NEW fl, IsFlash(fl), NEW b \in Blocks, NEW v, IsBlock(v)
  PROVE  /\ IsFlash([fl EXCEPT ![b] = v]) /\ [fl EXCEPT ![b] = v][b] = v
         /\ \A a \in Blocks \ {b} : [fl EXCEPT ![b] = v][a] = fl[a]
<1>1. DOMAIN fl = Blocks
  BY DEF IsFlash
<1> DEFINE g == [fl EXCEPT ![b] = v]
<1>2. DOMAIN g = Blocks /\ g = [a \in Blocks |-> g[a]] /\ g[b] = v /\ \A a \in Blocks \ {b} : g[a] = fl[a]
  BY <1>1
<1> HIDE DEF g
<1>3. \A a \in Blocks : IsBlock(g[a])
  BY <1>2 DEF IsFlash
<1> QED
  BY <1>2, <1>3 DEF g, IsFlash

LEMMA SaneWritten ==
  ASSUME NEW fl, NEW b \in Blocks, SaneBut(fl, b), NEW v, IsBlock(v), Placed(v),
         \A a \in Blocks \ {b} : ~Twins(fl[a], v) /\ ~(Spoilt(fl[a]) /\ Spoilt(v))
  PROVE  FlashOK([fl EXCEPT ![b] = v])
<1> DEFINE g == [fl EXCEPT ![b] = v]
<1>1. IsFlash(g) /\ g[b] = v /\ \A a \in Blocks \ {b} : g[a] = fl[a]
  BY WrittenIs DEF SaneBut
<1> HIDE DEF g
<1>2. \A a \in Blocks \ {b} : ~Twins(v, fl[a])
  BY DEF Twins
<1>3. \A a \in Blocks : Placed(g[a])
  BY <1>1 DEF SaneBut, Sane
<1>4. \A a, c \in Blocks : Twins(g[a], g[c]) \/ (Spoilt(g[a]) /\ Spoilt(g[c])) => a = c
  <2> SUFFICES ASSUME NEW a \in Blocks, NEW c \in Blocks, a # c
               PROVE  ~Twins(g[a], g[c]) /\ ~(Spoilt(g[a]) /\ Spoilt(g[c]))
    OBVIOUS
  <2>1. CASE a = b
    BY <1>1, <1>2, <2>1
  <2>2. CASE c = b
    BY <1>1, <2>2
  <2>3. CASE a # b /\ c # b
    <3>1. a \in Blocks \ {b} /\ c \in Blocks \ {b} /\ g[a] = fl[a] /\ g[c] = fl[c]
      BY <1>1, <2>3
    <3> QED
      BY <3>1 DEF SaneBut, Sane
  <2> QED
    BY <2>1, <2>2, <2>3
<1> QED
  BY <1>1, <1>3, <1>4 DEF g, FlashOK, Sane

LEMMA SaneSpoiled ==
  ASSUME NEW fl, NEW b \in Blocks, SaneBut(fl, b), NEW m \in {"torn", "unread", "dirty"}
  PROVE  FlashOK([fl EXCEPT ![b] = Spoiled(m)])
<1>1. IsBlock(Spoiled(m)) /\ Spoiled(m).mark = m /\ ~Spoilt(Spoiled(m))
  BY BlocksAre
<1>2. Placed(Spoiled(m)) /\ \A x : ~Twins(x, Spoiled(m))
  BY <1>1 DEF Placed, Twins
<1> QED
  BY <1>1, <1>2, SaneWritten

LEMMA SaneOften ==
  ASSUME NEW fl, NEW b \in Blocks
  PROVE  /\ FlashOK(fl) => SaneBut(fl, b)
         /\ \A v : SaneBut(fl, b) /\ IsBlock(v) => SaneBut([fl EXCEPT ![b] = v], b)
<1>1. FlashOK(fl) => SaneBut(fl, b)
  BY DEF FlashOK, SaneBut, Sane
<1>2. ASSUME NEW v, SaneBut(fl, b), IsBlock(v) PROVE SaneBut([fl EXCEPT ![b] = v], b)
  <2> DEFINE g == [fl EXCEPT ![b] = v]
  <2>1. IsFlash(g) /\ \A a \in Blocks \ {b} : g[a] = fl[a]
    BY <1>2, WrittenIs DEF SaneBut
  <2> HIDE DEF g
  <2>2. Sane(g, Blocks \ {b})
    BY <1>2, <2>1 DEF SaneBut, Sane
  <2> QED
    BY <2>1, <2>2 DEF SaneBut, g
<1> QED
  BY <1>1, <1>2

-----------------------------------------------------------------------------
(* The tables: the lists hold what belongs in them.                        *)

HasBlock(L, b) == \E f \in Files : \E i \in 1 .. Len(L[f]) : L[f][i] = b

InOrder(fl, f, q) ==
  \A i \in 1 .. Len(q) : fl[q[i]].mark = "valid" /\ fl[q[i]].file = f /\ fl[q[i]].num = i - 1

ListsOK(free, dirty, L) ==
  /\ free \in Seq(Blocks) /\ IsInjective(free)
  /\ dirty \in Seq(Blocks) /\ IsInjective(dirty)
  /\ L \in [Files -> Seq(Blocks)]

(* X are the loose blocks, and Z blocks that may be spoilt.                *)
Marked(fl, free, dirty, L, Z) ==
  /\ \A b \in ToSet(free) : fl[b].mark \in Fresh /\ (b \notin Z => fl[b] = Erased)
  /\ \A b \in ToSet(dirty) : IsDirty(fl, b)
  /\ \A f \in Files : InOrder(fl, f, L[f])

Kept(free, dirty, L, b) == b \in ToSet(free) \/ b \in ToSet(dirty) \/ HasBlock(L, b)

Tables(fl, free, dirty, L, X, Z) ==
  /\ ListsOK(free, dirty, L) /\ Marked(fl, free, dirty, L, Z)
  /\ X = {b \in Blocks : ~Kept(free, dirty, L, b)}

(* Where a block is, its mark tells.                                       *)
LEMMA KeptIs ==
  ASSUME NEW fl, NEW free, NEW dirty, NEW L, NEW X, NEW Z, Tables(fl, free, dirty, L, X, Z), NEW b \in Blocks
  PROVE  /\ b \in ToSet(free) => fl[b].mark \in Fresh
         /\ b \in ToSet(dirty) => fl[b].mark \in {"dirty", "torn"}
         /\ HasBlock(L, b) => /\ fl[b].mark = "valid" /\ fl[b].file \in Files /\ fl[b].num \in Nat
                              /\ fl[b].num + 1 \in 1 .. Len(L[fl[b].file]) /\ L[fl[b].file][fl[b].num + 1] = b
<1>1. ASSUME HasBlock(L, b)
      PROVE  /\ fl[b].mark = "valid" /\ fl[b].file \in Files /\ fl[b].num \in Nat
             /\ fl[b].num + 1 \in 1 .. Len(L[fl[b].file]) /\ L[fl[b].file][fl[b].num + 1] = b
  <2>1. PICK f \in Files : \E i \in 1 .. Len(L[f]) : L[f][i] = b
    BY <1>1 DEF HasBlock
  <2>2. PICK i \in 1 .. Len(L[f]) : L[f][i] = b
    BY <2>1
  <2>3. fl[b].mark = "valid" /\ fl[b].file = f /\ fl[b].num = i - 1
    BY <2>2 DEF Tables, Marked, InOrder
  <2> QED
    BY <2>2, <2>3
<1>2. b \in ToSet(free) => fl[b].mark \in Fresh
  BY DEF Tables, Marked
<1>3. b \in ToSet(dirty) => fl[b].mark \in {"dirty", "torn"}
  BY DEF Tables, Marked, IsDirty
<1> QED
  BY <1>1, <1>2, <1>3

(* The blocks in the lists are as after no loss of power.                  *)
LEMMA TablesSane ==
  ASSUME NEW fl, IsFlash(fl), NEW free, NEW dirty, NEW L, NEW X, Tables(fl, free, dirty, L, X, {})
  PROVE  /\ Sane(fl, Blocks \ X)
         /\ \A a \in Blocks \ X : ~Spoilt(fl[a]) /\ (fl[a].mark = "valid" => HasBlock(L, a))
<1>1. ASSUME NEW a \in Blocks \ X
      PROVE  ~Spoilt(fl[a]) /\ (fl[a].mark = "valid" => HasBlock(L, a)) /\ Placed(fl[a])
  <2>1. Kept(free, dirty, L, a)
    BY DEF Tables
  <2>2. a \in ToSet(free) => fl[a] = Erased
    BY DEF Tables, Marked
  <2>3. a \in ToSet(dirty) => fl[a].mark \in {"dirty", "torn"}
    BY KeptIs
  <2>4. HasBlock(L, a) => fl[a].mark = "valid" /\ fl[a].file \in Files /\ fl[a].num \in Nat
    BY KeptIs
  <2> QED
    BY <2>1, <2>2, <2>3, <2>4, BlocksAre DEF Kept, Spoilt, Placed, Fresh
<1>2. ASSUME NEW a \in Blocks \ X, NEW b \in Blocks \ X, Twins(fl[a], fl[b]) PROVE a = b
  <2>1. HasBlock(L, a) /\ HasBlock(L, b) /\ fl[a].file = fl[b].file /\ fl[a].num = fl[b].num
    BY <1>1, <1>2 DEF Twins
  <2>2. L[fl[a].file][fl[a].num + 1] = a /\ L[fl[b].file][fl[b].num + 1] = b
    BY <2>1, KeptIs
  <2> QED
    BY <2>1, <2>2
<1> QED
  BY <1>1, <1>2 DEF Sane

LEMMA AllSane ==
  ASSUME NEW fl, IsFlash(fl), NEW free, NEW dirty, NEW L, Tables(fl, free, dirty, L, {}, {})
  PROVE  FlashOK(fl)
<1>1. Blocks \ {} = Blocks
  OBVIOUS
<1> QED
  BY <1>1, TablesSane DEF FlashOK

(* A flash with one loose block, which is written: it may then have the    *)
(* place of none, or the next one in a file.                               *)
LEMMA LooseWritten ==
  ASSUME NEW fl, IsFlash(fl), NEW free, NEW dirty, NEW L, NEW b \in Blocks, Tables(fl, free, dirty, L, {b}, {}),
         NEW v, IsBlock(v),
         v.mark = "valid" => v.file \in Files /\ v.num \in Nat /\ ~(v.num + 1 \in 1 .. Len(L[v.file]))
  PROVE  FlashOK([fl EXCEPT ![b] = v])
<1>1. SaneBut(fl, b) /\ \A a \in Blocks \ {b} : ~Spoilt(fl[a]) /\ (fl[a].mark = "valid" => HasBlock(L, a))
  BY TablesSane DEF SaneBut
<1>2. ASSUME NEW a \in Blocks \ {b}, Twins(fl[a], v) PROVE FALSE
  <2>1. HasBlock(L, a) /\ v.mark = "valid" /\ fl[a].file = v.file /\ fl[a].num = v.num
    BY <1>1, <1>2 DEF Twins
  <2>2. fl[a].num + 1 \in 1 .. Len(L[fl[a].file])
    BY <2>1, KeptIs
  <2> QED
    BY <2>1, <2>2
<1>3. Placed(v)
  BY DEF Placed
<1> QED
  BY <1>1, <1>2, <1>3, SaneWritten

(* A loose block is written.                                               *)
LEMMA SetLoose ==
  ASSUME NEW fl, IsFlash(fl), NEW free, NEW dirty, NEW L, NEW X, NEW Z, Tables(fl, free, dirty, L, X, Z),
         NEW b \in X, NEW v
  PROVE  Tables([fl EXCEPT ![b] = v], free, dirty, L, X, Z)
<1> DEFINE g == [fl EXCEPT ![b] = v]
<1>1. b \in Blocks /\ b \notin ToSet(free) /\ b \notin ToSet(dirty) /\ ~HasBlock(L, b)
  BY DEF Tables, Kept
<1>2. ToSet(free) \subseteq Blocks /\ ToSet(dirty) \subseteq Blocks
  BY ToSetIs DEF Tables, ListsOK
<1>3. \A a \in Blocks : a # b => g[a] = fl[a]
  BY <1>1 DEF IsFlash
<1> HIDE DEF g
<1>4. ASSUME NEW f \in Files PROVE InOrder(g, f, L[f])
  <2> SUFFICES ASSUME NEW i \in 1 .. Len(L[f]) PROVE g[L[f][i]] = fl[L[f][i]]
    BY DEF Tables, Marked, InOrder
  <2>1. L[f][i] \in Blocks /\ L[f][i] # b
    BY <1>1 DEF Tables, ListsOK, HasBlock
  <2> QED
    BY <1>3, <2>1
<1>5. \A a \in ToSet(free) \cup ToSet(dirty) : g[a] = fl[a]
  BY <1>1, <1>2, <1>3
<1>6. Marked(g, free, dirty, L, Z)
  BY <1>4, <1>5 DEF Tables, Marked, IsDirty
<1> QED
  BY <1>6 DEF Tables, g

(* A block of a file is written, and stays at its place.                   *)
LEMMA SetKept ==
  ASSUME NEW fl, IsFlash(fl), NEW free, NEW dirty, NEW L, NEW X, NEW Z, Tables(fl, free, dirty, L, X, Z),
         NEW b \in Blocks, fl[b].mark = "valid",
         NEW v, v.mark = "valid", v.file = fl[b].file, v.num = fl[b].num
  PROVE  Tables([fl EXCEPT ![b] = v], free, dirty, L, X, Z)
<1> DEFINE g == [fl EXCEPT ![b] = v]
<1>1. b \notin ToSet(free) /\ b \notin ToSet(dirty)
  BY KeptIs DEF Fresh
<1>2. ToSet(free) \subseteq Blocks /\ ToSet(dirty) \subseteq Blocks
  BY ToSetIs DEF Tables, ListsOK
<1>3. g[b] = v /\ \A a \in Blocks : a # b => g[a] = fl[a]
  BY <1>1 DEF IsFlash
<1> HIDE DEF g
<1>4. \A a \in Blocks : fl[a].mark = "valid" => g[a].mark = "valid" /\ g[a].file = fl[a].file /\ g[a].num = fl[a].num
  BY <1>3
<1>5. ASSUME NEW f \in Files PROVE InOrder(g, f, L[f])
  <2> SUFFICES ASSUME NEW i \in 1 .. Len(L[f])
               PROVE g[L[f][i]].mark = "valid" /\ g[L[f][i]].file = f /\ g[L[f][i]].num = i - 1
    BY DEF InOrder
  <2>1. L[f][i] \in Blocks
    BY DEF Tables, ListsOK
  <2>2. fl[L[f][i]].mark = "valid" /\ fl[L[f][i]].file = f /\ fl[L[f][i]].num = i - 1
    BY DEF Tables, Marked, InOrder
  <2> QED
    BY <1>4, <2>1, <2>2
<1>6. \A a \in ToSet(free) \cup ToSet(dirty) : g[a] = fl[a]
  BY <1>1, <1>2, <1>3
<1>7. Marked(g, free, dirty, L, Z)
  BY <1>5, <1>6 DEF Tables, Marked, IsDirty
<1> QED
  BY <1>7 DEF Tables, g

(* The first block is taken from the free list, or from the dirty one.     *)
LEMMA TakeFree ==
  ASSUME NEW fl, NEW free, NEW dirty, NEW L, Tables(fl, free, dirty, L, {}, {}), free # <<>>
  PROVE  /\ Head(free) \in Blocks /\ fl[Head(free)] = Erased
         /\ Tables(fl, Tail(free), dirty, L, {Head(free)}, {})
<1> DEFINE b == Head(free)
           r == Tail(free)
<1>1. /\ b \in Blocks /\ b \in ToSet(free) /\ r \in Seq(Blocks) /\ IsInjective(r)
      /\ ToSet(r) = ToSet(free) \ {b}
  BY TailIs DEF Tables, ListsOK
<1> HIDE DEF b, r
<1>2. fl[b] = Erased /\ fl[b].mark \in Fresh
  BY <1>1 DEF Tables, Marked
<1>3. b \notin ToSet(dirty) /\ ~HasBlock(L, b)
  BY <1>1, <1>2, KeptIs DEF Fresh
<1>4. ListsOK(r, dirty, L) /\ Marked(fl, r, dirty, L, {})
  BY <1>1 DEF Tables, ListsOK, Marked
<1>5. {b} = {a \in Blocks : ~Kept(r, dirty, L, a)}
  BY <1>1, <1>3 DEF Tables, Kept
<1> QED
  BY <1>1, <1>2, <1>4, <1>5 DEF Tables, b, r

LEMMA TakeDirty ==
  ASSUME NEW fl, NEW free, NEW dirty, NEW L, Tables(fl, free, dirty, L, {}, {}), dirty # <<>>
  PROVE  Head(dirty) \in Blocks /\ Tables(fl, free, Tail(dirty), L, {Head(dirty)}, {})
<1> DEFINE b == Head(dirty)
           r == Tail(dirty)
<1>1. /\ b \in Blocks /\ b \in ToSet(dirty) /\ r \in Seq(Blocks) /\ IsInjective(r)
      /\ ToSet(r) = ToSet(dirty) \ {b}
  BY TailIs DEF Tables, ListsOK
<1> HIDE DEF b, r
<1>2. fl[b].mark \in {"dirty", "torn"}
  BY <1>1, KeptIs
<1>3. b \notin ToSet(free) /\ ~HasBlock(L, b)
  BY <1>1, <1>2, KeptIs DEF Fresh
<1>4. ListsOK(free, r, L) /\ Marked(fl, free, r, L, {})
  BY <1>1 DEF Tables, ListsOK, Marked
<1>5. {b} = {a \in Blocks : ~Kept(free, r, L, a)}
  BY <1>1, <1>3 DEF Tables, Kept
<1> QED
  BY <1>1, <1>4, <1>5 DEF Tables, b, r

(* A loose block is put into a list.                                       *)
LEMMA PutFree ==
  ASSUME NEW fl, NEW free, NEW dirty, NEW L, NEW X, NEW Z, Tables(fl, free, dirty, L, X, Z),
         NEW b \in X, fl[b].mark \in Fresh, b \notin Z => fl[b] = Erased
  PROVE  Tables(fl, Append(free, b), dirty, L, X \ {b}, Z)
<1> DEFINE r == Append(free, b)
<1>1. b \in Blocks /\ b \notin ToSet(free)
  BY DEF Tables, Kept
<1>2. r \in Seq(Blocks) /\ IsInjective(r) /\ ToSet(r) = ToSet(free) \cup {b}
  BY <1>1, AppendIs DEF Tables, ListsOK
<1> HIDE DEF r
<1>3. ListsOK(r, dirty, L) /\ Marked(fl, r, dirty, L, Z)
  BY <1>2 DEF Tables, ListsOK, Marked
<1>4. X \ {b} = {a \in Blocks : ~Kept(r, dirty, L, a)}
  BY <1>2 DEF Tables, Kept
<1> QED
  BY <1>3, <1>4 DEF Tables, r

LEMMA PutDirty ==
  ASSUME NEW fl, NEW free, NEW dirty, NEW L, NEW X, NEW Z, Tables(fl, free, dirty, L, X, Z),
         NEW b \in X, fl[b].mark \in {"dirty", "torn"}
  PROVE  Tables(fl, free, Append(dirty, b), L, X \ {b}, Z) /\ ~Contains(dirty, b)
<1> DEFINE r == Append(dirty, b)
<1>1. b \in Blocks /\ b \notin ToSet(dirty)
  BY DEF Tables, Kept
<1>2. r \in Seq(Blocks) /\ IsInjective(r) /\ ToSet(r) = ToSet(dirty) \cup {b} /\ ~Contains(dirty, b)
  BY <1>1, AppendIs, ToSetIs DEF Tables, ListsOK
<1> HIDE DEF r
<1>3. ListsOK(free, r, L) /\ Marked(fl, free, r, L, Z)
  BY <1>2 DEF Tables, ListsOK, Marked, IsDirty
<1>4. X \ {b} = {a \in Blocks : ~Kept(free, r, L, a)}
  BY <1>2 DEF Tables, Kept
<1> QED
  BY <1>2, <1>3, <1>4 DEF Tables, r

(* A file's list is another, and so are the loose blocks.                  *)
LEMMA Relist ==
  ASSUME NEW fl, NEW free, NEW dirty, NEW L, NEW X, NEW Z, Tables(fl, free, dirty, L, X, Z),
         NEW f \in Files, NEW q \in Seq(Blocks), InOrder(fl, f, q),
         NEW Y, Y = {b \in Blocks : b \notin ToSet(q) /\ (b \in X \/ b \in ToSet(L[f]))}
  PROVE  Tables(fl, free, dirty, [L EXCEPT ![f] = q], Y, Z)
<1> DEFINE M == [L EXCEPT ![f] = q]
<1>1. M \in [Files -> Seq(Blocks)] /\ M[f] = q /\ \A g \in Files \ {f} : M[g] = L[g]
  BY DEF Tables, ListsOK
<1> HIDE DEF M
<1>2. Marked(fl, free, dirty, M, Z) /\ ListsOK(free, dirty, M)
  BY <1>1 DEF Tables, Marked, ListsOK
<1>3. /\ ToSet(q) = {q[i] : i \in 1 .. Len(q)} /\ ToSet(q) \subseteq Blocks
      /\ ToSet(L[f]) = {L[f][i] : i \in 1 .. Len(L[f])}
  BY ToSetIs DEF Tables, ListsOK
<1>4. \A b : HasBlock(M, b) <=> b \in ToSet(q) \/ \E g \in Files \ {f} : \E i \in 1 .. Len(L[g]) : L[g][i] = b
  BY <1>1, <1>3 DEF HasBlock
<1>5. \A b : HasBlock(L, b) <=> b \in ToSet(L[f]) \/ \E g \in Files \ {f} : \E i \in 1 .. Len(L[g]) : L[g][i] = b
  BY <1>3 DEF HasBlock
<1>6. ASSUME NEW b \in Blocks, b \in ToSet(L[f])
      PROVE  b \notin ToSet(free) /\ b \notin ToSet(dirty) /\ ~\E g \in Files \ {f} : \E i \in 1 .. Len(L[g]) : L[g][i] = b
  <2>1. fl[b].mark = "valid" /\ fl[b].file = f
    BY <1>3, <1>6 DEF Tables, Marked, InOrder
  <2>2. b \notin ToSet(free) /\ b \notin ToSet(dirty)
    BY <2>1, KeptIs DEF Fresh
  <2>3. ASSUME NEW g \in Files \ {f}, NEW i \in 1 .. Len(L[g]), L[g][i] = b PROVE FALSE
    BY <2>1, <2>3 DEF Tables, Marked, InOrder
  <2> QED
    BY <2>2, <2>3
<1>7. \A b \in Blocks : Kept(free, dirty, M, b) <=> b \in ToSet(q) \/ (Kept(free, dirty, L, b) /\ b \notin ToSet(L[f]))
  BY <1>4, <1>5, <1>6 DEF Kept
<1>8. Y = {b \in Blocks : ~Kept(free, dirty, M, b)}
  BY <1>7 DEF Tables
<1> QED
  BY <1>2, <1>8 DEF Tables, M

LEMMA PutList ==
  ASSUME NEW fl, NEW free, NEW dirty, NEW L, NEW X, NEW Z, Tables(fl, free, dirty, L, X, Z),
         NEW f \in Files, NEW b \in X,
         fl[b].mark = "valid", fl[b].file = f, fl[b].num = Len(L[f])
  PROVE  Tables(fl, free, dirty, [L EXCEPT ![f] = Append(@, b)], X \ {b}, Z)
<1> DEFINE q == Append(L[f], b)
<1>1. L \in [Files -> Seq(Blocks)] /\ b \in Blocks /\ L[f] \in Seq(Blocks) /\ X \subseteq Blocks
  BY DEF Tables, ListsOK
<1>2. /\ q \in Seq(Blocks) /\ Len(q) = Len(L[f]) + 1 /\ Len(L[f]) \in Nat /\ q[Len(L[f]) + 1] = b
      /\ \A i \in 1 .. Len(L[f]) : q[i] = L[f][i]
  BY <1>1
<1>3. [L EXCEPT ![f] = Append(@, b)] = [L EXCEPT ![f] = q]
  OBVIOUS
<1> HIDE DEF q
<1>4. InOrder(fl, f, q)
  <2> SUFFICES ASSUME NEW i \in 1 .. Len(q)
               PROVE fl[q[i]].mark = "valid" /\ fl[q[i]].file = f /\ fl[q[i]].num = i - 1
    BY DEF InOrder
  <2>1. CASE i = Len(L[f]) + 1
    BY <1>2, <2>1
  <2>2. CASE i # Len(L[f]) + 1
    <3>1. i \in 1 .. Len(L[f])
      BY <1>2, <2>2
    <3> QED
      BY <1>2, <3>1 DEF Tables, Marked, InOrder
  <2> QED
    BY <2>1, <2>2
<1>5. ToSet(q) = ToSet(L[f]) \cup {b}
  <2>1. ToSet(q) = {q[i] : i \in 1 .. Len(q)} /\ ToSet(L[f]) = {L[f][i] : i \in 1 .. Len(L[f])}
    BY <1>1, <1>2, ToSetIs
  <2>2. \A i \in 1 .. Len(q) : i = Len(L[f]) + 1 \/ i \in 1 .. Len(L[f])
    BY <1>2
  <2>3. Len(L[f]) + 1 \in 1 .. Len(q) /\ \A i \in 1 .. Len(L[f]) : i \in 1 .. Len(q)
    BY <1>2
  <2>4. \A c \in ToSet(q) : c \in ToSet(L[f]) \cup {b}
    BY <1>2, <2>1, <2>2
  <2>5. \A c \in ToSet(L[f]) \cup {b} : c \in ToSet(q)
    BY <1>2, <2>1, <2>3
  <2> QED
    BY <2>4, <2>5
<1>6. X \ {b} = {c \in Blocks : c \notin ToSet(q) /\ (c \in X \/ c \in ToSet(L[f]))}
  <2>1. \A c \in X : c \notin ToSet(L[f])
    <3> SUFFICES ASSUME NEW c \in X, c \in ToSet(L[f]) PROVE FALSE
      OBVIOUS
    <3>1. HasBlock(L, c)
      BY <1>1, ToSetIs DEF HasBlock
    <3> QED
      BY <3>1 DEF Tables, Kept
  <2> QED
    BY <1>1, <1>5, <2>1
<1> QED
  BY <1>2, <1>3, <1>4, <1>6, Relist

(* What a file had is loose.                                               *)
LEMMA DropList ==
  ASSUME NEW fl, NEW free, NEW dirty, NEW L, Tables(fl, free, dirty, L, {}, {}), NEW f \in Files
  PROVE  /\ L[f] \in Seq(Blocks) /\ IsInjective(L[f]) /\ ToSet(L[f]) \subseteq Blocks
         /\ Tables(fl, free, dirty, [L EXCEPT ![f] = <<>>], ToSet(L[f]), {})
<1>1. L[f] \in Seq(Blocks) /\ ToSet(L[f]) \subseteq Blocks
  BY ToSetIs DEF Tables, ListsOK
<1>2. IsInjective(L[f])
  <2>1. \A i \in 1 .. Len(L[f]) : fl[L[f][i]].num = i - 1
    BY DEF Tables, Marked, InOrder
  <2>2. \A i, j \in 1 .. Len(L[f]) : L[f][i] = L[f][j] => i = j
    <3> SUFFICES ASSUME NEW i \in 1 .. Len(L[f]), NEW j \in 1 .. Len(L[f]), L[f][i] = L[f][j] PROVE i = j
      OBVIOUS
    <3>1. i - 1 = j - 1 /\ Len(L[f]) \in Nat
      BY <1>1, <2>1
    <3> QED
      BY <3>1
  <2>3. DOMAIN L[f] = 1 .. Len(L[f])
    BY <1>1
  <2> QED
    BY <2>2, <2>3 DEF IsInjective
<1>3. <<>> \in Seq(Blocks) /\ InOrder(fl, f, <<>>) /\ ToSet(<<>>) = {}
  BY DEF InOrder, ToSet
<1>4. ToSet(L[f]) = {b \in Blocks : b \notin ToSet(<<>>) /\ (b \in {} \/ b \in ToSet(L[f]))}
  BY <1>1, <1>3
<1> QED
  BY <1>1, <1>2, <1>3, <1>4, Relist

(* A loose block takes the place of another.                               *)
LEMMA Swap ==
  ASSUME NEW fl, NEW free, NEW dirty, NEW L, NEW b, Tables(fl, free, dirty, L, {b}, {}),
         NEW f \in Files, NEW n \in Nat, n < Len(L[f]),
         fl[b].mark = "valid", fl[b].file = f, fl[b].num = n
  PROVE  Tables(fl, free, dirty, [L EXCEPT ![f][n + 1] = b], {L[f][n + 1]}, {})
<1> DEFINE q == [L[f] EXCEPT ![n + 1] = b]
<1>1. L \in [Files -> Seq(Blocks)] /\ b \in Blocks /\ L[f] \in Seq(Blocks) /\ n + 1 \in 1 .. Len(L[f])
  BY DEF Tables, ListsOK
<1>2. /\ q \in Seq(Blocks) /\ Len(q) = Len(L[f]) /\ q[n + 1] = b
      /\ \A i \in 1 .. Len(L[f]) : i # n + 1 => q[i] = L[f][i]
  BY <1>1
<1>3. [L EXCEPT ![f][n + 1] = b] = [L EXCEPT ![f] = q]
  OBVIOUS
<1> HIDE DEF q
<1>4. \A i \in 1 .. Len(L[f]) : L[f][i] \in Blocks /\ fl[L[f][i]].mark = "valid" /\ fl[L[f][i]].file = f /\ fl[L[f][i]].num = i - 1
  BY <1>1 DEF Tables, Marked, InOrder
<1>5. InOrder(fl, f, q)
  BY <1>2, <1>4 DEF InOrder
<1>6. /\ ToSet(q) = {q[i] : i \in 1 .. Len(L[f])} /\ ToSet(L[f]) = {L[f][i] : i \in 1 .. Len(L[f])}
  BY <1>1, <1>2, ToSetIs
<1>7. b \notin ToSet(L[f])
  <2> SUFFICES ASSUME b \in ToSet(L[f]) PROVE FALSE
    OBVIOUS
  <2>1. HasBlock(L, b)
    BY <1>6 DEF HasBlock
  <2> QED
    BY <2>1 DEF Tables, Kept
<1> DEFINE a == L[f][n + 1]
<1>8. a \in ToSet(L[f]) /\ a \in Blocks /\ a # b
  BY <1>1, <1>4, <1>6, <1>7
<1>9. a \notin ToSet(q)
  <2> SUFFICES ASSUME NEW i \in 1 .. Len(L[f]), q[i] = a PROVE FALSE
    BY <1>6
  <2>1. i # n + 1 /\ L[f][i] = a
    BY <1>2, <1>8
  <2> QED
    BY <1>1, <1>4, <2>1
<1>10. \A c \in ToSet(L[f]) : c = a \/ c \in ToSet(q)
  <2> SUFFICES ASSUME NEW i \in 1 .. Len(L[f]), i # n + 1 PROVE L[f][i] \in ToSet(q)
    BY <1>6
  <2> QED
    BY <1>2, <1>6
<1>11. b \in ToSet(q)
  BY <1>1, <1>2, <1>6
<1>12. {a} = {c \in Blocks : c \notin ToSet(q) /\ (c \in {b} \/ c \in ToSet(L[f]))}
  BY <1>8, <1>9, <1>10, <1>11
<1> QED
  BY <1>2, <1>3, <1>5, <1>12, Relist

-----------------------------------------------------------------------------
(* The machine.                                                            *)

IsM(s) == DOMAIN s = {"fl", "free", "dirty", "list", "size", "ic", "log", "halt", "ret", "data"}

(* What a loss of power finds after each write of a call.                  *)
LogOK(q) == \E S : q \in Seq(S) /\ \A e \in S : e.gap \notin Safe => FlashOK(e.flash)

LEMMA NothingWritten == LogOK(<<>>)
<1> DEFINE S == {}
<1>1. <<>> \in Seq(S) /\ \A e \in S : e.gap \notin Safe => FlashOK(e.flash)
  OBVIOUS
<1> HIDE DEF S
<1> QED
  BY <1>1 DEF LogOK

(* A machine that has not halted, with the lists L of files, loose blocks  *)
(* X and blocks Z that may be spoilt.                                      *)
Fits(s, L, X, Z) ==
  /\ IsM(s) /\ IsFlash(s.fl) /\ LogOK(s.log) /\ ~s.halt
  /\ Tables(s.fl, s.free, s.dirty, L, X, Z)

(* A machine between two calls.                                            *)
Good(s) == Fits(s, s.list, {}, {})

(* One that has halted, perhaps.                                           *)
Sound(s) == Good(s) \/ (s.halt /\ IsM(s) /\ LogOK(s.log) /\ FlashOK(s.fl))

(* Machines that differ in nothing that these proofs are about.            *)
SameLists(s, t) == t.free = s.free /\ t.dirty = s.dirty /\ t.list = s.list /\ t.halt = s.halt
Alike(s, t)     == IsM(t) /\ SameLists(s, t) /\ t.fl = s.fl /\ t.log = s.log

LEMMA AlikeFits ==
  ASSUME NEW s, NEW t, IsM(s), Alike(s, t)
  PROVE  /\ \A L, X, Z : Fits(s, L, X, Z) => Fits(t, L, X, Z)
         /\ Good(s) => Good(t)
         /\ Sound(s) => Sound(t)
BY DEF Alike, SameLists, Fits, Good, Sound

LEMMA AlikeChain ==
  ASSUME NEW s, NEW t, NEW u, Alike(s, t), Alike(t, u)
  PROVE  Alike(s, u)
BY DEF Alike, SameLists

LEMMA ReturnsAlike ==
  ASSUME NEW s, IsM(s)
  PROVE  /\ Alike(s, s) /\ \A r : Alike(s, Returns(s, r))
         /\ \A r : Alike(s, [s EXCEPT !.ret = r])
BY DEF IsM, Alike, SameLists, Returns

LEMMA HaltIs ==
  ASSUME NEW s, Good(s)
  PROVE  Sound(Halt(s))
<1>1. IsM(Halt(s)) /\ Halt(s).halt /\ Halt(s).log = s.log /\ Halt(s).fl = s.fl
  BY DEF Good, Fits, IsM, Halt
<1>2. FlashOK(s.fl)
  BY AllSane DEF Good, Fits
<1> QED
  BY <1>1, <1>2 DEF Sound, Good, Fits

(* What t has after block b of s was written, last with v.                 *)
Stored(s, t, b, v) ==
  /\ IsM(t) /\ LogOK(t.log) /\ SameLists(s, t)
  /\ t.fl = [s.fl EXCEPT ![b] = v]
  /\ t.ret = s.ret /\ t.size = s.size /\ t.ic = s.ic /\ t.data = s.data

LEMMA StoreIs ==
  ASSUME NEW s, IsM(s), LogOK(s.log), ~s.halt, NEW b, NEW vals, Len(vals) \in Nat \ {0}, NEW gap,
         gap \in Safe \/ \A i \in 1 .. Len(vals) : FlashOK([s.fl EXCEPT ![b] = vals[i]])
  PROVE  Stored(s, Store(s, b, vals, gap), b, vals[Len(vals)])
<1> DEFINE t == Store(s, b, vals, gap)
           entry(i) == [flash |-> [s.fl EXCEPT ![b] = vals[i]], gap |-> gap]
           new == [i \in 1 .. Len(vals) |-> entry(i)]
           N == {entry(i) : i \in 1 .. Len(vals)}
<1>1. Len(vals) \in Nat
  OBVIOUS
<1>3. \A e \in N : e.gap \notin Safe => FlashOK(e.flash)
  OBVIOUS
<1> HIDE DEF entry
<1>2. new \in Seq(N)
  BY <1>1
<1>4. PICK S : s.log \in Seq(S) /\ \A e \in S : e.gap \notin Safe => FlashOK(e.flash)
  BY DEF LogOK
<1>5. t = [s EXCEPT !.fl[b] = vals[Len(vals)], !.log = @ \o new]
  BY DEF Store, Last, entry
<1> HIDE DEF new, N, t
<1>6. s.log \o new \in Seq(S \cup N)
  BY <1>2, <1>4
<1>7. LogOK(s.log \o new)
  BY <1>3, <1>4, <1>6 DEF LogOK
<1>8. t.log = s.log \o new /\ t.fl = [s.fl EXCEPT ![b] = vals[Len(vals)]] /\ DOMAIN t = DOMAIN s
  BY <1>5 DEF IsM
<1>9. /\ t.free = s.free /\ t.dirty = s.dirty /\ t.list = s.list /\ t.halt = s.halt
      /\ t.ret = s.ret /\ t.size = s.size /\ t.ic = s.ic /\ t.data = s.data
  BY <1>5 DEF IsM
<1> QED
  BY <1>7, <1>8, <1>9 DEF IsM, SameLists, Stored, t

(* A loose block is marked dirty.                                          *)
Dirtied(s, t, L, X, Z, b) ==
  /\ Fits(t, L, X \ {b}, Z) /\ FlashOK(t.fl) /\ t.fl = [s.fl EXCEPT ![b] = Spoiled("dirty")]
  /\ t.list = s.list /\ t.free = s.free /\ t.dirty = Append(s.dirty, b) /\ t.size = s.size

LEMMA SetDirtyIs ==
  ASSUME NEW s, NEW L, NEW X, NEW Z, Fits(s, L, X, Z), NEW b \in X, SaneBut(s.fl, b)
  PROVE  Dirtied(s, SetDirty(s, b), L, X, Z, b)
<1> DEFINE t == SetDirty(s, b)
           vals == <<Spoiled("torn"), Spoiled("dirty")>>
           u == Store(s, b, vals, "mark")
<1>1. b \in Blocks
  BY DEF Fits, Tables
<1>2. Len(vals) = 2 /\ vals[1] = Spoiled("torn") /\ vals[2] = Spoiled("dirty")
  OBVIOUS
<1>3. \A m \in {"torn", "dirty"} : FlashOK([s.fl EXCEPT ![b] = Spoiled(m)])
  BY <1>1, SaneSpoiled
<1> HIDE DEF vals
<1>4. \A i \in 1 .. Len(vals) : FlashOK([s.fl EXCEPT ![b] = vals[i]])
  BY <1>2, <1>3
<1> HIDE DEF u
<1>5. IsM(u) /\ LogOK(u.log) /\ SameLists(s, u) /\ u.fl = [s.fl EXCEPT ![b] = Spoiled("dirty")] /\ u.size = s.size
  <2>1. IsM(s) /\ LogOK(s.log) /\ ~s.halt
    BY DEF Fits
  <2>2. Len(vals) \in Nat \ {0}
    BY <1>2
  <2>3. Stored(s, u, b, vals[Len(vals)])
    BY <1>4, <2>1, <2>2, StoreIs DEF u
  <2> QED
    BY <1>2, <2>3 DEF Stored
<1>6. IsBlock(Spoiled("dirty")) /\ Spoiled("dirty").mark = "dirty"
  BY BlocksAre
<1>7. IsFlash(u.fl) /\ u.fl[b] = Spoiled("dirty")
  BY <1>1, <1>5, <1>6, WrittenIs DEF Fits
<1>8. Tables(u.fl, u.free, u.dirty, L, X, Z)
  BY <1>5, SetLoose DEF Fits, SameLists
<1>9. Tables(u.fl, u.free, Append(u.dirty, b), L, X \ {b}, Z) /\ ~Contains(u.dirty, b)
  BY <1>6, <1>7, <1>8, PutDirty
<1>10. t = [u EXCEPT !.dirty = Append(@, b), !.halt = @ \/ Contains(s.dirty, b)]
  BY DEF SetDirty, u, vals
<1> HIDE DEF t
<1>11. /\ IsM(t) /\ t.fl = u.fl /\ t.free = u.free /\ t.list = u.list /\ t.log = u.log /\ t.size = u.size
       /\ t.dirty = Append(u.dirty, b) /\ t.halt = (u.halt \/ Contains(s.dirty, b))
  BY <1>5, <1>10 DEF IsM
<1>12. ~t.halt
  BY <1>5, <1>9, <1>11 DEF SameLists, Fits
<1> QED
  BY <1>3, <1>5, <1>7, <1>9, <1>11, <1>12 DEF Fits, SameLists, Dirtied, t

(* The one loose block is written: with marks that no list has, or with    *)
(* the next place in a file, or where power is not lost.                   *)
Next1(L, v) == v.mark = "valid" => v.file \in Files /\ v.num \in Nat /\ ~(v.num + 1 \in 1 .. Len(L[v.file]))

\* What t has after the loose block b of s was written, last with v.
Loosely(s, t, L, b, v) == Fits(t, L, {b}, {}) /\ SameLists(s, t) /\ t.fl[b] = v

LEMMA StoreLoose ==
  ASSUME NEW s, NEW L, NEW b, Fits(s, L, {b}, {}), NEW vals, Len(vals) \in Nat \ {0}, NEW gap,
         \A i \in 1 .. Len(vals) : IsBlock(vals[i]) /\ (gap \in Safe \/ Next1(L, vals[i]))
  PROVE  Loosely(s, Store(s, b, vals, gap), L, b, vals[Len(vals)])
<1> DEFINE t == Store(s, b, vals, gap)
           v == vals[Len(vals)]
<1>1. b \in Blocks /\ IsFlash(s.fl) /\ Tables(s.fl, s.free, s.dirty, L, {b}, {})
  BY DEF Fits, Tables
<1>2. ASSUME NEW i \in 1 .. Len(vals), gap \notin Safe PROVE FlashOK([s.fl EXCEPT ![b] = vals[i]])
  BY <1>1, <1>2, LooseWritten DEF Next1
<1>3. Len(vals) \in 1 .. Len(vals) /\ IsBlock(v)
  OBVIOUS
<1>4. gap \in Safe \/ \A i \in 1 .. Len(vals) : FlashOK([s.fl EXCEPT ![b] = vals[i]])
  BY <1>2
<1> HIDE DEF t
<1>5. Stored(s, t, b, vals[Len(vals)])
  BY <1>4, StoreIs DEF Fits, t
<1> HIDE DEF v
<1>6. Stored(s, t, b, v)
  BY <1>5 DEF v
<1>7. IsFlash(t.fl) /\ t.fl[b] = v
  BY <1>1, <1>3, <1>6, WrittenIs DEF Stored
<1>8. Tables(t.fl, t.free, t.dirty, L, {b}, {})
  <2>1. Tables([s.fl EXCEPT ![b] = v], s.free, s.dirty, L, {b}, {})
    BY <1>1, SetLoose
  <2> QED
    BY <1>6, <2>1 DEF Stored, SameLists
<1> QED
  BY <1>6, <1>7, <1>8 DEF Stored, Fits, SameLists, Loosely, t, v

LEMMA SpoiledNext ==
  ASSUME NEW L, NEW m \in {"free", "part", "torn", "unread", "dirty"}
  PROVE  IsBlock(Spoiled(m)) /\ Spoiled(m).mark = m /\ Next1(L, Spoiled(m))
BY BlocksAre DEF Next1, Fresh

(* A header is written into the one loose block.                           *)
Headed(s, t, L, b, f, n) ==
  /\ Fits(t, L, {b}, {}) /\ SameLists(s, t)
  /\ t.fl[b].mark = "valid" /\ t.fl[b].file = f /\ t.fl[b].num = n

LEMMA WriteMetaIs ==
  ASSUME NEW s, NEW L, NEW b, Fits(s, L, {b}, {}), NEW f, NEW n, NEW gap,
         gap \in Safe \/ (f \in Files /\ n \in Nat /\ ~(n + 1 \in 1 .. Len(L[f])))
  PROVE  Headed(s, WriteMeta(s, b, f, n, gap), L, b, f, n)
<1> DEFINE meta == [s.fl[b] EXCEPT !.mark = "valid", !.file = f, !.num = n]
           vals == <<Spoiled("part"), Spoiled("torn"), Spoiled("unread")>>
           last == <<meta>>
           u == Store(s, b, vals, "meta")
           t == Store(u, b, last, gap)
<1>1. WriteMeta(s, b, f, n, gap) = t
  BY DEF WriteMeta
<1>2. IsBlock(s.fl[b])
  BY DEF Fits, Tables, IsFlash
<1>3. meta.mark = "valid" /\ meta.file = f /\ meta.num = n /\ DOMAIN meta = DOMAIN s.fl[b]
  BY <1>2 DEF IsBlock
<1>4. Len(vals) = 3 /\ vals[1] = Spoiled("part") /\ vals[2] = Spoiled("torn") /\ vals[3] = Spoiled("unread")
  OBVIOUS
<1>5. Len(last) = 1 /\ last[1] = meta
  OBVIOUS
<1> HIDE DEF meta, vals, last, u, t
<1>6. IsBlock(meta)
  BY <1>2, <1>3 DEF IsBlock
<1>7. gap \in Safe \/ Next1(L, meta)
  BY <1>3 DEF Next1
<1>8. Fits(u, L, {b}, {}) /\ SameLists(s, u)
  <2>1. \A i \in 1 .. Len(vals) : IsBlock(vals[i]) /\ Next1(L, vals[i])
    <3> SUFFICES ASSUME NEW i \in 1 .. 3 PROVE IsBlock(vals[i]) /\ Next1(L, vals[i])
      BY <1>4
    <3>1. i = 1 \/ i = 2 \/ i = 3
      OBVIOUS
    <3> QED
      BY <1>4, <3>1, SpoiledNext
  <2>2. Len(vals) \in Nat \ {0}
    BY <1>4
  <2>3. Loosely(s, u, L, b, vals[Len(vals)])
    BY <2>1, <2>2, StoreLoose DEF u
  <2> QED
    BY <2>3 DEF Loosely
<1>9. Fits(t, L, {b}, {}) /\ SameLists(u, t) /\ t.fl[b] = last[Len(last)]
  <2>1. \A i \in 1 .. Len(last) : IsBlock(last[i]) /\ (gap \in Safe \/ Next1(L, last[i]))
    BY <1>5, <1>6, <1>7
  <2>2. Len(last) \in Nat \ {0}
    BY <1>5
  <2>3. Loosely(u, t, L, b, last[Len(last)])
    BY <1>8, <2>1, <2>2, StoreLoose DEF t
  <2> QED
    BY <2>3 DEF Loosely
<1> QED
  BY <1>1, <1>3, <1>5, <1>8, <1>9 DEF SameLists, Headed

(* ffs_page_i16_alloc_block                                                *)
LEMMA AllocBlockIs ==
  ASSUME NEW s, Good(s), NEW f \in Files
  PROVE  Good(AllocBlock(s, f))
<1> DEFINE b == Head(s.free)
           u == [s EXCEPT !.free = Tail(@)]
           t == WriteMeta(u, b, f, Len(s.list[f]), "none")
           w == [t EXCEPT !.list[f] = Append(@, b)]
<1>1. CASE s.free = <<>>
  <2>1. AllocBlock(s, f) = Returns(s, "no_space")
    BY <1>1 DEF AllocBlock
  <2>2. IsM(s) /\ Alike(s, Returns(s, "no_space"))
    BY ReturnsAlike DEF Good, Fits
  <2> QED
    BY <2>1, <2>2, AlikeFits
<1>2. CASE s.free # <<>>
  <2>1. AllocBlock(s, f) = Returns(w, "ok")
    BY <1>2 DEF AllocBlock
  <2>2. Tables(s.fl, s.free, s.dirty, s.list, {}, {}) /\ IsM(s)
    BY DEF Good, Fits
  <2>3. b \in Blocks /\ Tables(s.fl, Tail(s.free), s.dirty, s.list, {b}, {})
    BY <1>2, <2>2, TakeFree
  <2>4. IsM(u) /\ u.free = Tail(s.free) /\ u.dirty = s.dirty /\ u.list = s.list /\ u.fl = s.fl /\ u.log = s.log /\ u.halt = s.halt
    BY <2>2 DEF IsM
  <2> HIDE DEF u, b
  <2>5. Fits(u, s.list, {b}, {})
    BY <2>3, <2>4 DEF Good, Fits
  <2>6. Len(s.list[f]) \in Nat /\ ~(Len(s.list[f]) + 1 \in 1 .. Len(s.list[f])) /\ s.list \in [Files -> Seq(Blocks)]
    BY <2>2 DEF Tables, ListsOK
  <2>7. /\ Fits(t, s.list, {b}, {}) /\ SameLists(u, t)
        /\ t.fl[b].mark = "valid" /\ t.fl[b].file = f /\ t.fl[b].num = Len(s.list[f])
    <3>1. Headed(u, t, s.list, b, f, Len(s.list[f]))
      BY <2>5, <2>6, WriteMetaIs
    <3> QED
      BY <3>1 DEF Headed
  <2> HIDE DEF t
  <2>8. t.list = s.list /\ IsM(t)
    BY <2>4, <2>7 DEF SameLists, Fits
  <2>9. /\ IsM(w) /\ w.list = [s.list EXCEPT ![f] = Append(@, b)] /\ w.fl = t.fl /\ w.free = t.free /\ w.dirty = t.dirty
        /\ w.log = t.log /\ w.halt = t.halt
    BY <2>8 DEF IsM
  <2> HIDE DEF w
  <2>10. Tables(t.fl, t.free, t.dirty, [s.list EXCEPT ![f] = Append(@, b)], {b} \ {b}, {})
    BY <2>7, PutList DEF Fits
  <2>11. {b} \ {b} = {}
    OBVIOUS
  <2>12. Good(w)
    BY <2>7, <2>9, <2>10, <2>11 DEF Good, Fits
  <2>13. IsM(w) /\ Alike(w, Returns(w, "ok"))
    BY <2>9, ReturnsAlike
  <2> QED
    BY <2>1, <2>12, <2>13, AlikeFits
<1> QED
  BY <1>1, <1>2

(* ffs_block_i8_erase                                                      *)
LEMMA EraseIs ==
  ASSUME NEW s, NEW b, Fits(s, s.list, {b}, {})
  PROVE  Good(Erase(s, b))
<1> DEFINE vals == <<Spoiled("part"), Erased>>
           u == [s EXCEPT !.ic = IF @.block = b THEN [block |-> None, index |-> <<>>] ELSE @]
           t == Store(u, b, vals, "erase")
           w == [t EXCEPT !.free = Append(@, b)]
<1>1. Erase(s, b) = w
  BY DEF Erase
<1>2. Alike(s, u) /\ IsM(s) /\ u.list = s.list
  BY DEF Fits, IsM, Alike, SameLists
<1>3. Len(vals) = 2 /\ vals[1] = Spoiled("part") /\ vals[2] = Erased
  OBVIOUS
<1> HIDE DEF vals, u
<1>4. Fits(u, s.list, {b}, {})
  BY <1>2, AlikeFits
<1>5. \A i \in 1 .. Len(vals) : IsBlock(vals[i]) /\ Next1(s.list, vals[i])
  <2> SUFFICES ASSUME NEW i \in 1 .. 2 PROVE IsBlock(vals[i]) /\ Next1(s.list, vals[i])
    BY <1>3
  <2>1. i = 1 \/ i = 2
    OBVIOUS
  <2>2. IsBlock(Erased) /\ Next1(s.list, Erased)
    BY BlocksAre DEF Next1
  <2> QED
    BY <1>3, <2>1, <2>2, SpoiledNext
<1>6. Len(vals) \in Nat \ {0}
  BY <1>3
<1>7. Fits(t, s.list, {b}, {}) /\ SameLists(u, t) /\ t.fl[b] = vals[Len(vals)]
  <2>1. Loosely(u, t, s.list, b, vals[Len(vals)])
    BY <1>4, <1>5, <1>6, StoreLoose
  <2> QED
    BY <2>1 DEF Loosely
<1> HIDE DEF t
<1>8. t.fl[b] = Erased /\ t.list = s.list /\ IsM(t)
  BY <1>2, <1>3, <1>7 DEF SameLists, Fits
<1>9. /\ IsM(w) /\ w.list = s.list /\ w.fl = t.fl /\ w.free = Append(t.free, b) /\ w.dirty = t.dirty
      /\ w.log = t.log /\ w.halt = t.halt
  BY <1>8 DEF IsM
<1> HIDE DEF w
<1>10. t.fl[b].mark \in Fresh
  BY <1>8, BlocksAre DEF Fresh
<1>11. Tables(t.fl, Append(t.free, b), t.dirty, s.list, {b} \ {b}, {})
  BY <1>7, <1>8, <1>10, PutFree DEF Fits
<1>12. {b} \ {b} = {}
  OBVIOUS
<1> QED
  BY <1>1, <1>7, <1>9, <1>11, <1>12 DEF Good, Fits

(* The one loose block is marked dirty.                                    *)
LEMMA SetDirtyGood ==
  ASSUME NEW s, NEW b, Fits(s, s.list, {b}, {})
  PROVE  Good(SetDirty(s, b)) /\ SetDirty(s, b).list = s.list
<1>1. b \in {b} /\ SaneBut(s.fl, b) /\ {b} \ {b} = {}
  BY TablesSane DEF Fits, SaneBut
<1> DEFINE t == SetDirty(s, b)
<1> HIDE DEF t
<1>2. Dirtied(s, t, s.list, {b}, {}, b)
  BY <1>1, SetDirtyIs DEF t
<1> QED
  BY <1>1, <1>2 DEF Good, Dirtied, t

-----------------------------------------------------------------------------
(* Reads change nothing but the cache and what they return.                *)

LEMMA ReadIndexAlike ==
  ASSUME NEW s, IsM(s), NEW b
  PROVE  Alike(s, ReadIndex(s, b))
BY DEF ReadIndex, IsM, Alike, SameLists

LEMMA ReadFromAlike ==
  ASSUME NEW s, IsM(s), NEW b, NEW n
  PROVE  Alike(s, ReadFrom(s, b, n))
<1> DEFINE at == NewestAt(s.ic.index, n)
           d  == IF at \in DOMAIN s.fl[b].pages THEN s.fl[b].pages[at].d ELSE Junk
<1>1. \/ \E r : ReadFrom(s, b, n) = Returns(s, r)
      \/ ReadFrom(s, b, n) = [s EXCEPT !.ret = "ok", !.data = d]
  BY DEF ReadFrom
<1> HIDE DEF d
<1>2. Alike(s, [s EXCEPT !.ret = "ok", !.data = d])
  BY DEF IsM, Alike, SameLists
<1> QED
  BY <1>1, <1>2, ReturnsAlike

LEMMA ReadPageAlike ==
  ASSUME NEW s, IsM(s), NEW f, NEW p
  PROVE  Alike(s, ReadPage(s, f, p))
<1> DEFINE b == BlockAt(s, f, p \div DataPages)
<1>1. CASE b = None
  BY <1>1, ReturnsAlike DEF ReadPage
<1>2. CASE b # None
  <2> DEFINE u == ReadIndex(s, b)
  <2>1. Alike(s, u) /\ IsM(u)
    BY ReadIndexAlike DEF Alike
  <2>2. ReadPage(s, f, p) = ReadFrom(u, b, p % DataPages)
    BY <1>2 DEF ReadPage
  <2> HIDE DEF u, b
  <2>3. Alike(u, ReadFrom(u, b, p % DataPages))
    BY <2>1, ReadFromAlike
  <2> QED
    BY <2>1, <2>2, <2>3, AlikeChain
<1> QED
  BY <1>1, <1>2

-----------------------------------------------------------------------------
(* A block is copied to the one loose block.                               *)

\* Nothing but the pages of the loose block b is another.
PageCopied(s, t, L, b) ==
  /\ Fits(t, L, {b}, {}) /\ SameLists(s, t)
  /\ t.fl[b].mark = s.fl[b].mark /\ \A a : a # b => t.fl[a] = s.fl[a]

CopyKeeps(c, i, t) == PageCopied(c.s, t, c.s.list, c.to)

Copying == INSTANCE Loops WITH Op <- CopyPage, Inv <- CopyKeeps

LEMMA CopiedIs ==
  ASSUME NEW s, NEW L, NEW b, Fits(s, L, {b}, {}), NEW i
  PROVE  PageCopied(s, Copied(s, b, i), L, b)
<1> DEFINE t == Copied(s, b, i)
           v == [s.fl[b] EXCEPT !.pages = Append(@, [n |-> i, d |-> s.data])]
<1>1. CASE s.ret # "ok"
  <2>1. t = s
    BY <1>1 DEF Copied
  <2> HIDE DEF t
  <2> QED
    BY <2>1 DEF SameLists, PageCopied, t
<1>2. CASE s.ret = "ok"
  <2>1. b \in Blocks /\ IsFlash(s.fl) /\ IsM(s)
    BY DEF Fits, Tables
  <2>2. IsBlock(s.fl[b]) /\ DOMAIN s.fl = Blocks
    BY <2>1 DEF IsFlash
  <2>3. IsBlock(v) /\ v.mark = s.fl[b].mark
    BY <2>2 DEF IsBlock
  <2>4. t = [s EXCEPT !.fl[b].pages = Append(@, [n |-> i, d |-> s.data])]
    BY <1>2 DEF Copied
  <2>5. t = [s EXCEPT !.fl = [s.fl EXCEPT ![b] = v]]
    BY <2>1, <2>2, <2>4
  <2> HIDE DEF t, v
  <2>6. /\ IsM(t) /\ t.fl = [s.fl EXCEPT ![b] = v] /\ t.free = s.free /\ t.dirty = s.dirty /\ t.list = s.list
        /\ t.log = s.log /\ t.halt = s.halt
    BY <2>1, <2>5 DEF IsM
  <2>7. IsFlash(t.fl)
    BY <2>1, <2>3, <2>6, WrittenIs
  <2>8. Tables([s.fl EXCEPT ![b] = v], s.free, s.dirty, L, {b}, {})
    BY <2>1, SetLoose DEF Fits
  <2>9. t.fl[b] = v /\ \A a : a # b => t.fl[a] = s.fl[a]
    BY <2>1, <2>2, <2>6
  <2> QED
    BY <2>3, <2>6, <2>7, <2>8, <2>9 DEF Fits, SameLists, PageCopied, t
<1> QED
  BY <1>1, <1>2

LEMMA CopyPageIs ==
  ASSUME NEW s, NEW L, NEW b, Fits(s, L, {b}, {}), NEW w, w.to = b
  PROVE  PageCopied(s, CopyPage(s, w), L, b)
<1> DEFINE u == ReadPage(s, w.file, w.page)
           t == Copied(u, b, w.page % DataPages)
<1>1. CASE s.ret # "ok"
  <2>1. CopyPage(s, w) = s
    BY <1>1 DEF CopyPage
  <2> QED
    BY <2>1 DEF SameLists, PageCopied
<1>2. CASE s.ret = "ok"
  <2>1. CopyPage(s, w) = t
    BY <1>2 DEF CopyPage
  <2>2. Alike(s, u) /\ IsM(s)
    BY ReadPageAlike DEF Fits
  <2> HIDE DEF u
  <2>3. Fits(u, L, {b}, {}) /\ SameLists(s, u) /\ u.fl = s.fl
    BY <2>2, AlikeFits DEF Alike
  <2>4. PageCopied(u, t, L, b)
    BY <2>3, CopiedIs
  <2> HIDE DEF t
  <2> QED
    BY <2>1, <2>3, <2>4 DEF SameLists, PageCopied
<1> QED
  BY <1>1, <1>2

CopyMade(s, t, src, dst) ==
  /\ Fits(t, s.list, {dst}, {}) /\ SameLists(s, t)
  /\ t.ret = "ok" => /\ t.fl[dst].mark = "valid"
                     /\ t.fl[dst].file = s.fl[src].file /\ t.fl[dst].num = s.fl[src].num

(* ffs_page_i8_block_copy, where power is not lost before the other block  *)
(* is marked.                                                              *)
LEMMA CopyHeaderIs ==
  ASSUME "replace" \in Safe, NEW s, NEW src, NEW dst, Fits(s, s.list, {dst}, {}), s.fl[dst].mark # "valid"
  PROVE  CopyMade(s, CopyHeader(s, src, dst), src, dst)
<1> DEFINE L == s.list
           one == <<Spoiled("part")>>
           two == <<Spoiled("part"), s.fl[dst]>>
<1>1. CASE s.ret = "error"
  <2> DEFINE t == Store(s, dst, one, "meta")
  <2>1. CopyHeader(s, src, dst) = t
    BY <1>1 DEF CopyHeader
  <2>2. Len(one) = 1 /\ one[1] = Spoiled("part")
    OBVIOUS
  <2> HIDE DEF one
  <2>3. \A i \in 1 .. Len(one) : IsBlock(one[i]) /\ Next1(L, one[i])
    BY <2>2, SpoiledNext
  <2>4. Len(one) \in Nat \ {0}
    BY <2>2
  <2>5. Loosely(s, t, L, dst, one[Len(one)]) /\ t.ret = s.ret
    <3>1. Loosely(s, t, L, dst, one[Len(one)])
      BY <2>3, <2>4, StoreLoose
    <3>2. t.ret = s.ret
      BY DEF Store, Fits, IsM
    <3> QED
      BY <3>1, <3>2
  <2> HIDE DEF t
  <2> QED
    BY <1>1, <2>1, <2>5 DEF Loosely, CopyMade
<1>2. CASE s.ret # "error"
  <2> DEFINE u == Store(s, dst, two, "meta")
             t == WriteMeta(u, dst, s.fl[src].file, s.fl[src].num, "replace")
  <2>1. CopyHeader(s, src, dst) = Returns(t, "ok")
    BY <1>2 DEF CopyHeader
  <2>2. Len(two) = 2 /\ two[1] = Spoiled("part") /\ two[2] = s.fl[dst]
    OBVIOUS
  <2> HIDE DEF two
  <2>3. dst \in Blocks /\ IsBlock(s.fl[dst])
    BY DEF Fits, Tables, IsFlash
  <2>4. Next1(L, s.fl[dst])
    BY DEF Next1
  <2>5. \A i \in 1 .. Len(two) : IsBlock(two[i]) /\ Next1(L, two[i])
    <3> SUFFICES ASSUME NEW i \in 1 .. 2 PROVE IsBlock(two[i]) /\ Next1(L, two[i])
      BY <2>2
    <3>1. i = 1 \/ i = 2
      OBVIOUS
    <3> QED
      BY <2>2, <2>3, <2>4, <3>1, SpoiledNext
  <2>6. Len(two) \in Nat \ {0}
    BY <2>2
  <2>7. Loosely(s, u, L, dst, two[Len(two)])
    BY <2>5, <2>6, StoreLoose
  <2> HIDE DEF u
  <2>8. Headed(u, t, L, dst, s.fl[src].file, s.fl[src].num)
    BY <2>7, WriteMetaIs DEF Loosely
  <2> HIDE DEF t
  <2>9. IsM(t) /\ Alike(t, Returns(t, "ok"))
    BY <2>8, ReturnsAlike DEF Headed, Fits
  <2>10. Fits(Returns(t, "ok"), L, {dst}, {})
    BY <2>8, <2>9, AlikeFits DEF Headed
  <2> QED
    BY <2>1, <2>7, <2>8, <2>9, <2>10 DEF Loosely, Headed, Alike, SameLists, CopyMade
<1> QED
  BY <1>1, <1>2

LEMMA BlockCopyIs ==
  ASSUME "replace" \in Safe, NEW s, NEW src, NEW dst, src # dst, Fits(s, s.list, {dst}, {}), s.fl[dst].mark # "valid"
  PROVE  CopyMade(s, BlockCopy(s, src, dst), src, dst)
<1> DEFINE base == s.fl[src].num * DataPages
           work == [i \in 1 .. DataPages |-> [file |-> s.fl[src].file, page |-> base + i - 1, to |-> dst]]
           c == [s |-> s, to |-> dst]
           r == Returns(s, "ok")
           u == ForEach(CopyPage, r, work)
<1>1. BlockCopy(s, src, dst) = CopyHeader(u, src, dst)
  BY DEF BlockCopy
<1>2. DataPages \in Nat
  BY GeometryAssumption DEF GeometryAssumption
<1>3. Len(work) = DataPages /\ \A i \in 1 .. DataPages : work[i].to = dst
  BY <1>2
<1>4. u = Copying!Result(r, work)
  BY DEF ForEach, Copying!Result
<1> HIDE DEF work, u, r
<1>5. Alike(s, r) /\ IsM(s)
  BY ReturnsAlike DEF r, Fits
<1>6. CopyKeeps(c, 0, r)
  BY <1>5, AlikeFits DEF CopyKeeps, PageCopied, Alike
<1>7. ASSUME NEW t, NEW i \in 1 .. Len(work), CopyKeeps(c, i - 1, t) PROVE CopyKeeps(c, i, CopyPage(t, work[i]))
  <2>1. PageCopied(s, t, s.list, dst)
    BY <1>7 DEF CopyKeeps
  <2>3. work[i].to = dst /\ Fits(t, s.list, {dst}, {})
    BY <1>2, <1>3, <2>1 DEF PageCopied
  <2>2. PageCopied(t, CopyPage(t, work[i]), s.list, dst)
    BY <2>3, CopyPageIs
  <2> QED
    BY <2>1, <2>2 DEF CopyKeeps, PageCopied, SameLists
<1>8. CopyKeeps(c, Len(work), u)
  BY <1>2, <1>3, <1>4, <1>6, <1>7, Copying!LoopKeeps
<1>9. PageCopied(s, u, s.list, dst)
  BY <1>8 DEF CopyKeeps
<1>10. Fits(u, u.list, {dst}, {}) /\ u.fl[dst].mark # "valid" /\ u.fl[src] = s.fl[src] /\ u.list = s.list
  BY <1>9 DEF PageCopied, SameLists
<1>11. CopyMade(u, CopyHeader(u, src, dst), src, dst)
  BY <1>10, CopyHeaderIs
<1> QED
  BY <1>1, <1>9, <1>10, <1>11 DEF CopyMade, PageCopied, SameLists

(* ffs_page_i16_replace_block                                              *)
LEMMA ReplacedIs ==
  ASSUME NEW s, NEW f \in Files, NEW n \in Nat, n < Len(s.list[f]), NEW new, Fits(s, s.list, {new}, {}),
         s.ret = "ok" => s.fl[new].mark = "valid" /\ s.fl[new].file = f /\ s.fl[new].num = n
  PROVE  /\ Good(Replaced(s, f, n, s.list[f][n + 1], new))
         /\ Len(Replaced(s, f, n, s.list[f][n + 1], new).list[f]) = Len(s.list[f])
<1> DEFINE old == s.list[f][n + 1]
<1>1. CASE s.ret # "ok"
  <2> DEFINE t == SetDirty(s, new)
  <2>1. Replaced(s, f, n, old, new) = Returns(t, "error")
    BY <1>1 DEF Replaced
  <2>2. Good(t) /\ t.list = s.list
    BY SetDirtyGood
  <2> HIDE DEF t
  <2>3. IsM(t) /\ Alike(t, Returns(t, "error"))
    BY <2>2, ReturnsAlike DEF Good, Fits
  <2> QED
    BY <2>1, <2>2, <2>3, AlikeFits DEF Alike, SameLists
<1>2. CASE s.ret = "ok"
  <2> DEFINE u == [s EXCEPT !.list[f][n + 1] = new]
             t == SetDirty(u, old)
  <2>1. Replaced(s, f, n, old, new) = Returns(t, "ok")
    BY <1>2 DEF Replaced
  <2>2. Tables(s.fl, s.free, s.dirty, [s.list EXCEPT ![f][n + 1] = new], {old}, {})
    BY <1>2, Swap DEF Fits
  <2>3. /\ IsM(u) /\ u.list = [s.list EXCEPT ![f][n + 1] = new] /\ u.fl = s.fl /\ u.free = s.free
        /\ u.dirty = s.dirty /\ u.log = s.log /\ u.halt = s.halt
    BY DEF Fits, IsM
  <2> HIDE DEF u, old
  <2>4. Fits(u, u.list, {old}, {})
    BY <2>2, <2>3 DEF Fits
  <2>5. Good(t) /\ t.list = u.list
    BY <2>4, SetDirtyGood
  <2> HIDE DEF t
  <2>6. IsM(t) /\ Alike(t, Returns(t, "ok"))
    BY <2>5, ReturnsAlike DEF Good, Fits
  <2>7. Len(u.list[f]) = Len(s.list[f])
    <3>1. s.list \in [Files -> Seq(Blocks)]
      BY DEF Fits, Tables, ListsOK
    <3>2. u.list[f] = [s.list[f] EXCEPT ![n + 1] = new]
      BY <2>3, <3>1
    <3> QED
      BY <3>1, <3>2
  <2> QED
    BY <2>1, <2>5, <2>6, <2>7, AlikeFits DEF old, Alike, SameLists
<1> QED
  BY <1>1, <1>2

(* The block of a file at a place.                                         *)
LEMMA PlaceIs ==
  ASSUME NEW s, Good(s), NEW f \in Files, NEW n \in Nat
  PROVE  n < Len(s.list[f]) => BlockAt(s, f, n) # None
<1> SUFFICES ASSUME n < Len(s.list[f]) PROVE BlockAt(s, f, n) # None
  OBVIOUS
<1>1. s.list[f] \in Seq(Blocks) /\ BlockAt(s, f, n) = s.list[f][n + 1]
  BY DEF Good, Fits, Tables, ListsOK, BlockAt
<1>2. s.list[f][n + 1] \in Blocks
  BY <1>1
<1> QED
  BY <1>1, <1>2, GeometryAssumption DEF Blocks, None, GeometryAssumption

LEMMA BlockAtIs ==
  ASSUME NEW s, Good(s), NEW f \in Files, NEW n \in Nat, BlockAt(s, f, n) # None
  PROVE  /\ BlockAt(s, f, n) = s.list[f][n + 1] /\ BlockAt(s, f, n) \in Blocks
         /\ n < Len(s.list[f]) /\ n + 1 \in 1 .. Len(s.list[f])
         /\ s.fl[BlockAt(s, f, n)].mark = "valid" /\ s.fl[BlockAt(s, f, n)].file = f /\ s.fl[BlockAt(s, f, n)].num = n
<1>1. n < Len(s.list[f]) /\ BlockAt(s, f, n) = s.list[f][n + 1]
  BY DEF BlockAt
<1>2. s.list[f] \in Seq(Blocks) /\ InOrder(s.fl, f, s.list[f])
  BY DEF Good, Fits, Tables, ListsOK, Marked
<1>3. n + 1 \in 1 .. Len(s.list[f]) /\ s.list[f][n + 1] \in Blocks
  BY <1>1, <1>2
<1>4. s.fl[s.list[f][n + 1]].mark = "valid" /\ s.fl[s.list[f][n + 1]].file = f /\ s.fl[s.list[f][n + 1]].num = n
  BY <1>2, <1>3 DEF InOrder
<1> QED
  BY <1>1, <1>3, <1>4

LEMMA ReplaceBlockIs ==
  ASSUME "replace" \in Safe, NEW s, Good(s), NEW f \in Files, NEW n \in Nat
  PROVE  /\ Sound(ReplaceBlock(s, f, n))
         /\ BlockAt(s, f, n) # None => ~ReplaceBlock(s, f, n).halt /\ BlockAt(ReplaceBlock(s, f, n), f, n) # None
<1> DEFINE old == BlockAt(s, f, n)
           new == Head(s.free)
           u == [s EXCEPT !.free = Tail(@)]
           v == BlockCopy(u, old, new)
<1>1. CASE old = None
  BY <1>1, HaltIs DEF ReplaceBlock
<1>2. CASE old # None /\ s.free = <<>>
  <2>1. ReplaceBlock(s, f, n) = Returns(s, "no_space")
    BY <1>2 DEF ReplaceBlock
  <2>2. IsM(s) /\ Alike(s, Returns(s, "no_space"))
    BY ReturnsAlike DEF Good, Fits
  <2> QED
    BY <1>2, <2>1, <2>2, AlikeFits DEF Sound, Alike, SameLists, BlockAt, Good, Fits
<1>3. CASE old # None /\ s.free # <<>>
  <2>1. ReplaceBlock(s, f, n) = Replaced(v, f, n, old, new)
    BY <1>3 DEF ReplaceBlock
  <2>2. Tables(s.fl, s.free, s.dirty, s.list, {}, {}) /\ IsM(s)
    BY DEF Good, Fits
  <2>3. new \in Blocks /\ s.fl[new] = Erased /\ Tables(s.fl, Tail(s.free), s.dirty, s.list, {new}, {})
    BY <1>3, <2>2, TakeFree
  <2>4. IsM(u) /\ u.free = Tail(s.free) /\ u.dirty = s.dirty /\ u.list = s.list /\ u.fl = s.fl /\ u.log = s.log /\ u.halt = s.halt
    BY <2>2 DEF IsM
  <2>5. /\ old = s.list[f][n + 1] /\ old \in Blocks /\ n < Len(s.list[f])
        /\ s.fl[old].mark = "valid" /\ s.fl[old].file = f /\ s.fl[old].num = n
    BY <1>3, BlockAtIs
  <2> HIDE DEF u, new, old
  <2>6. Fits(u, u.list, {new}, {})
    BY <2>3, <2>4 DEF Good, Fits
  <2>7. u.fl[new].mark # "valid" /\ old # new
    BY <2>3, <2>4, <2>5, BlocksAre
  <2>8. CopyMade(u, v, old, new)
    BY <2>6, <2>7, BlockCopyIs
  <2> HIDE DEF v
  <2>9. /\ v.list = s.list /\ Fits(v, v.list, {new}, {})
        /\ v.ret = "ok" => v.fl[new].mark = "valid" /\ v.fl[new].file = f /\ v.fl[new].num = n
    BY <2>4, <2>5, <2>8 DEF CopyMade, SameLists
  <2> DEFINE t == Replaced(v, f, n, v.list[f][n + 1], new)
  <2>10. Good(t) /\ Len(t.list[f]) = Len(v.list[f])
    BY <2>5, <2>9, ReplacedIs
  <2> HIDE DEF t
  <2>11. n < Len(t.list[f]) => BlockAt(t, f, n) # None
    BY <2>10, PlaceIs
  <2> QED
    BY <2>1, <2>5, <2>9, <2>10, <2>11 DEF Sound, Good, Fits, t
<1> QED
  BY <1>1, <1>2, <1>3

-----------------------------------------------------------------------------
(* ffs_page_i8_write                                                       *)

LEMMA SoundIs ==
  ASSUME NEW s, Sound(s)
  PROVE  IsM(s) /\ (~s.halt => Good(s)) /\ FlashOK(s.fl) /\ LogOK(s.log)
BY AllSane DEF Sound, Good, Fits

LEMMA FindBlockIs ==
  ASSUME "replace" \in Safe, NEW s, Good(s), NEW f \in Files, NEW n \in Nat
  PROVE  Sound(FindBlock(s, f, n)) /\ (~FindBlock(s, f, n).halt => BlockAt(FindBlock(s, f, n), f, n) # None)
<1> DEFINE b == BlockAt(s, f, n)
           t == FindBlock(s, f, n)
<1>1. CASE b = None
  <2>1. t = Halt(s) /\ Halt(s).halt
    BY <1>1 DEF FindBlock, Halt, Good, Fits, IsM
  <2> QED
    BY <2>1, HaltIs
<1>2. CASE b # None
  <2> DEFINE u == ReadIndex(s, b)
             v == ReplaceBlock(u, f, n)
  <2>1. t = MakeRoom(u, f, n)
    BY <1>2 DEF FindBlock
  <2>2. Alike(s, u)
    BY ReadIndexAlike DEF Good, Fits
  <2>3. Good(u) /\ BlockAt(u, f, n) # None
    BY <1>2, <2>2, AlikeFits DEF Alike, SameLists, BlockAt, Good, Fits
  <2> HIDE DEF u
  <2>4. CASE ~IsFull(u.ic.index)
    <3>1. t = u
      BY <2>1, <2>4 DEF MakeRoom
    <3> HIDE DEF t
    <3> QED
      BY <2>3, <3>1 DEF Sound, t
  <2>5. CASE IsFull(u.ic.index)
    <3>1. t = Reload(v, f, n)
      BY <2>1, <2>5 DEF MakeRoom
    <3>2. Sound(v) /\ ~v.halt /\ BlockAt(v, f, n) # None
      BY <2>3, ReplaceBlockIs
    <3> HIDE DEF v, t
    <3>3. IsM(v) /\ (~v.halt => Good(v)) /\ FlashOK(v.fl) /\ LogOK(v.log)
      BY <3>2, SoundIs
    <3>4. CASE v.ret # "ok"
      <4>1. t = Halt(v) /\ IsM(t) /\ t.halt /\ t.fl = v.fl /\ t.log = v.log
        BY <3>1, <3>3, <3>4 DEF Reload, Halt, IsM
      <4> QED
        BY <3>3, <4>1 DEF Sound, t
    <3>5. CASE v.ret = "ok"
      <4>1. t = ReadIndex(v, BlockAt(v, f, n)) /\ Alike(v, t)
        BY <3>1, <3>3, <3>5, ReadIndexAlike DEF Reload
      <4>2. Sound(t)
        BY <3>2, <3>3, <4>1, AlikeFits
      <4>3. BlockAt(t, f, n) # None
        BY <3>2, <4>1 DEF Alike, SameLists, BlockAt
      <4> QED
        BY <4>2, <4>3 DEF t
    <3> QED
      BY <3>4, <3>5
  <2> QED
    BY <2>4, <2>5
<1> QED
  BY <1>1, <1>2

(* A block of a file is written over, and stays where it is.               *)
Rewritten(s, t, b, v) == Good(t) /\ SameLists(s, t) /\ t.fl[b] = v

LEMMA RewrittenIs ==
  ASSUME NEW s, Good(s), NEW b \in Blocks, s.fl[b].mark = "valid", NEW gap,
         NEW v, IsBlock(v), v.mark = "valid", v.file = s.fl[b].file, v.num = s.fl[b].num
  PROVE  Rewritten(s, Store(s, b, <<v>>, gap), b, v)
<1> DEFINE one == <<v>>
           g == [s.fl EXCEPT ![b] = v]
           t == Store(s, b, one, gap)
<1>1. Len(one) = 1 /\ one[1] = v
  OBVIOUS
<1>2. IsFlash(s.fl) /\ Tables(s.fl, s.free, s.dirty, s.list, {}, {})
  BY DEF Good, Fits
<1>3. Tables(g, s.free, s.dirty, s.list, {}, {}) /\ IsFlash(g) /\ g[b] = v
  BY <1>2, SetKept, WrittenIs
<1>4. FlashOK(g)
  <2> HIDE DEF g
  <2> QED
    BY <1>3, AllSane
<1> HIDE DEF one, t
<1>5. \A i \in 1 .. Len(one) : FlashOK([s.fl EXCEPT ![b] = one[i]])
  BY <1>1, <1>4
<1>6. Len(one) \in Nat \ {0} /\ IsM(s) /\ LogOK(s.log) /\ ~s.halt
  BY <1>1 DEF Good, Fits
<1>7. Stored(s, t, b, one[Len(one)])
  BY <1>5, <1>6, StoreIs DEF t
<1>8. t.fl = g
  BY <1>1, <1>7 DEF Stored
<1> HIDE DEF g
<1> QED
  BY <1>3, <1>6, <1>7, <1>8 DEF Stored, SameLists, Good, Fits, Rewritten, t, one

(* ffs_block_i8_set_index_entry, and the page before it                    *)
LEMMA WriteEntryIs ==
  ASSUME NEW s, Good(s), NEW b \in Blocks, s.fl[b].mark = "valid", NEW n, NEW d
  PROVE  Good(WriteEntry(s, b, n, d))
<1> DEFINE old == s.fl[b]
           page == [old EXCEPT !.clear = FALSE]
           new == [old EXCEPT !.pages = Append(@, [n |-> n, d |-> IF old.clear THEN d ELSE Junk]), !.clear = TRUE]
           u == Store(s, b, <<page>>, "page")
           t == Store(u, b, <<new>>, "none")
           w == [t EXCEPT !.ic.index = IF s.ic.block = b THEN Append(@, n) ELSE @]
<1>1. WriteEntry(s, b, n, d) = w
  BY DEF WriteEntry, PageAndEntry
<1>2. IsBlock(old)
  BY DEF Good, Fits, IsFlash
<1>3. IsBlock(page) /\ page.mark = "valid" /\ page.file = old.file /\ page.num = old.num
  BY <1>2 DEF IsBlock
<1>4. IsBlock(new) /\ new.mark = "valid" /\ new.file = old.file /\ new.num = old.num
  BY <1>2 DEF IsBlock
<1> HIDE DEF page, new
<1>5. Rewritten(s, u, b, page)
  BY <1>3, RewrittenIs
<1> HIDE DEF u
<1>6. Rewritten(u, t, b, new)
  BY <1>3, <1>4, <1>5, RewrittenIs DEF Rewritten
<1> HIDE DEF t
<1>7. IsM(t) /\ Good(t)
  BY <1>6 DEF Rewritten, Good, Fits
<1>8. Alike(t, w)
  BY <1>7 DEF IsM, Alike, SameLists
<1> QED
  BY <1>1, <1>7, <1>8, AlikeFits

LEMMA ConfirmIs ==
  ASSUME NEW s, Good(s), NEW f, NEW p
  PROVE  Good(Confirm(s, f, p))
<1>1. IsM(s)
  BY DEF Good, Fits
<1>2. Alike(s, s) /\ Alike(s, [s EXCEPT !.size[f] = Max({@, p + 1}), !.ret = "done"])
  BY <1>1 DEF IsM, Alike, SameLists
<1>3. Alike(s, Confirm(s, f, p))
  BY <1>2 DEF Confirm
<1> QED
  BY <1>1, <1>3, AlikeFits

(* Where a page is.                                                        *)
LEMMA PlaceOf ==
  ASSUME NEW p \in Nat
  PROVE  p \div DataPages \in Nat
BY GeometryAssumption DEF GeometryAssumption

LEMMA OverwriteIs ==
  ASSUME NEW s, Good(s), NEW f \in Files, NEW p \in Nat, NEW d, BlockAt(s, f, p \div DataPages) # None
  PROVE  Good(Overwrite(s, f, p, d))
<1> DEFINE n == p \div DataPages
           b == BlockAt(s, f, n)
           u == WriteEntry(s, b, p % DataPages, d)
           v == ReadPage(u, f, p)
<1>1. CASE s.ret = "error"
  BY <1>1 DEF Overwrite
<1>2. CASE s.ret # "error"
  <2>1. Overwrite(s, f, p, d) = Confirm(v, f, p)
    BY <1>2 DEF Overwrite
  <2>2. n \in Nat
    BY PlaceOf
  <2> HIDE DEF n
  <2>3. b \in Blocks /\ s.fl[b].mark = "valid"
    BY <2>2, BlockAtIs DEF n
  <2> HIDE DEF b
  <2>4. Good(u)
    BY <2>3, WriteEntryIs
  <2> HIDE DEF u
  <2>5. IsM(u) /\ Alike(u, v)
    BY <2>4, ReadPageAlike DEF Good, Fits
  <2>6. Good(v)
    BY <2>4, <2>5, AlikeFits
  <2> HIDE DEF v
  <2> QED
    BY <2>1, <2>6, ConfirmIs
<1> QED
  BY <1>1, <1>2

LEMMA WriteToIs ==
  ASSUME NEW s, Sound(s), NEW f \in Files, NEW p \in Nat, NEW d,
         ~s.halt => BlockAt(s, f, p \div DataPages) # None
  PROVE  Sound(WriteTo(s, f, p, d))
<1> DEFINE u == ReadPage(s, f, p)
<1>1. CASE s.halt \/ IsFull(s.ic.index)
  BY <1>1 DEF WriteTo
<1>2. CASE ~(s.halt \/ IsFull(s.ic.index))
  <2>1. WriteTo(s, f, p, d) = Overwrite(u, f, p, d)
    BY <1>2 DEF WriteTo
  <2>2. Good(s) /\ IsM(s)
    BY <1>2, SoundIs
  <2>3. Alike(s, u)
    BY <2>2, ReadPageAlike
  <2> HIDE DEF u
  <2>4. Good(u)
    BY <2>2, <2>3, AlikeFits
  <2>5. BlockAt(u, f, p \div DataPages) # None
    BY <1>2, <2>3 DEF Alike, SameLists, BlockAt
  <2>6. Good(Overwrite(u, f, p, d))
    BY <2>4, <2>5, OverwriteIs
  <2> QED
    BY <2>1, <2>6 DEF Sound
<1> QED
  BY <1>1, <1>2

LEMMA AttemptIs ==
  ASSUME "replace" \in Safe, NEW s, Sound(s), NEW w, w.file \in Files, w.page \in Nat
  PROVE  Sound(Attempt(s, w))
<1> DEFINE n == w.page \div DataPages
           u == IF w.grow THEN AllocBlock(s, w.file) ELSE s
           v == FindBlock(u, w.file, n)
<1>1. CASE s.halt \/ s.ret = "done"
  BY <1>1 DEF Attempt
<1>2. CASE ~(s.halt \/ s.ret = "done")
  <2>1. Attempt(s, w) = WriteTo(v, w.file, w.page, w.data)
    BY <1>2 DEF Attempt, Place
  <2>2. Good(s)
    BY <1>2, SoundIs
  <2>3. Good(u)
    BY <2>2, AllocBlockIs
  <2> HIDE DEF u
  <2>4. n \in Nat
    BY PlaceOf
  <2> HIDE DEF n
  <2>5. Sound(v) /\ (~v.halt => BlockAt(v, w.file, n) # None)
    BY <2>3, <2>4, FindBlockIs
  <2> HIDE DEF v
  <2> QED
    BY <2>1, <2>5, WriteToIs DEF n
<1> QED
  BY <1>1, <1>2

StaysSound(c, i, t) == Sound(t)

Attempting == INSTANCE Loops WITH Op <- Attempt, Inv <- StaysSound

LEMMA WritePageIs ==
  ASSUME "replace" \in Safe, NEW s, Good(s), NEW f \in Files, NEW p \in Nat, NEW d
  PROVE  Sound(WritePage(s, f, p, d))
<1> DEFINE w == [file |-> f, page |-> p, data |-> d, grow |-> Len(s.list[f]) = p \div DataPages]
           work == [i \in 1 .. Attempts |-> w]
           r == Returns(s, "retry")
           u == ForEach(Attempt, r, work)
           e == IF u.ret = "done" THEN "ok" ELSE "error"
<1>1. WritePage(s, f, p, d) = [u EXCEPT !.ret = e]
  BY DEF WritePage
<1>2. Attempts \in Nat
  BY GeometryAssumption DEF GeometryAssumption
<1>3. Len(work) = Attempts /\ \A i \in 1 .. Attempts : work[i] = w
  BY <1>2
<1>4. u = Attempting!Result(r, work)
  BY DEF ForEach, Attempting!Result
<1>5. w.file \in Files /\ w.page \in Nat
  OBVIOUS
<1>6. IsM(s) /\ Alike(s, r)
  BY ReturnsAlike DEF Good, Fits
<1> HIDE DEF work, u, w, r
<1>7. Sound(r)
  BY <1>6, AlikeFits DEF Sound
<1>8. \A t : \A i \in 1 .. Len(work) : StaysSound(0, i - 1, t) => StaysSound(0, i, Attempt(t, work[i]))
  <2> SUFFICES ASSUME NEW t, NEW i \in 1 .. Len(work), Sound(t) PROVE Sound(Attempt(t, work[i]))
    BY DEF StaysSound
  <2>1. work[i] = w
    BY <1>2, <1>3
  <2> QED
    BY <1>5, <2>1, AttemptIs
<1>9. StaysSound(0, Len(work), u)
  BY <1>2, <1>3, <1>4, <1>7, <1>8, Attempting!LoopKeeps DEF StaysSound
<1>10. IsM(u) /\ Sound(u)
  BY <1>9, SoundIs DEF StaysSound
<1> HIDE DEF e
<1>11. Alike(u, [u EXCEPT !.ret = e])
  BY <1>10, ReturnsAlike
<1> QED
  BY <1>1, <1>10, <1>11, AlikeFits

(* A loop that writes pages of a file, one after the other.                *)
Putting == INSTANCE Loops WITH Op <- Put, Inv <- StaysSound

LEMMA PutIs ==
  ASSUME "replace" \in Safe, NEW s, Sound(s), NEW work, Len(work) \in Nat,
         \A i \in 1 .. Len(work) : work[i].file \in Files /\ work[i].page \in Nat
  PROVE  Sound(ForEach(Put, s, work))
<1>1. ForEach(Put, s, work) = Putting!Result(s, work)
  BY DEF ForEach, Putting!Result
<1>2. \A t : \A i \in 1 .. Len(work) : StaysSound(0, i - 1, t) => StaysSound(0, i, Put(t, work[i]))
  <2> SUFFICES ASSUME NEW t, NEW i \in 1 .. Len(work), Sound(t) PROVE Sound(Put(t, work[i]))
    BY DEF StaysSound
  <2>1. CASE t.halt \/ t.ret # "ok"
    BY <2>1 DEF Put
  <2>2. CASE ~(t.halt \/ t.ret # "ok")
    <3>1. Put(t, work[i]) = WritePage(t, work[i].file, work[i].page, work[i].data)
      BY <2>2 DEF Put
    <3>2. Good(t)
      BY <2>2, SoundIs
    <3> QED
      BY <3>1, <3>2, WritePageIs
  <2> QED
    BY <2>1, <2>2
<1>3. StaysSound(0, Len(work), Putting!Result(s, work))
  BY <1>2, Putting!LoopKeeps DEF StaysSound
<1> QED
  BY <1>1, <1>3 DEF StaysSound

LEMMA LeastIs ==
  ASSUME NEW S \in SUBSET Nat, S # {}
  PROVE  Min(S) \in S
<1>1. \E m \in S : \A k \in S : m <= k
  BY Putting!LeastOf
<1> QED
  BY <1>1 DEF Min

-----------------------------------------------------------------------------
(* ffs_page_i8_delete_file: the blocks of a file are marked dirty, one     *)
(* after the other.                                                        *)

Done(q, i) == {q[j] : j \in 1 .. i}

\* After i blocks of c.q.
DirtiedSo(c, i, t) ==
  /\ Fits(t, c.L, c.X \ Done(c.q, i), {}) /\ FlashOK(t.fl) /\ t.list = c.s.list
  /\ \A a \in Blocks : a \notin Done(c.q, i) => t.fl[a] = c.s.fl[a]

Dirtying == INSTANCE Loops WITH Op <- SetDirty, Inv <- DirtiedSo

LEMMA DirtyingIs ==
  ASSUME NEW s, NEW L, NEW X, Fits(s, L, X, {}), FlashOK(s.fl),
         NEW q \in Seq(Blocks), IsInjective(q), ToSet(q) \subseteq X
  PROVE  DirtiedSo([s |-> s, L |-> L, X |-> X, q |-> q], Len(q), ForEach(SetDirty, s, q))
<1> DEFINE c == [s |-> s, L |-> L, X |-> X, q |-> q]
<1>1. ForEach(SetDirty, s, q) = Dirtying!Result(s, q)
  BY DEF ForEach, Dirtying!Result
<1>2. c.s = s /\ c.L = L /\ c.X = X /\ c.q = q
  OBVIOUS
<1> HIDE DEF c
<1>3. Len(q) \in Nat /\ \A i \in 1 .. Len(q) : q[i] \in Blocks /\ q[i] \in X
  BY ToSetIs
<1>4. DirtiedSo(c, 0, s)
  <2>1. Done(q, 0) = {} /\ X \ {} = X
    BY DEF Done
  <2> QED
    BY <1>2, <2>1 DEF DirtiedSo
<1>5. ASSUME NEW t, NEW i \in 1 .. Len(q), DirtiedSo(c, i - 1, t)
      PROVE  DirtiedSo(c, i, SetDirty(t, q[i]))
  <2> DEFINE b == q[i]
             Y == X \ Done(q, i - 1)
             u == SetDirty(t, b)
  <2>1. /\ Fits(t, L, Y, {}) /\ FlashOK(t.fl) /\ t.list = s.list
        /\ \A a \in Blocks : a \notin Done(q, i - 1) => t.fl[a] = s.fl[a]
    BY <1>2, <1>5 DEF DirtiedSo
  <2>2. b \notin Done(q, i - 1)
    <3>1. \A j \in 1 .. i - 1 : j \in 1 .. Len(q) /\ j # i
      BY <1>3
    <3>2. \A j, k \in 1 .. Len(q) : q[j] = q[k] => j = k
      BY DEF IsInjective
    <3> QED
      BY <3>1, <3>2 DEF Done
  <2>3. Done(q, i) = Done(q, i - 1) \cup {b}
    <3>1. 1 .. i = (1 .. i - 1) \cup {i}
      BY <1>3
    <3> QED
      BY <3>1 DEF Done
  <2>4. b \in Y /\ b \in Blocks /\ Y \ {b} = X \ Done(q, i)
    BY <1>3, <2>2, <2>3
  <2> HIDE DEF b, Y, u
  <2>5. SaneBut(t.fl, b)
    BY <2>1, <2>4, SaneOften
  <2>6. Dirtied(t, u, L, Y, {}, b)
    BY <2>1, <2>4, <2>5, SetDirtyIs DEF u
  <2>7. /\ Fits(u, L, X \ Done(q, i), {}) /\ FlashOK(u.fl) /\ u.list = s.list
        /\ u.fl = [t.fl EXCEPT ![b] = Spoiled("dirty")]
    BY <2>1, <2>4, <2>6 DEF Dirtied
  <2>8. \A a \in Blocks : a \notin Done(q, i) => u.fl[a] = s.fl[a]
    BY <2>1, <2>3, <2>7 DEF FlashOK, IsFlash
  <2> QED
    BY <1>2, <2>7, <2>8 DEF DirtiedSo, u, b
<1>6. DirtiedSo(c, Len(q), Dirtying!Result(s, q))
  BY <1>3, <1>4, <1>5, Dirtying!LoopKeeps
<1> QED
  BY <1>1, <1>6 DEF c

\* What t has after file f of s was deleted, with the lists L of files.
Deleted(s, t, f, L, X) ==
  /\ Fits(t, L, X \ ToSet(s.list[f]), {}) /\ FlashOK(t.fl) /\ t.list = [s.list EXCEPT ![f] = <<>>]
  /\ \A a \in Blocks : a \notin ToSet(s.list[f]) => t.fl[a] = s.fl[a]

LEMMA DeleteIs ==
  ASSUME NEW s, NEW L, NEW X, Fits(s, L, X, {}), FlashOK(s.fl), NEW f,
         s.list[f] \in Seq(Blocks), IsInjective(s.list[f]), ToSet(s.list[f]) \subseteq X
  PROVE  Deleted(s, DeleteFile(s, f), f, L, X)
<1> DEFINE q == s.list[f]
           u == ForEach(SetDirty, s, q)
           t == DeleteFile(s, f)
<1>1. DirtiedSo([s |-> s, L |-> L, X |-> X, q |-> q], Len(q), u)
  BY DirtyingIs
<1>2. Done(q, Len(q)) = ToSet(q)
  BY ToSetIs DEF Done
<1>3. t = [u EXCEPT !.list[f] = <<>>, !.size[f] = NoSize, !.ret = "ok"]
  BY DEF DeleteFile
<1> HIDE DEF u, q, t
<1>4. /\ Fits(u, L, X \ ToSet(q), {}) /\ FlashOK(u.fl) /\ u.list = s.list
      /\ \A a \in Blocks : a \notin ToSet(q) => u.fl[a] = s.fl[a]
  BY <1>1, <1>2 DEF DirtiedSo
<1>5. /\ IsM(t) /\ t.list = [u.list EXCEPT ![f] = <<>>] /\ t.fl = u.fl /\ t.free = u.free /\ t.dirty = u.dirty
      /\ t.log = u.log /\ t.halt = u.halt
  BY <1>3, <1>4 DEF Fits, IsM
<1>6. Fits(t, L, X \ ToSet(q), {})
  BY <1>4, <1>5 DEF Fits
<1> QED
  BY <1>4, <1>5, <1>6 DEF Deleted, q, t

LEMMA DeleteGood ==
  ASSUME NEW s, Good(s), NEW f \in Files
  PROVE  Good(DeleteFile(s, f))
<1> DEFINE L == [s.list EXCEPT ![f] = <<>>]
           X == ToSet(s.list[f])
           t == DeleteFile(s, f)
<1>1. Tables(s.fl, s.free, s.dirty, s.list, {}, {}) /\ IsFlash(s.fl)
  BY DEF Good, Fits
<1>2. /\ s.list[f] \in Seq(Blocks) /\ IsInjective(s.list[f])
      /\ Tables(s.fl, s.free, s.dirty, L, X, {})
  BY <1>1, DropList
<1>3. FlashOK(s.fl) /\ X \ X = {}
  BY <1>1, AllSane
<1> HIDE DEF L, t
<1>4. Fits(s, L, X, {})
  BY <1>2 DEF Good, Fits
<1>5. Deleted(s, t, f, L, X)
  BY <1>2, <1>3, <1>4, DeleteIs DEF t
<1> QED
  BY <1>3, <1>5 DEF Deleted, Good, L, t

-----------------------------------------------------------------------------
(* ffs_block_v_init: the blocks that are free and those that are dirty are *)
(* put into their lists, and those that are valid stay loose.              *)

NoLists   == [f \in Files |-> <<>>]
Valids(fl) == {b \in Blocks : fl[b].mark = "valid"}

\* The headers of the blocks before i have been seen.
HeadersSeen(c, i, t) ==
  /\ Fits(t, NoLists, {b \in Blocks : b >= i} \cup Valids(t.fl), Blocks)
  /\ FlashOK(t.fl) /\ t.list = NoLists

Heading == INSTANCE Loops WITH Op <- Header, Inv <- HeadersSeen

LEMMA NumberedIs ==
  /\ Len(BlockSeq) = NBlocks /\ NBlocks \in Nat
  /\ \A i \in 1 .. NBlocks : BlockSeq[i] = i - 1 /\ i - 1 \in Blocks
<1>1. NBlocks \in Nat
  BY GeometryAssumption DEF GeometryAssumption
<1>2. BlockSeq = [i \in 1 .. NBlocks |-> i - 1]
  BY DEF BlockSeq
<1> QED
  BY <1>1, <1>2 DEF Blocks

LEMMA NoTablesIs ==
  ASSUME NEW fl, FlashOK(fl)
  PROVE  HeadersSeen(0, 0, NoTables(fl))
<1> DEFINE t == NoTables(fl)
<1>1. /\ IsM(t) /\ t.fl = fl /\ t.free = <<>> /\ t.dirty = <<>> /\ t.log = <<>> /\ ~t.halt /\ t.list = NoLists
  BY DEF NoTables, IsM, NoLists
<1> HIDE DEF t
<1>2. NoLists \in [Files -> Seq(Blocks)] /\ \A f \in Files : NoLists[f] = <<>>
  BY DEF NoLists
<1>3. <<>> \in Seq(Blocks) /\ IsInjective(<<>>) /\ ToSet(<<>>) = {}
  BY DEF IsInjective, ToSet
<1>4. ListsOK(<<>>, <<>>, NoLists) /\ Marked(fl, <<>>, <<>>, NoLists, Blocks)
  BY <1>2, <1>3 DEF ListsOK, Marked, InOrder
<1>5. \A b : ~Kept(<<>>, <<>>, NoLists, b)
  BY <1>2, <1>3 DEF Kept, HasBlock
<1>6. {b \in Blocks : b >= 0} \cup Valids(fl) = Blocks
  BY DEF Blocks, Valids
<1>7. Tables(fl, <<>>, <<>>, NoLists, Blocks, Blocks)
  BY <1>4, <1>5 DEF Tables
<1> QED
  BY <1>1, <1>6, <1>7, NothingWritten DEF HeadersSeen, Fits, FlashOK, t

LEMMA HeaderIs ==
  ASSUME NEW t, NEW i \in 1 .. NBlocks, HeadersSeen(0, i - 1, t)
  PROVE  HeadersSeen(0, i, Header(t, i - 1))
<1> DEFINE b == i - 1
           X == {a \in Blocks : a >= b} \cup Valids(t.fl)
           Y == {a \in Blocks : a >= i} \cup Valids(t.fl)
           u == Header(t, b)
<1>1. b \in Blocks /\ i \in Nat /\ b \in X
  BY NumberedIs
<1>2. Fits(t, NoLists, X, Blocks) /\ FlashOK(t.fl) /\ t.list = NoLists
  BY DEF HeadersSeen
<1>3. IsM(t) /\ IsFlash(t.fl) /\ Tables(t.fl, t.free, t.dirty, NoLists, X, Blocks)
  BY <1>2 DEF Fits
<1>4. \A a \in Blocks : a # b => (a >= b <=> a >= i)
  BY <1>1 DEF Blocks
<1>5. t.fl[b].mark # "valid" => X \ {b} = Y
  BY <1>1, <1>4 DEF Valids
<1>6. t.fl[b].mark = "valid" => X = Y
  BY <1>1, <1>4 DEF Valids
<1> HIDE DEF X, Y
<1>7. CASE t.fl[b].mark \in {"free", "part"}
  <2>1. u = [t EXCEPT !.free = Append(@, b)]
    BY <1>7 DEF Header, IsDirty
  <2>2. Tables(t.fl, Append(t.free, b), t.dirty, NoLists, X \ {b}, Blocks)
    BY <1>1, <1>3, <1>7, PutFree DEF Fresh
  <2>3. /\ IsM(u) /\ u.free = Append(t.free, b) /\ u.dirty = t.dirty /\ u.fl = t.fl /\ u.list = t.list
        /\ u.log = t.log /\ u.halt = t.halt
    BY <1>3, <2>1 DEF IsM
  <2> HIDE DEF u
  <2>4. X \ {b} = Y
    BY <1>5, <1>7
  <2> QED
    BY <1>2, <2>2, <2>3, <2>4 DEF HeadersSeen, Fits, Y, u
<1>8. CASE IsDirty(t.fl, b)
  <2>1. t.fl[b].mark \in {"dirty", "torn"}
    BY <1>8 DEF IsDirty
  <2>2. u = [t EXCEPT !.dirty = Append(@, b)]
    BY <1>8, <2>1 DEF Header, IsDirty
  <2>3. Tables(t.fl, t.free, Append(t.dirty, b), NoLists, X \ {b}, Blocks)
    BY <1>1, <1>3, <2>1, PutDirty
  <2>4. /\ IsM(u) /\ u.free = t.free /\ u.dirty = Append(t.dirty, b) /\ u.fl = t.fl /\ u.list = t.list
        /\ u.log = t.log /\ u.halt = t.halt
    BY <1>3, <2>2 DEF IsM
  <2> HIDE DEF u
  <2>5. X \ {b} = Y
    BY <1>5, <2>1
  <2> QED
    BY <1>2, <2>3, <2>4, <2>5 DEF HeadersSeen, Fits, Y, u
<1>9. CASE t.fl[b].mark = "unread"
  <2>1. u = SetDirty(t, b)
    BY <1>9 DEF Header, IsDirty
  <2>2. SaneBut(t.fl, b)
    BY <1>1, <1>2, SaneOften
  <2>3. Dirtied(t, SetDirty(t, b), NoLists, X, Blocks, b)
    BY <1>1, <1>2, <2>2, SetDirtyIs
  <2> HIDE DEF u
  <2>4. /\ Fits(u, NoLists, X \ {b}, Blocks) /\ FlashOK(u.fl) /\ u.list = NoLists
        /\ u.fl = [t.fl EXCEPT ![b] = Spoiled("dirty")]
    BY <1>2, <2>1, <2>3 DEF Dirtied
  <2>5. Valids(u.fl) = Valids(t.fl)
    <3>1. u.fl[b].mark # "valid" /\ \A a \in Blocks : a # b => u.fl[a] = t.fl[a]
      BY <1>1, <1>3, <2>4, BlocksAre DEF IsFlash
    <3> QED
      BY <1>9, <3>1 DEF Valids
  <2>6. X \ {b} = {a \in Blocks : a >= i} \cup Valids(u.fl)
    BY <1>5, <1>9, <2>5 DEF Y
  <2> QED
    BY <2>4, <2>6 DEF HeadersSeen, u
<1>10. CASE t.fl[b].mark = "valid"
  <2>1. u = t
    BY <1>10 DEF Header, IsDirty
  <2> HIDE DEF u
  <2>2. X = Y
    BY <1>6, <1>10
  <2> QED
    BY <1>2, <2>1, <2>2 DEF HeadersSeen, Y, u
<1>11. t.fl[b].mark \in {"free", "part", "torn", "unread", "valid", "dirty"}
  BY <1>1, <1>3 DEF IsFlash, IsBlock, Fresh
<1> QED
  BY <1>7, <1>8, <1>9, <1>10, <1>11 DEF IsDirty

(* All blocks but those that are valid are in a list.                      *)
BlocksListed(t) == Fits(t, NoLists, Valids(t.fl), {}) /\ FlashOK(t.fl) /\ t.list = NoLists

(* ffs_block_i8_verify_free_space: one free block may be other than erased *)
LEMMA VerifyIs ==
  ASSUME NEW s, Fits(s, NoLists, Valids(s.fl), Blocks), FlashOK(s.fl), s.list = NoLists
  PROVE  BlocksListed(VerifyFreeSpace(s))
<1> DEFINE bad == {i \in DOMAIN s.free : s.fl[s.free[i]] # Erased}
           V == Valids(s.fl)
<1>1. IsM(s) /\ IsFlash(s.fl) /\ Tables(s.fl, s.free, s.dirty, NoLists, V, Blocks)
  BY DEF Fits
<1>2. /\ s.free \in Seq(Blocks) /\ IsInjective(s.free) /\ DOMAIN s.free = 1 .. Len(s.free) /\ Len(s.free) \in Nat
      /\ ToSet(s.free) = {s.free[i] : i \in 1 .. Len(s.free)}
  BY <1>1, ToSetIs DEF Tables, ListsOK
<1>3. \A b \in ToSet(s.free) : b \in Blocks /\ s.fl[b].mark \in Fresh
  BY <1>1, ToSetIs DEF Tables, ListsOK, Marked
<1>4. CASE bad = {}
  <2>1. \A b \in ToSet(s.free) : s.fl[b] = Erased
    BY <1>2, <1>4
  <2>2. VerifyFreeSpace(s) = s
    BY <1>4 DEF VerifyFreeSpace
  <2>3. Tables(s.fl, s.free, s.dirty, NoLists, V, {})
    BY <1>1, <2>1 DEF Tables, Marked
  <2> QED
    BY <2>2, <2>3 DEF Fits, BlocksListed
<1>5. CASE bad # {}
  <2> DEFINE k == Min(bad)
             b == s.free[k]
             u == [s EXCEPT !.free = RemoveAt(@, k)]
             t == SetDirty(u, b)
  <2>1. VerifyFreeSpace(s) = t
    BY <1>5 DEF VerifyFreeSpace
  <2>2. bad \in SUBSET Nat
    BY <1>2
  <2>3. k \in bad
    <3> HIDE DEF bad
    <3> QED
      BY <1>5, <2>2, LeastIs
  <2>4. k \in 1 .. Len(s.free) /\ b \in Blocks /\ b \in ToSet(s.free) /\ s.fl[b] # Erased
    BY <1>2, <1>3, <2>3
  <2> HIDE DEF bad, k
  <2>5. /\ RemoveAt(s.free, k) \in Seq(Blocks) /\ IsInjective(RemoveAt(s.free, k))
        /\ ToSet(RemoveAt(s.free, k)) = ToSet(s.free) \ {b}
    BY <1>2, <2>4, RemoveAtIs
  <2>6. /\ IsM(u) /\ u.free = RemoveAt(s.free, k) /\ u.dirty = s.dirty /\ u.fl = s.fl /\ u.list = s.list
        /\ u.log = s.log /\ u.halt = s.halt
    BY <1>1 DEF IsM
  <2> HIDE DEF u, b
  <2>7. s.fl[b].mark \in Fresh /\ b \notin V
    BY <1>3, <2>4 DEF Valids, Fresh
  <2>8. \A a \in ToSet(s.free) \ {b} : s.fl[a] = Erased
    BY <1>3, <2>4, <2>7 DEF FlashOK, Sane, Spoilt
  <2>9. ListsOK(u.free, s.dirty, NoLists) /\ Marked(s.fl, u.free, s.dirty, NoLists, {})
    BY <1>1, <1>3, <2>5, <2>6, <2>8 DEF Tables, ListsOK, Marked
  <2>10. V \cup {b} = {a \in Blocks : ~Kept(u.free, s.dirty, NoLists, a)}
    <3>1. V = {a \in Blocks : ~Kept(s.free, s.dirty, NoLists, a)}
      BY <1>1 DEF Tables
    <3>2. b \notin ToSet(s.dirty) /\ ~HasBlock(NoLists, b)
      BY <1>1, <2>4, <2>7, KeptIs DEF Fresh
    <3>3. b \in V \cup {b} /\ ~Kept(u.free, s.dirty, NoLists, b)
      BY <2>5, <2>6, <3>2 DEF Kept
    <3>4. \A a \in Blocks : a # b => (Kept(u.free, s.dirty, NoLists, a) <=> Kept(s.free, s.dirty, NoLists, a))
      BY <2>5, <2>6 DEF Kept
    <3> HIDE DEF V
    <3> QED
      BY <2>4, <3>1, <3>3, <3>4
  <2>11. Fits(u, NoLists, V \cup {b}, {})
    BY <1>1, <2>6, <2>9, <2>10 DEF Fits, Tables
  <2>12. SaneBut(u.fl, b)
    BY <2>4, <2>6, SaneOften
  <2>13. Dirtied(u, t, NoLists, V \cup {b}, {}, b)
    BY <2>11, <2>12, SetDirtyIs
  <2> HIDE DEF t
  <2>14. (V \cup {b}) \ {b} = V
    BY <2>7
  <2>15. Valids(t.fl) = V
    <3>1. t.fl = [s.fl EXCEPT ![b] = Spoiled("dirty")]
      BY <2>6, <2>13 DEF Dirtied
    <3>2. t.fl[b].mark # "valid" /\ \A a \in Blocks : a # b => t.fl[a] = s.fl[a]
      BY <1>1, <2>4, <3>1, BlocksAre DEF IsFlash
    <3> QED
      BY <2>4, <2>7, <3>2 DEF Valids
  <2> QED
    BY <2>1, <2>6, <2>13, <2>14, <2>15 DEF Dirtied, BlocksListed
<1> QED
  BY <1>4, <1>5

LEMMA BlockInitIs ==
  ASSUME NEW fl, FlashOK(fl)
  PROVE  BlocksListed(BlockInit(fl))
<1> DEFINE s == ForEach(Header, NoTables(fl), BlockSeq)
<1>1. s = Heading!Result(NoTables(fl), BlockSeq)
  BY DEF ForEach, Heading!Result
<1>2. \A t : \A i \in 1 .. Len(BlockSeq) : HeadersSeen(0, i - 1, t) => HeadersSeen(0, i, Header(t, BlockSeq[i]))
  BY NumberedIs, HeaderIs
<1>3. HeadersSeen(0, Len(BlockSeq), s)
  BY <1>1, <1>2, NumberedIs, NoTablesIs, Heading!LoopKeeps
<1> HIDE DEF s
<1>4. {b \in Blocks : b >= NBlocks} \cup Valids(s.fl) = Valids(s.fl)
  BY NumberedIs DEF Blocks
<1>5. Fits(s, NoLists, Valids(s.fl), Blocks) /\ FlashOK(s.fl) /\ s.list = NoLists
  BY <1>3, <1>4, NumberedIs DEF HeadersSeen
<1>6. BlockInit(fl) = VerifyFreeSpace(s)
  BY DEF BlockInit, s
<1> QED
  BY <1>5, <1>6, VerifyIs

-----------------------------------------------------------------------------
(* ffs_page_v_init: the valid blocks are put into the lists of their       *)
(* files, in the order in which they are found.                            *)

Owned(fl, f) == {b \in Blocks : fl[b].mark = "valid" /\ fl[b].file = f}

\* The blocks before i have been put into the lists, and nothing else done.
Enlisted(s, i, t) ==
  /\ IsM(t) /\ t.fl = s.fl /\ t.free = s.free /\ t.dirty = s.dirty /\ t.log = s.log /\ t.halt = s.halt
  /\ t.list \in [Files -> Seq(Blocks)]
  /\ \A f \in Files : IsInjective(t.list[f]) /\ ToSet(t.list[f]) = {b \in Owned(s.fl, f) : b < i}

Enlisting == INSTANCE Loops WITH Op <- Enlist, Inv <- Enlisted

LEMMA EnlistIs ==
  ASSUME NEW s, FlashOK(s.fl), NEW t, NEW i \in 1 .. NBlocks, Enlisted(s, i - 1, t)
  PROVE  Enlisted(s, i, Enlist(t, i - 1))
<1> DEFINE b == i - 1
           u == Enlist(t, b)
           f == s.fl[b].file
<1>1. b \in Blocks /\ i \in Nat
  BY GeometryAssumption DEF Blocks, GeometryAssumption
<1>2. \A a \in Blocks : a < i <=> a < b \/ a = b
  BY <1>1 DEF Blocks
<1>3. /\ IsM(t) /\ t.fl = s.fl /\ t.free = s.free /\ t.dirty = s.dirty /\ t.log = s.log /\ t.halt = s.halt
      /\ t.list \in [Files -> Seq(Blocks)]
      /\ \A g \in Files : IsInjective(t.list[g]) /\ ToSet(t.list[g]) = {a \in Owned(s.fl, g) : a < b}
  BY DEF Enlisted
<1>4. CASE s.fl[b].mark # "valid"
  <2>1. u = t
    BY <1>3, <1>4 DEF Enlist
  <2>2. \A g \in Files : {a \in Owned(s.fl, g) : a < b} = {a \in Owned(s.fl, g) : a < i}
    BY <1>2, <1>4 DEF Owned
  <2> HIDE DEF u
  <2> QED
    BY <1>3, <2>1, <2>2 DEF Enlisted, u
<1>5. CASE s.fl[b].mark = "valid"
  <2>1. u = [t EXCEPT !.list[f] = Append(@, b)]
    BY <1>3, <1>5 DEF Enlist
  <2>2. f \in Files
    BY <1>1, <1>5 DEF FlashOK, Sane, Placed
  <2> DEFINE q == t.list[f]
             r == Append(q, b)
  <2>3. /\ IsM(u) /\ u.list = [t.list EXCEPT ![f] = r] /\ u.fl = t.fl /\ u.free = t.free /\ u.dirty = t.dirty
        /\ u.log = t.log /\ u.halt = t.halt
    BY <1>3, <2>1 DEF IsM
  <2>4. q \in Seq(Blocks) /\ IsInjective(q) /\ ToSet(q) = {a \in Owned(s.fl, f) : a < b}
    BY <1>3, <2>2
  <2>5. b \notin ToSet(q)
    BY <1>1, <2>4 DEF Blocks
  <2> HIDE DEF q
  <2>6. r \in Seq(Blocks) /\ IsInjective(r) /\ ToSet(r) = ToSet(q) \cup {b}
    BY <1>1, <2>4, <2>5, AppendIs
  <2> HIDE DEF r, u
  <2>7. u.list \in [Files -> Seq(Blocks)] /\ u.list[f] = r /\ \A g \in Files : g # f => u.list[g] = t.list[g]
    BY <1>3, <2>2, <2>3, <2>6
  <2>8. ToSet(r) = {a \in Owned(s.fl, f) : a < i}
    BY <1>1, <1>2, <1>5, <2>4, <2>6 DEF Owned
  <2>9. \A g \in Files : g # f => {a \in Owned(s.fl, g) : a < b} = {a \in Owned(s.fl, g) : a < i}
    BY <1>2 DEF Owned
  <2> HIDE DEF f
  <2>10. \A g \in Files : IsInjective(u.list[g]) /\ ToSet(u.list[g]) = {a \in Owned(s.fl, g) : a < i}
    BY <1>3, <2>6, <2>7, <2>8, <2>9
  <2> QED
    BY <1>3, <2>3, <2>7, <2>10 DEF Enlisted, u
<1> QED
  BY <1>4, <1>5

(* The files before k have their lists, in order; the lists of the others  *)
(* hold their blocks, in some order, which are taken to be loose.          *)
Upto(t, k)   == [f \in Files |-> IF f < k THEN t.list[f] ELSE <<>>]
Later(fl, k) == {b \in Blocks : fl[b].mark = "valid" /\ fl[b].file >= k}
Whole(t, f)  == IsInjective(t.list[f]) /\ ToSet(t.list[f]) = Owned(t.fl, f)

FilesMade(c, k, t) ==
  /\ Fits(t, Upto(t, k), Later(t.fl, k), {}) /\ FlashOK(t.fl)
  /\ t.list \in [Files -> Seq(Blocks)]
  /\ \A f \in Files : f >= k => Whole(t, f)

LEMMA EnlistingIs ==
  ASSUME NEW s, BlocksListed(s)
  PROVE  FilesMade(0, 0, ForEach(Enlist, s, BlockSeq))
<1> DEFINE t == ForEach(Enlist, s, BlockSeq)
<1>1. t = Enlisting!Result(s, BlockSeq)
  BY DEF ForEach, Enlisting!Result
<1>2. Fits(s, NoLists, Valids(s.fl), {}) /\ FlashOK(s.fl) /\ s.list = NoLists
  BY DEF BlocksListed
<1>3. Enlisted(s, 0, s)
  <2>1. \A f \in Files : {b \in Owned(s.fl, f) : b < 0} = {}
    BY DEF Owned, Blocks
  <2>2. IsInjective(<<>>) /\ ToSet(<<>>) = {} /\ <<>> \in Seq(Blocks)
    BY DEF IsInjective, ToSet
  <2>3. s.list \in [Files -> Seq(Blocks)] /\ \A f \in Files : s.list[f] = <<>>
    BY <1>2, <2>2 DEF NoLists
  <2> QED
    BY <1>2, <2>1, <2>2, <2>3 DEF Enlisted, Fits
<1>4. \A r : \A i \in 1 .. Len(BlockSeq) : Enlisted(s, i - 1, r) => Enlisted(s, i, Enlist(r, BlockSeq[i]))
  BY <1>2, NumberedIs, EnlistIs
<1>5. Enlisted(s, Len(BlockSeq), t)
  BY <1>1, <1>3, <1>4, NumberedIs, Enlisting!LoopKeeps
<1> HIDE DEF t
<1>6. /\ IsM(t) /\ t.fl = s.fl /\ t.free = s.free /\ t.dirty = s.dirty /\ t.log = s.log /\ t.halt = s.halt
      /\ t.list \in [Files -> Seq(Blocks)]
      /\ \A f \in Files : IsInjective(t.list[f]) /\ ToSet(t.list[f]) = {b \in Owned(s.fl, f) : b < NBlocks}
  BY <1>5, NumberedIs DEF Enlisted
<1>7. \A f \in Files : {b \in Owned(s.fl, f) : b < NBlocks} = Owned(s.fl, f)
  BY NumberedIs DEF Owned, Blocks
<1>8. Upto(t, 0) = NoLists
  BY DEF Upto, NoLists, Files
<1>9. Later(t.fl, 0) = Valids(s.fl)
  BY <1>2, <1>6 DEF Later, Valids, FlashOK, Sane, Placed, Files
<1>10. Fits(t, NoLists, Valids(s.fl), {})
  BY <1>2, <1>6 DEF Fits
<1> QED
  BY <1>2, <1>6, <1>7, <1>8, <1>9, <1>10 DEF FilesMade, Whole, t

-----------------------------------------------------------------------------
(* The blocks of a file without a gap are put in their order.              *)

\* The places of the blocks of a file, which are different ones.
LEMMA PlacesDiffer ==
  ASSUME NEW t, FlashOK(t.fl), NEW f, NEW q \in Seq(Blocks), IsInjective(q), ToSet(q) = Owned(t.fl, f)
  PROVE  /\ \A b \in ToSet(q) : b \in Blocks /\ NumAt(t, b) \in Nat
         /\ \A a, b \in ToSet(q) : NumAt(t, a) = NumAt(t, b) => a = b
         /\ Doubles(t, q) = {}
<1>1. \A b \in ToSet(q) : b \in Blocks /\ t.fl[b].mark = "valid" /\ t.fl[b].file = f /\ NumAt(t, b) \in Nat
  BY DEF Owned, FlashOK, Sane, Placed, NumAt
<1>2. \A a, b \in ToSet(q) : NumAt(t, a) = NumAt(t, b) => a = b
  BY <1>1 DEF FlashOK, Sane, Twins, NumAt
<1>3. ToSet(q) = {q[i] : i \in 1 .. Len(q)} /\ DOMAIN q = 1 .. Len(q) /\ Len(q) \in Nat
  BY ToSetIs
<1>4. ASSUME NEW i \in 1 .. Len(q), NEW j \in 1 .. i - 1, NumAt(t, q[j]) = NumAt(t, q[i]) PROVE FALSE
  <2>1. j \in 1 .. Len(q) /\ j # i /\ q[i] \in ToSet(q) /\ q[j] \in ToSet(q)
    BY <1>3
  <2>2. q[i] = q[j]
    BY <1>2, <1>4, <2>1
  <2> QED
    BY <2>1, <2>2 DEF IsInjective
<1>5. Doubles(t, q) = {}
  BY <1>3, <1>4 DEF Doubles
<1> QED
  BY <1>1, <1>2, <1>5

\* Numbers without a gap.
Closed(N) == N \subseteq Nat /\ \A n \in N : n > 0 => n - 1 \in N

LEMMA ClosedIs ==
  ASSUME NEW N, Closed(N), NEW n \in N, NEW k \in 0 .. n
  PROVE  k \in N
<1> DEFINE S == {m \in Nat : m <= n /\ n - m \notin N}
<1>1. n \in Nat
  BY DEF Closed
<1>2. S = {}
  <2> SUFFICES ASSUME S # {} PROVE FALSE
    OBVIOUS
  <2>1. PICK m \in S : \A j \in S : m <= j
    <3> S \in SUBSET Nat
      OBVIOUS
    <3> HIDE DEF S
    <3> QED
      BY Putting!LeastOf
  <2>2. m \in Nat /\ m <= n /\ n - m \notin N /\ m # 0
    BY <1>1, <2>1
  <2>3. m - 1 \in Nat /\ m - 1 \notin S
    BY <2>1, <2>2
  <2>4. n - (m - 1) \in N /\ n - (m - 1) > 0
    BY <1>1, <2>2, <2>3
  <2>5. n - (m - 1) - 1 \in N /\ n - (m - 1) - 1 = n - m
    BY <1>1, <2>2, <2>4 DEF Closed
  <2> QED
    BY <2>2, <2>5
<1>3. n - k \in Nat /\ n - k <= n /\ n - (n - k) = k
  BY <1>1
<1> QED
  BY <1>2, <1>3

(* As many numbers without a gap as q is long are those below its length.  *)
Numbers(N, m, g) ==
  /\ DOMAIN g = 1 .. m /\ N = {g[i] : i \in 1 .. m} /\ Closed(N)
  /\ \A i, j \in 1 .. m : g[i] = g[j] => i = j

LEMMA NumbersAre ==
  ASSUME NEW m \in Nat, NEW g, NEW N, Numbers(N, m, g)
  PROVE  N = 0 .. m - 1
<1>4. DOMAIN g = 1 .. m /\ N = {g[i] : i \in 1 .. m} /\ Closed(N) /\ \A i, j \in 1 .. m : g[i] = g[j] => i = j
  BY DEF Numbers
<1>1. N \subseteq Nat
  BY <1>4 DEF Closed
<1>2. ASSUME NEW n \in N, ~(n < m) PROVE FALSE
  <2>1. n \in Nat /\ \A k \in 0 .. n : k \in N
    BY <1>1, <1>2, <1>4, ClosedIs
  <2> DEFINE h == [k \in 0 .. n |-> CHOOSE i \in 1 .. m : g[i] = k]
  <2>2. \A k \in 0 .. n : h[k] \in 1 .. m /\ g[h[k]] = k
    BY <1>4, <2>1
  <2>3. h \in [0 .. n -> 1 .. m]
    BY <2>2
  <2>4. /\ IsFiniteSet(0 .. n) /\ Cardinality(0 .. n) = n + 1
        /\ IsFiniteSet(1 .. m) /\ Cardinality(1 .. m) = m
    <3>1. 0 \in Int /\ 1 \in Int /\ n \in Int /\ m \in Int /\ ~(0 > n)
      BY <2>1
    <3>2. IsFiniteSet(0 .. n) /\ Cardinality(0 .. n) = IF 0 > n THEN 0 ELSE n - 0 + 1
      BY <3>1, FS_Interval
    <3>3. IsFiniteSet(1 .. m) /\ Cardinality(1 .. m) = IF 1 > m THEN 0 ELSE m - 1 + 1
      BY <3>1, FS_Interval
    <3> QED
      BY <2>1, <3>2, <3>3
  <2> HIDE DEF h
  <2>5. \E x, y \in 0 .. n : x # y /\ h[x] = h[y]
    <3>1. Cardinality(1 .. m) < Cardinality(0 .. n)
      BY <1>2, <2>1, <2>4
    <3> QED
      BY <2>3, <2>4, <3>1, FS_PigeonHole
  <2> QED
    BY <2>2, <2>5
<1>3. ASSUME NEW k \in 0 .. m - 1, k \notin N PROVE FALSE
  <2>1. \A n \in N : n \in 0 .. k - 1
    <3> SUFFICES ASSUME NEW n \in N, ~(n < k) PROVE FALSE
      BY <1>1
    <3>1. k \in 0 .. n
      BY <1>1
    <3> QED
      BY <1>3, <1>4, <3>1, ClosedIs
  <2> DEFINE h == [i \in 1 .. m |-> g[i]]
  <2>3. h \in [1 .. m -> 0 .. k - 1] /\ \A i \in 1 .. m : h[i] = g[i]
    BY <1>4, <2>1
  <2>4. /\ IsFiniteSet(0 .. k - 1) /\ Cardinality(0 .. k - 1) = k
        /\ IsFiniteSet(1 .. m) /\ Cardinality(1 .. m) = m
    <3>1. 0 \in Int /\ 1 \in Int /\ k - 1 \in Int /\ m \in Int
      OBVIOUS
    <3>2. IsFiniteSet(0 .. k - 1) /\ Cardinality(0 .. k - 1) = IF 0 > k - 1 THEN 0 ELSE k - 1 - 0 + 1
      BY <3>1, FS_Interval
    <3>3. IsFiniteSet(1 .. m) /\ Cardinality(1 .. m) = IF 1 > m THEN 0 ELSE m - 1 + 1
      BY <3>1, FS_Interval
    <3> QED
      BY <3>2, <3>3
  <2> HIDE DEF h
  <2>5. \E x, y \in 1 .. m : x # y /\ h[x] = h[y]
    <3>1. Cardinality(0 .. k - 1) < Cardinality(1 .. m)
      BY <2>4
    <3> QED
      BY <2>3, <2>4, <3>1, FS_PigeonHole
  <2> QED
    BY <1>4, <2>3, <2>5
<1>5. \A n \in N : n \in 0 .. m - 1
  BY <1>1, <1>2
<1>6. \A k \in 0 .. m - 1 : k \in N
  BY <1>3
<1> QED
  BY <1>5, <1>6

LEMMA OrderedIs ==
  ASSUME NEW t, FlashOK(t.fl), NEW f, NEW q \in Seq(Blocks), IsInjective(q), ToSet(q) = Owned(t.fl, f),
         ~HasGap(t, q)
  PROVE  /\ Ordered(t, q) \in Seq(Blocks) /\ IsInjective(Ordered(t, q))
         /\ ToSet(Ordered(t, q)) = ToSet(q) /\ InOrder(t.fl, f, Ordered(t, q))
<1> DEFINE m == Len(q)
           g == [i \in 1 .. m |-> NumAt(t, q[i])]
           N == {g[i] : i \in 1 .. m}
           o == Ordered(t, q)
<1>1. /\ \A b \in ToSet(q) : b \in Blocks /\ NumAt(t, b) \in Nat
      /\ \A a, b \in ToSet(q) : NumAt(t, a) = NumAt(t, b) => a = b
  BY PlacesDiffer
<1>2. ToSet(q) = {q[i] : i \in 1 .. m} /\ m \in Nat
  BY ToSetIs
<1>3. \A i, j \in 1 .. m : q[i] = q[j] => i = j
  BY DEF IsInjective
<1>4. \A i, j \in 1 .. m : g[i] = g[j] => i = j
  BY <1>1, <1>2, <1>3
<1>5. \A n : n \in N <=> \E b \in ToSet(q) : NumAt(t, b) = n
  BY <1>2
<1>6. DOMAIN g = 1 .. m /\ N = {g[i] : i \in 1 .. m}
  OBVIOUS
<1> HIDE DEF N, g, m
<1>13. Closed(N)
  <2>1. N \subseteq Nat
    BY <1>1, <1>5
  <2>2. ASSUME NEW n \in N, n > 0 PROVE n - 1 \in N
    <3>1. PICK b \in ToSet(q) : NumAt(t, b) = n
      BY <1>5
    <3>2. \E a \in ToSet(q) : NumAt(t, a) = NumAt(t, b) - 1
      BY <2>2, <3>1 DEF HasGap
    <3> QED
      BY <1>5, <3>1, <3>2
  <2> QED
    BY <2>1, <2>2 DEF Closed
<1>7. N = 0 .. m - 1
  <2>1. Numbers(N, m, g)
    BY <1>4, <1>6, <1>13 DEF Numbers
  <2> QED
    BY <1>2, <2>1, NumbersAre
<1>8. DOMAIN o = 1 .. m /\ \A i \in 1 .. m : o[i] \in ToSet(q) /\ NumAt(t, o[i]) = i - 1
  <2>1. o = [i \in 1 .. m |-> CHOOSE b \in ToSet(q) : NumAt(t, b) = i - 1]
    BY DEF Ordered, m
  <2>2. ASSUME NEW i \in 1 .. m PROVE \E b \in ToSet(q) : NumAt(t, b) = i - 1
    <3>1. i - 1 \in N
      BY <1>2, <1>7
    <3> QED
      BY <1>5, <3>1
  <2> HIDE DEF o
  <2> QED
    BY <2>1, <2>2
<1>9. o \in Seq(Blocks) /\ Len(o) = m
  <2>1. o = [i \in 1 .. m |-> o[i]]
    BY DEF Ordered, m
  <2> HIDE DEF o
  <2>2. \A i \in 1 .. m : o[i] \in Blocks
    BY <1>1, <1>8
  <2> QED
    BY <1>2, <2>1, <2>2
<1> HIDE DEF o
<1>10. IsInjective(o)
  BY <1>8 DEF IsInjective
<1>11. ToSet(o) = ToSet(q)
  <2>1. ToSet(o) = {o[i] : i \in 1 .. m}
    BY <1>9, ToSetIs
  <2>2. ASSUME NEW b \in ToSet(q) PROVE b \in ToSet(o)
    <3>1. NumAt(t, b) \in 0 .. m - 1
      BY <1>5, <1>7
    <3> DEFINE j == NumAt(t, b) + 1
    <3>4. j \in 1 .. m /\ j - 1 = NumAt(t, b)
      BY <1>2, <3>1
    <3> HIDE DEF j
    <3>2. j \in 1 .. m /\ o[j] \in ToSet(q) /\ NumAt(t, o[j]) = NumAt(t, b)
      BY <1>8, <3>4
    <3>3. o[j] = b
      BY <1>1, <3>2
    <3> QED
      BY <2>1, <3>2, <3>3
  <2> QED
    BY <1>8, <2>1, <2>2
<1>12. InOrder(t.fl, f, o)
  BY <1>8, <1>9 DEF InOrder, Owned, NumAt
<1> QED
  BY <1>9, <1>10, <1>11, <1>12 DEF o

(* A file whose list is in order is done.                                  *)
LEMMA KeepStep ==
  ASSUME NEW t, NEW f \in Files, FilesMade(0, f, t), InOrder(t.fl, f, t.list[f])
  PROVE  FilesMade(0, f + 1, t)
<1> DEFINE L == Upto(t, f)
           X == Later(t.fl, f)
           q == t.list[f]
<1>1. /\ Fits(t, L, X, {}) /\ FlashOK(t.fl) /\ t.list \in [Files -> Seq(Blocks)]
      /\ \A g \in Files : g >= f => Whole(t, g)
  BY DEF FilesMade
<1>2. \A g \in Files : g \in Nat /\ f \in Nat /\ (g < f + 1 <=> g < f \/ g = f) /\ (g >= f <=> g >= f + 1 \/ g = f)
  BY DEF Files
<1>3. Upto(t, f + 1) = [L EXCEPT ![f] = q] /\ L[f] = <<>>
  <2>1. DOMAIN L = Files /\ \A g \in Files : L[g] = IF g < f THEN t.list[g] ELSE <<>>
    BY DEF Upto
  <2>2. \A g \in Files : Upto(t, f + 1)[g] = IF g < f \/ g = f THEN t.list[g] ELSE <<>>
    BY <1>2 DEF Upto
  <2>3. \A g \in Files : Upto(t, f + 1)[g] = [L EXCEPT ![f] = q][g]
    BY <1>2, <2>1, <2>2
  <2>4. Upto(t, f + 1) = [g \in Files |-> Upto(t, f + 1)[g]]
    BY DEF Upto
  <2>5. [L EXCEPT ![f] = q] = [g \in Files |-> [L EXCEPT ![f] = q][g]]
    BY <2>1
  <2>6. L[f] = <<>>
    BY <1>2, <2>1
  <2> QED
    BY <2>3, <2>4, <2>5, <2>6
<1>4. q \in Seq(Blocks) /\ ToSet(q) = Owned(t.fl, f) /\ ToSet(<<>>) = {}
  BY <1>1, <1>2 DEF Whole, ToSet
<1>5. Later(t.fl, f + 1) = {b \in Blocks : b \notin ToSet(q) /\ (b \in X \/ b \in ToSet(L[f]))}
  <2>1. \A b \in Blocks : t.fl[b].mark = "valid" => t.fl[b].file \in Files
    BY <1>1 DEF FlashOK, Sane, Placed
  <2> QED
    BY <1>2, <1>3, <1>4, <2>1 DEF Later, Owned
<1> HIDE DEF L, X, q
<1>6. Tables(t.fl, t.free, t.dirty, [L EXCEPT ![f] = q], Later(t.fl, f + 1), {})
  BY <1>1, <1>4, <1>5, Relist DEF Fits, q
<1> QED
  BY <1>1, <1>2, <1>3, <1>6 DEF FilesMade, Fits

(* A file that is deleted is done.                                         *)
LEMMA DeleteStep ==
  ASSUME NEW t, NEW f \in Files, FilesMade(0, f, t)
  PROVE  FilesMade(0, f + 1, DeleteFile(t, f))
<1> DEFINE L == Upto(t, f)
           X == Later(t.fl, f)
           q == t.list[f]
           u == DeleteFile(t, f)
<1>1. /\ Fits(t, L, X, {}) /\ FlashOK(t.fl) /\ t.list \in [Files -> Seq(Blocks)]
      /\ \A g \in Files : g >= f => Whole(t, g)
  BY DEF FilesMade
<1>2. \A g \in Files : g \in Nat /\ f \in Nat /\ (g < f + 1 <=> g < f \/ g = f) /\ (g >= f <=> g >= f + 1 \/ g = f)
  BY DEF Files
<1>3. q \in Seq(Blocks) /\ IsInjective(q) /\ ToSet(q) = Owned(t.fl, f)
  BY <1>1, <1>2 DEF Whole
<1>4. ToSet(q) \subseteq X
  BY <1>2, <1>3 DEF Later, Owned
<1>5. Deleted(t, u, f, L, X)
  <2> HIDE DEF L, X, u
  <2> QED
    BY <1>1, <1>3, <1>4, DeleteIs DEF u
<1> HIDE DEF u
<1>6. /\ Fits(u, L, X \ ToSet(q), {}) /\ FlashOK(u.fl) /\ u.list = [t.list EXCEPT ![f] = <<>>]
      /\ \A a \in Blocks : a \notin ToSet(q) => u.fl[a] = t.fl[a]
  BY <1>5 DEF Deleted
<1>7. /\ u.list \in [Files -> Seq(Blocks)] /\ u.list[f] = <<>>
      /\ \A g \in Files : g # f => u.list[g] = t.list[g]
  BY <1>1, <1>6
<1>8. Upto(u, f + 1) = L
  BY <1>2, <1>7 DEF Upto
<1>9. \A b \in Blocks : u.fl[b].mark = "valid" => u.fl[b].file \in Files
  BY <1>6 DEF FlashOK, Sane, Placed
<1>10. ASSUME NEW b \in Blocks, b \in ToSet(q), u.fl[b].mark = "valid" PROVE u.fl[b].file < f
  <2>1. Tables(u.fl, u.free, u.dirty, L, X \ ToSet(q), {}) /\ b \notin X \ ToSet(q)
    BY <1>6, <1>10 DEF Fits
  <2>2. Kept(u.free, u.dirty, L, b)
    BY <2>1 DEF Tables
  <2> HIDE DEF L, X, q
  <2>3. /\ b \in ToSet(u.free) => u.fl[b].mark \in Fresh
        /\ b \in ToSet(u.dirty) => u.fl[b].mark \in {"dirty", "torn"}
        /\ HasBlock(L, b) => u.fl[b].file \in Files /\ u.fl[b].num \in Nat /\ u.fl[b].num + 1 \in 1 .. Len(L[u.fl[b].file])
    BY <2>1, KeptIs
  <2>4. u.fl[b].file \in Files /\ u.fl[b].num \in Nat /\ u.fl[b].num + 1 \in 1 .. Len(L[u.fl[b].file])
    BY <1>10, <2>2, <2>3 DEF Kept, Fresh
  <2>5. L[u.fl[b].file] # <<>>
    BY <2>4
  <2> QED
    BY <1>2, <2>4, <2>5 DEF L, Upto
<1>11. ASSUME NEW b \in Blocks, b \in ToSet(q) PROVE t.fl[b].mark = "valid" /\ t.fl[b].file = f
  BY <1>3, <1>11 DEF Owned
<1>12. \A b \in Blocks : t.fl[b].mark = "valid" => t.fl[b].file \in Files
  BY <1>1 DEF FlashOK, Sane, Placed
<1>13. Later(u.fl, f + 1) = X \ ToSet(q)
  <2>1. ASSUME NEW b \in Blocks PROVE b \in Later(u.fl, f + 1) <=> b \in X \ ToSet(q)
    <3>1. CASE b \in ToSet(q)
      <4>1. b \notin Later(u.fl, f + 1)
        BY <1>2, <1>9, <1>10, <3>1 DEF Later
      <4> QED
        BY <3>1, <4>1
    <3>2. CASE b \notin ToSet(q)
      <4>1. u.fl[b] = t.fl[b]
        BY <1>6, <3>2
      <4>2. t.fl[b].mark = "valid" => t.fl[b].file # f
        BY <1>3, <3>2 DEF Owned
      <4> QED
        BY <1>2, <1>12, <3>2, <4>1, <4>2 DEF Later
    <3> QED
      BY <3>1, <3>2
  <2> QED
    BY <2>1 DEF Later
<1>14. ASSUME NEW g \in Files, g >= f + 1 PROVE Whole(u, g)
  <2>1. g # f /\ ~(g < f) /\ g >= f /\ u.list[g] = t.list[g]
    BY <1>2, <1>7, <1>14
  <2>2. Whole(t, g)
    BY <1>1, <2>1
  <2>3. Owned(u.fl, g) = Owned(t.fl, g)
    <3>1. ASSUME NEW b \in Blocks PROVE b \in Owned(u.fl, g) <=> b \in Owned(t.fl, g)
      <4>1. CASE b \in ToSet(q)
        BY <1>10, <1>11, <2>1, <4>1 DEF Owned
      <4>2. CASE b \notin ToSet(q)
        BY <1>6, <4>2 DEF Owned
      <4> QED
        BY <4>1, <4>2
    <3> QED
      BY <3>1 DEF Owned
  <2> QED
    BY <2>1, <2>2, <2>3 DEF Whole
<1> HIDE DEF L, X
<1> QED
  BY <1>6, <1>7, <1>8, <1>13, <1>14 DEF FilesMade, u

(* Reads change nothing of what has been done.                             *)
LEMMA AlikeMade ==
  ASSUME NEW t, NEW u, Alike(t, u), NEW f, FilesMade(0, f, t)
  PROVE  FilesMade(0, f, u) /\ (InOrder(t.fl, f, t.list[f]) => InOrder(u.fl, f, u.list[f]))
<1>1. IsM(t) /\ u.fl = t.fl /\ u.list = t.list
  BY DEF FilesMade, Fits, Alike, SameLists
<1>2. \A L, X : Fits(t, L, X, {}) => Fits(u, L, X, {})
  BY <1>1, AlikeFits
<1>3. Upto(u, f) = Upto(t, f) /\ \A g : Whole(u, g) <=> Whole(t, g)
  BY <1>1 DEF Upto, Whole
<1> QED
  BY <1>1, <1>2, <1>3 DEF FilesMade

-----------------------------------------------------------------------------
(* ffs_page_i32_scan_file_size and ffs_page_i8_file_scan read.             *)

LEMMA SizedAlike ==
  ASSUME NEW s, IsM(s), NEW f, NEW n
  PROVE  /\ Alike(s, [s EXCEPT !.size[f] = n]) /\ Alike(s, [s EXCEPT !.size[f] = n, !.ret = "ok"])
BY DEF IsM, Alike, SameLists

LEMMA SizeAtAlike ==
  ASSUME NEW s, IsM(s), NEW f, NEW n
  PROVE  Alike(s, SizeAt(s, f, n))
<1> DEFINE last == n * DataPages + LastPage(s.ic.index)
           u == ReadPage(s, f, last)
           size == IF u.ret = "ok" THEN last + 1 ELSE NoSize
<1>1. CASE s.ic.index = <<>>
  BY <1>1, SizedAlike DEF SizeAt
<1>2. CASE s.ic.index # <<>>
  <2>1. SizeAt(s, f, n) = [u EXCEPT !.size[f] = size]
    BY <1>2 DEF SizeAt, Sized
  <2>2. Alike(s, u) /\ IsM(u)
    BY ReadPageAlike DEF Alike
  <2> HIDE DEF u, size
  <2>3. Alike(u, [u EXCEPT !.size[f] = size])
    BY <2>2, SizedAlike
  <2> QED
    BY <2>1, <2>2, <2>3, AlikeChain
<1> QED
  BY <1>1, <1>2

LEMMA ScanSizeAlike ==
  ASSUME NEW s, IsM(s), NEW f
  PROVE  Alike(s, ScanSize(s, f))
<1> DEFINE n == Len(s.list[f]) - 1
           u == ReadIndex(s, BlockAt(s, f, n))
           v == ReadIndex(u, BlockAt(u, f, n - 1))
<1>1. ScanSize(s, f) = SizeAtOrBefore(u, f, n)
  BY DEF ScanSize
<1>2. Alike(s, u) /\ IsM(u)
  BY ReadIndexAlike DEF Alike
<1> HIDE DEF u
<1>3. CASE u.ic.index = <<>> /\ n > 0
  <2>1. ScanSize(s, f) = SizeAt(v, f, n - 1)
    BY <1>1, <1>3 DEF SizeAtOrBefore
  <2>2. Alike(u, v) /\ IsM(v)
    BY <1>2, ReadIndexAlike DEF Alike
  <2> HIDE DEF v, n
  <2>3. Alike(v, SizeAt(v, f, n - 1))
    BY <2>2, SizeAtAlike
  <2> QED
    BY <1>2, <2>1, <2>2, <2>3, AlikeChain
<1>4. CASE ~(u.ic.index = <<>> /\ n > 0)
  <2>1. ScanSize(s, f) = SizeAt(u, f, n)
    BY <1>1, <1>4 DEF SizeAtOrBefore
  <2> HIDE DEF n
  <2>2. Alike(u, SizeAt(u, f, n))
    BY <1>2, SizeAtAlike
  <2> QED
    BY <1>2, <2>1, <2>2, AlikeChain
<1> QED
  BY <1>3, <1>4

StaysAlike(s, i, t) == Alike(s, t)

Scanning == INSTANCE Loops WITH Op <- ScanPage, Inv <- StaysAlike

LEMMA ScanFileAlike ==
  ASSUME NEW s, IsM(s), NEW f
  PROVE  Alike(s, ScanFile(s, f))
<1> DEFINE work == [p \in 1 .. NBlocks * DataPages |-> [file |-> f, page |-> p - 1]]
           r == Returns(s, "ok")
           t == ForEach(ScanPage, r, work)
<1>1. CASE s.size[f] = 0
  BY <1>1, ReturnsAlike DEF ScanFile
<1>2. CASE s.size[f] # 0
  <2>1. ScanFile(s, f) = t
    BY <1>2 DEF ScanFile
  <2>2. t = Scanning!Result(r, work)
    BY DEF ForEach, Scanning!Result
  <2>3. Len(work) \in Nat
    <3>1. NBlocks * DataPages \in Nat
      BY GeometryAssumption DEF GeometryAssumption
    <3> QED
      BY <3>1
  <2> HIDE DEF work, t, r
  <2>4. Alike(s, r)
    BY ReturnsAlike DEF r
  <2>5. ASSUME NEW v, NEW i \in 1 .. Len(work), StaysAlike(s, i - 1, v)
        PROVE  StaysAlike(s, i, ScanPage(v, work[i]))
    <3> DEFINE w == ReadPage(v, work[i].file, work[i].page)
    <3>1. Alike(s, v) /\ IsM(v)
      BY <2>5 DEF StaysAlike, Alike
    <3>2. ScanPage(v, work[i]) = v \/ ScanPage(v, work[i]) = w
      BY DEF ScanPage
    <3>3. Alike(v, w)
      BY <3>1, ReadPageAlike
    <3> HIDE DEF w
    <3>4. Alike(s, w)
      BY <3>1, <3>3, AlikeChain
    <3> QED
      BY <3>1, <3>2, <3>4 DEF StaysAlike
  <2>6. StaysAlike(s, 0, r)
    BY <2>4 DEF StaysAlike
  <2>7. StaysAlike(s, Len(work), Scanning!Result(r, work))
    BY <2>3, <2>5, <2>6, Scanning!LoopKeeps
  <2> QED
    BY <2>1, <2>2, <2>7 DEF StaysAlike
<1> QED
  BY <1>1, <1>2

-----------------------------------------------------------------------------
(* A file is scanned, and deleted if it cannot be read.                    *)
LEMMA KeptIfSizedIs ==
  ASSUME NEW t, NEW f \in Files, FilesMade(0, f, t), InOrder(t.fl, f, t.list[f])
  PROVE  FilesMade(0, f + 1, KeptIfSized(t, f))
<1> DEFINE u == ScanFile(t, f)
<1>1. CASE t.ret # "ok"
  BY <1>1, DeleteStep DEF KeptIfSized
<1>2. CASE t.ret = "ok"
  <2>1. KeptIfSized(t, f) = KeptIfRead(u, f)
    BY <1>2 DEF KeptIfSized
  <2>2. Alike(t, u)
    BY ScanFileAlike DEF FilesMade, Fits
  <2> HIDE DEF u
  <2>3. FilesMade(0, f, u) /\ InOrder(u.fl, f, u.list[f])
    BY <2>2, AlikeMade
  <2>4. FilesMade(0, f + 1, u) /\ FilesMade(0, f + 1, DeleteFile(u, f))
    BY <2>3, KeepStep, DeleteStep
  <2> QED
    BY <2>1, <2>4 DEF KeptIfRead
<1> QED
  BY <1>1, <1>2

LEMMA FileInitIs ==
  ASSUME NEW t, NEW f \in Files, FilesMade(0, f, t)
  PROVE  FilesMade(0, f + 1, FileInit(t, f))
<1> DEFINE q == t.list[f]
           o == Ordered(t, q)
           same == [t EXCEPT !.list[f] = q]
           u == [t EXCEPT !.list[f] = o]
           v == ScanSize(u, f)
<1>1. /\ Fits(t, Upto(t, f), Later(t.fl, f), {}) /\ FlashOK(t.fl) /\ t.list \in [Files -> Seq(Blocks)]
      /\ \A g \in Files : g >= f => Whole(t, g)
  BY DEF FilesMade
<1>2. f \in Nat /\ f >= f /\ \A g \in Files : g \in Nat
  BY DEF Files
<1>3. q \in Seq(Blocks) /\ IsInjective(q) /\ ToSet(q) = Owned(t.fl, f) /\ IsM(t) /\ ~t.halt
  BY <1>1, <1>2 DEF Whole, Fits
<1>4. Doubles(t, q) = {}
  BY <1>1, <1>3, PlacesDiffer
<1>5. Mapped(t, q) = q /\ Walk(t, f) = t /\ Walked(t, q) = q
  BY <1>4 DEF Mapped, Walk, Walked
<1>6. FileInit(t, f) = IF q = <<>> THEN t
                       ELSE IF HasGap(t, q) THEN DeleteFile(same, f) ELSE KeptIfSized(v, f)
  BY <1>3, <1>5 DEF FileInit
<1>7. CASE q = <<>>
  <2>1. InOrder(t.fl, f, q)
    BY <1>7 DEF InOrder
  <2> QED
    BY <1>6, <1>7, <2>1, KeepStep
<1>8. CASE q # <<>> /\ HasGap(t, q)
  <2>1. Alike(t, same)
    BY <1>1, <1>3 DEF IsM, Alike, SameLists
  <2>2. FileInit(t, f) = DeleteFile(same, f)
    BY <1>6, <1>8
  <2> HIDE DEF same
  <2>3. FilesMade(0, f, same)
    BY <2>1, AlikeMade
  <2> QED
    BY <2>2, <2>3, DeleteStep
<1>9. CASE q # <<>> /\ ~HasGap(t, q)
  <2>1. o \in Seq(Blocks) /\ IsInjective(o) /\ ToSet(o) = ToSet(q) /\ InOrder(t.fl, f, o)
    <3> HIDE DEF q
    <3> QED
      BY <1>1, <1>3, <1>9, OrderedIs
  <2>2. FileInit(t, f) = KeptIfSized(v, f)
    BY <1>6, <1>9
  <2>3. /\ IsM(u) /\ u.list = [t.list EXCEPT ![f] = o] /\ u.fl = t.fl /\ u.free = t.free /\ u.dirty = t.dirty
        /\ u.log = t.log /\ u.halt = t.halt
    BY <1>3 DEF IsM
  <2> HIDE DEF o, u
  <2>4. u.list \in [Files -> Seq(Blocks)] /\ u.list[f] = o /\ \A g \in Files : g # f => u.list[g] = t.list[g]
    BY <1>1, <2>1, <2>3
  <2>5. Upto(u, f) = Upto(t, f)
    BY <1>2, <2>4 DEF Upto
  <2>6. \A g \in Files : g >= f => Whole(u, g)
    BY <1>1, <1>3, <2>1, <2>3, <2>4 DEF Whole
  <2>7. FilesMade(0, f, u) /\ InOrder(u.fl, f, u.list[f])
    BY <1>1, <2>1, <2>3, <2>4, <2>5, <2>6 DEF FilesMade, Fits
  <2>8. Alike(u, v)
    BY <2>3, ScanSizeAlike
  <2> HIDE DEF v
  <2>9. FilesMade(0, f, v) /\ InOrder(v.fl, f, v.list[f])
    BY <2>7, <2>8, AlikeMade
  <2> QED
    BY <2>2, <2>9, KeptIfSizedIs
<1> QED
  BY <1>7, <1>8, <1>9

Mounting == INSTANCE Loops WITH Op <- FileInit, Inv <- FilesMade

(* ffs_v_mount: from a flash that a loss of power may have left, tables of *)
(* all its blocks.                                                         *)
LEMMA MountedIs ==
  ASSUME NEW fl, FlashOK(fl)
  PROVE  Sound(Mounted(fl))
<1> DEFINE s == ForEach(Enlist, BlockInit(fl), BlockSeq)
           work == [f \in 1 .. NFiles |-> f - 1]
           t == ForEach(FileInit, s, work)
<1>1. Mounted(fl) = t
  BY DEF Mounted, PageInit
<1>2. NFiles \in Nat
  BY GeometryAssumption DEF GeometryAssumption
<1>3. Len(work) = NFiles /\ \A i \in 1 .. NFiles : work[i] = i - 1 /\ i - 1 \in Files /\ i - 1 + 1 = i
  BY <1>2 DEF Files
<1>4. t = Mounting!Result(s, work)
  BY DEF ForEach, Mounting!Result
<1>5. FilesMade(0, 0, s)
  BY BlockInitIs, EnlistingIs
<1> HIDE DEF s, work, t
<1>6. ASSUME NEW r, NEW i \in 1 .. Len(work), FilesMade(0, i - 1, r)
      PROVE  FilesMade(0, i, FileInit(r, work[i]))
  <2> DEFINE f == i - 1
  <2>1. f \in Files /\ f + 1 = i /\ work[i] = f
    BY <1>2, <1>3
  <2>2. FilesMade(0, f, r)
    BY <1>6
  <2> HIDE DEF f
  <2>3. FilesMade(0, f + 1, FileInit(r, f))
    BY <2>1, <2>2, FileInitIs
  <2> QED
    BY <2>1, <2>3
<1>7. FilesMade(0, Len(work), t)
  BY <1>2, <1>3, <1>4, <1>5, <1>6, Mounting!LoopKeeps
<1>8. Fits(t, Upto(t, NFiles), Later(t.fl, NFiles), {}) /\ FlashOK(t.fl) /\ t.list \in [Files -> Seq(Blocks)]
  BY <1>3, <1>7 DEF FilesMade
<1>9. \A f \in Files : f < NFiles /\ ~(f >= NFiles)
  BY <1>2 DEF Files
<1>10. Upto(t, NFiles) = t.list
  BY <1>8, <1>9 DEF Upto
<1>11. Later(t.fl, NFiles) = {}
  BY <1>8, <1>9 DEF Later, FlashOK, Sane, Placed
<1> QED
  BY <1>1, <1>8, <1>10, <1>11 DEF Sound, Good

-----------------------------------------------------------------------------
(* The calls of files.                                                     *)

(* What a search for a file finds.                                         *)
LEMMA FilesFound ==
  ASSUME NEW s
  PROVE  /\ \A n : FileNamed(s, n) # NoFile => FileNamed(s, n) \in Files
         /\ NewFile(s) # NoFile => NewFile(s) \in Files
<1>1. Files \in SUBSET Nat
  BY DEF Files
<1>2. ASSUME NEW n, FileNamed(s, n) # NoFile PROVE FileNamed(s, n) \in Files
  <2> DEFINE fs == {f \in Files : Exists(s, f) /\ PageSeen(s, f, 0) = n}
  <2>1. fs # {} /\ FileNamed(s, n) = Min(fs)
    BY <1>2 DEF FileNamed
  <2>2. fs \in SUBSET Nat /\ fs \subseteq Files
    BY <1>1
  <2> HIDE DEF fs
  <2>3. Min(fs) \in fs
    BY <2>1, <2>2, LeastIs
  <2> QED
    BY <2>1, <2>2, <2>3
<1>3. ASSUME NewFile(s) # NoFile PROVE NewFile(s) \in Files
  <2> DEFINE ids == {f \in Files : s.size[f] < 0}
  <2>1. ids # {} /\ NewFile(s) = Min(ids)
    BY <1>3 DEF NewFile
  <2>2. ids \in SUBSET Nat /\ ids \subseteq Files
    BY <1>1
  <2> HIDE DEF ids
  <2>3. Min(ids) \in ids
    BY <2>1, <2>2, LeastIs
  <2> QED
    BY <2>1, <2>2, <2>3
<1> QED
  BY <1>2, <1>3

LEMMA KeptIfNamedIs ==
  ASSUME NEW s, Sound(s), NEW f \in Files
  PROVE  Sound(KeptIfNamed(s, f))
<1> DEFINE t == DeleteFile(s, f)
<1>1. CASE s.halt \/ s.ret = "ok"
  BY <1>1 DEF KeptIfNamed
<1>2. CASE ~(s.halt \/ s.ret = "ok")
  <2>1. KeptIfNamed(s, f) = Returns(t, "error")
    BY <1>2 DEF KeptIfNamed
  <2>2. Good(s)
    BY <1>2, SoundIs
  <2>3. Good(t)
    BY <2>2, DeleteGood
  <2> HIDE DEF t
  <2>4. IsM(t) /\ Sound(t)
    BY <2>3 DEF Good, Fits, Sound
  <2>5. Alike(t, Returns(t, "error"))
    BY <2>4, ReturnsAlike
  <2> QED
    BY <2>1, <2>4, <2>5, AlikeFits
<1> QED
  BY <1>1, <1>2

LEMMA WriteMetaDataIs ==
  ASSUME "replace" \in Safe, NEW s, Good(s), NEW f \in Files, NEW n
  PROVE  Sound(WriteMetaData(s, f, n))
<1> DEFINE work == [p \in 1 .. MetaPages |-> [file |-> f, page |-> p - 1, data |-> n]]
           u == [s EXCEPT !.size[f] = 0]
           t == ForEach(Put, u, work)
<1>1. CASE s.ret # "ok"
  BY <1>1 DEF WriteMetaData, Sound
<1>2. CASE s.ret = "ok"
  <2>1. WriteMetaData(s, f, n) = KeptIfNamed(t, f)
    BY <1>2 DEF WriteMetaData
  <2>2. MetaPages \in Nat
    BY FilesAssumption DEF FilesAssumption
  <2>3. Len(work) \in Nat /\ \A i \in 1 .. Len(work) : work[i].file \in Files /\ work[i].page \in Nat
    BY <2>2
  <2>4. IsM(s) /\ Alike(s, u)
    BY DEF Good, Fits, IsM, Alike, SameLists
  <2> HIDE DEF work, u
  <2>5. Sound(u)
    BY <2>4, AlikeFits DEF Sound
  <2>6. Sound(t)
    BY <2>3, <2>5, PutIs
  <2> HIDE DEF t
  <2> QED
    BY <2>1, <2>6, KeptIfNamedIs
<1> QED
  BY <1>1, <1>2

(* ffs_i8_create_file                                                      *)
LEMMA CreateFileIs ==
  ASSUME "replace" \in Safe, NEW s, Good(s), NEW n
  PROVE  /\ Sound(CreateFile(s, n))
         /\ CreateFile(s, n).ret = "ok" => NewFile(s) \in Files
<1> DEFINE f == NewFile(s)
           u == AllocBlock(s, f)
<1>1. IsM(s)
  BY DEF Good, Fits
<1>2. CASE f = NoFile
  <2>1. CreateFile(s, n) = Returns(s, "no_files")
    BY <1>2 DEF CreateFile
  <2>2. Alike(s, Returns(s, "no_files")) /\ Returns(s, "no_files").ret = "no_files"
    BY <1>1, ReturnsAlike DEF Returns, IsM
  <2> QED
    BY <1>1, <2>1, <2>2, AlikeFits DEF Sound
<1>3. CASE f # NoFile
  <2>1. CreateFile(s, n) = WriteMetaData(u, f, n)
    BY <1>3 DEF CreateFile
  <2>2. f \in Files
    BY <1>3, FilesFound
  <2> HIDE DEF f
  <2>3. Good(u)
    BY <2>2, AllocBlockIs
  <2> HIDE DEF u
  <2> QED
    BY <2>1, <2>2, <2>3, WriteMetaDataIs DEF f
<1> QED
  BY <1>2, <1>3

(* fs_i16_write_id                                                         *)
LEMMA WriteFileIs ==
  ASSUME "replace" \in Safe, NEW s, Good(s), NEW f \in Files, NEW from \in Nat, NEW k \in Nat, NEW v
  PROVE  Sound(WriteFile(s, f, from, k, v))
<1> DEFINE room == Len(s.free) * DataPages
           m == Min({k, room})
           work == [i \in 1 .. m |-> [file |-> f, page |-> MetaPages + from + i - 1, data |-> v]]
           r == Returns(s, "ok")
           u == ForEach(Put, r, work)
           e == IF room < k /\ u.ret = "ok" THEN "short" ELSE u.ret
<1>1. WriteFile(s, f, from, k, v) = [u EXCEPT !.ret = e]
  BY DEF WriteFile
<1>2. MetaPages \in Nat /\ DataPages \in Nat
  BY GeometryAssumption, FilesAssumption DEF GeometryAssumption, FilesAssumption
<1>3. room \in Nat
  <2>1. Len(s.free) \in Nat
    BY DEF Good, Fits, Tables, ListsOK
  <2> QED
    BY <1>2, <2>1
<1> HIDE DEF room
<1>4. {k, room} \in SUBSET Nat /\ {k, room} # {}
  BY <1>3
<1>5. m \in Nat
  BY <1>4, LeastIs
<1> HIDE DEF m
<1>6. Len(work) \in Nat /\ \A i \in 1 .. Len(work) : work[i].file \in Files /\ work[i].page \in Nat
  BY <1>2, <1>5
<1>7. IsM(s) /\ Alike(s, r)
  BY ReturnsAlike DEF Good, Fits
<1> HIDE DEF work, r
<1>8. Sound(r)
  BY <1>7, AlikeFits DEF Sound
<1>9. Sound(u)
  BY <1>6, <1>8, PutIs
<1> HIDE DEF u, e
<1>10. IsM(u) /\ Alike(u, [u EXCEPT !.ret = e])
  BY <1>9, SoundIs, ReturnsAlike
<1> QED
  BY <1>1, <1>9, <1>10, AlikeFits

Zeroing == INSTANCE Loops WITH Op <- Zero, Inv <- StaysSound

LEMMA ZerosIs ==
  ASSUME "replace" \in Safe, NEW s, Sound(s), NEW g \in Files
  PROVE  Sound(Zeros(s, g))
<1> DEFINE work == [b \in 1 .. NBlocks |-> g]
<1>1. Zeros(s, g) = Zeroing!Result(s, work)
  BY DEF Zeros, ForEach, Zeroing!Result
<1>2. Len(work) \in Nat /\ \A i \in 1 .. Len(work) : work[i] = g
  BY GeometryAssumption DEF GeometryAssumption
<1> HIDE DEF work
<1>3. \A t : \A i \in 1 .. Len(work) : StaysSound(0, i - 1, t) => StaysSound(0, i, Zero(t, work[i]))
  <2> SUFFICES ASSUME NEW t, Sound(t) PROVE Sound(Zero(t, g))
    BY <1>2 DEF StaysSound
  <2>1. CASE t.halt
    BY <2>1 DEF Zero
  <2>2. CASE ~t.halt
    <3>1. Good(t) /\ Zero(t, g) = WriteFile(t, g, 0, 1, Counts) /\ 0 \in Nat /\ 1 \in Nat
      BY <2>2, SoundIs DEF Zero
    <3> QED
      BY <3>1, WriteFileIs
  <2> QED
    BY <2>1, <2>2
<1>4. StaysSound(0, Len(work), Zeroing!Result(s, work))
  BY <1>2, <1>3, Zeroing!LoopKeeps DEF StaysSound
<1> QED
  BY <1>1, <1>4 DEF StaysSound

-----------------------------------------------------------------------------
(* The file system: the flash is always one that can be mounted, and       *)
(* between two calls every block is accounted for.                         *)
FlashInv ==
  /\ FlashOK(flash)
  /\ Up => Tables(flash, ram.free, ram.dirty, ram.list, {}, {})

LEMMA MachineIs ==
  ASSUME FlashInv, Up
  PROVE  /\ Good(Machine) /\ Machine.free = ram.free /\ Machine.dirty = ram.dirty /\ Machine.fl = flash
         /\ Machine.list = ram.list
<1>1. /\ IsM(Machine) /\ Machine.free = ram.free /\ Machine.dirty = ram.dirty /\ Machine.fl = flash
      /\ Machine.list = ram.list /\ Machine.log = <<>> /\ ~Machine.halt
  BY DEF Machine, IsM
<1>2. LogOK(<<>>)
  BY NothingWritten
<1>3. LogOK(Machine.log)
  BY <1>1, <1>2
<1> QED
  BY <1>1, <1>3 DEF FlashInv, FlashOK, Good, Fits

(* A call ends, or power is lost in it.                                    *)
LEMMA EndsKeeps ==
  ASSUME NEW s, Sound(s), NEW after, Ends(s, after)
  PROVE  FlashInv'
<1>1. FlashOK(s.fl) /\ flash' = s.fl
  BY SoundIs DEF Ends
<1>2. CASE s.halt
  BY <1>1, <1>2 DEF Ends, Restart, FlashInv, Up
<1>3. CASE ~s.halt
  <2>1. ram' = RamOf(s) /\ Good(s)
    BY <1>3, SoundIs DEF Ends
  <2>2. ram'.free = s.free /\ ram'.dirty = s.dirty /\ ram'.list = s.list
    BY <2>1 DEF RamOf
  <2>3. Tables(flash', ram'.free, ram'.dirty, ram'.list, {}, {})
    BY <1>1, <2>1, <2>2 DEF Good, Fits
  <2> QED
    BY <1>1, <2>3 DEF FlashInv
<1> QED
  BY <1>2, <1>3

LEMMA CutShortKeeps ==
  ASSUME NEW s, Sound(s), NEW n, CutShort(s, n)
  PROVE  FlashInv'
<1>1. PICK i \in 1 .. Len(s.log) - 1 : s.log[i].gap \notin Safe /\ flash' = s.log[i].flash
  BY DEF CutShort
<1>2. PICK S : s.log \in Seq(S) /\ \A e \in S : e.gap \notin Safe => FlashOK(e.flash)
  BY SoundIs DEF LogOK
<1>3. s.log[i] \in S
  BY <1>2
<1>4. FlashOK(flash')
  BY <1>1, <1>2, <1>3
<1>5. ~Up'
  BY DEF CutShort, Restart, Up
<1> QED
  BY <1>4, <1>5 DEF FlashInv

LEMMA CallKeeps ==
  ASSUME NEW s, Sound(s), NEW c, NEW after, Call(s, c, after) \/ Moves(s, after)
  PROVE  FlashInv'
BY EndsKeeps, CutShortKeeps DEF Call, Moves

LEMMA UnchangedKeeps ==
  ASSUME FlashInv, UNCHANGED <<flash, ram, gc>>
  PROVE  FlashInv'
BY DEF FlashInv, Up

LEMMA CreateKeeps ==
  ASSUME "replace" \in Safe, FlashInv, NEW n, Create(n)
  PROVE  FlashInv'
<1>1. Good(Machine)
  BY MachineIs DEF Create
<1>2. Sound(CreateFile(Machine, n))
  BY <1>1, CreateFileIs
<1> QED
  BY <1>2, CallKeeps DEF Create

LEMMA WriteKeeps ==
  ASSUME "replace" \in Safe, FlashInv, NEW n, Write(n)
  PROVE  FlashInv'
<1> DEFINE f == FileNamed(Machine, n)
<1>1. Good(Machine) /\ f \in Files
  BY MachineIs, FilesFound DEF Write
<1>2. PICK from \in 0 .. Min({Machine.size[f] - MetaPages, MaxData - 1}), k \in 1 .. MaxWrite, v \in Values :
        Call(WriteFile(Machine, f, from, k, v), Writing(n, from, k, v), gc)
  BY DEF Write
<1> HIDE DEF f
<1>3. from \in Nat /\ k \in Nat
  BY <1>2
<1>4. Sound(WriteFile(Machine, f, from, k, v))
  BY <1>1, <1>3, WriteFileIs
<1> QED
  BY <1>2, <1>4, CallKeeps

LEMMA ReadKeeps ==
  ASSUME FlashInv, NEW n, Read(n)
  PROVE  FlashInv'
<1> DEFINE f == FileNamed(Machine, n)
<1>1. PICK p \in 0 .. Machine.size[f] - 1 : ram' = RamOf(ReadPage(Machine, f, p))
  BY DEF Read
<1>2. Good(Machine) /\ Machine.list = ram.list /\ Machine.free = ram.free /\ Machine.dirty = ram.dirty
  BY MachineIs DEF Read
<1>3. Alike(Machine, ReadPage(Machine, f, p))
  BY <1>2, ReadPageAlike DEF Good, Fits
<1>4. ram'.free = ram.free /\ ram'.dirty = ram.dirty /\ ram'.list = ram.list
  BY <1>1, <1>2, <1>3 DEF Alike, SameLists, RamOf
<1> QED
  BY <1>4 DEF Read, FlashInv, Up

LEMMA DeleteKeeps ==
  ASSUME FlashInv, NEW n, Delete(n)
  PROVE  FlashInv'
<1> DEFINE f == FileNamed(Machine, n)
<1>1. Good(Machine) /\ f \in Files
  BY MachineIs, FilesFound DEF Delete
<1>2. Sound(DeleteFile(Machine, f))
  BY <1>1, DeleteGood DEF Sound
<1> QED
  BY <1>2, EndsKeeps, CutShortKeeps DEF Delete, Deletes

(* The collector's thread.                                                 *)
LEMMA OpenedKeeps ==
  ASSUME "replace" \in Safe, NEW s, Sound(s), NEW g, s.ret = "ok" => g \in Files, NEW c, Opened(s, g, c)
  PROVE  FlashInv'
<1>1. CASE s.halt \/ s.ret # "ok"
  BY <1>1, CallKeeps DEF Opened
<1>2. CASE ~(s.halt \/ s.ret # "ok") /\ s.size[g] > MetaPages
  BY <1>2, CallKeeps DEF Opened
<1>3. CASE ~(s.halt \/ s.ret # "ok") /\ ~(s.size[g] > MetaPages)
  <2>1. Sound(Zeros(s, g))
    BY <1>3, ZerosIs
  <2> QED
    BY <1>3, <2>1, CallKeeps DEF Opened
<1> QED
  BY <1>1, <1>2, <1>3

LEMMA StartCollectorKeeps ==
  ASSUME "replace" \in Safe, FlashInv, StartCollector
  PROVE  FlashInv'
<1> DEFINE g == FileNamed(Machine, GcName)
<1>1. Good(Machine) /\ (g # NoFile => g \in Files)
  BY MachineIs, FilesFound DEF StartCollector
<1>2. CASE g = NoFile
  <2> DEFINE s == CreateFile(Machine, GcName)
  <2>1. Sound(s) /\ (s.ret = "ok" => NewFile(Machine) \in Files)
    BY <1>1, CreateFileIs
  <2>2. Opened(s, NewFile(Machine), Creating(GcName))
    BY <1>2 DEF StartCollector
  <2> HIDE DEF s
  <2> QED
    BY <2>1, <2>2, OpenedKeeps
<1>3. CASE g # NoFile
  <2>1. Opened(Machine, g, Writing(GcName, 0, 1, Counts))
    BY <1>3 DEF StartCollector
  <2> QED
    BY <1>1, <1>3, <2>1, OpenedKeeps DEF Sound
<1> QED
  BY <1>2, <1>3

LEMMA CollectBlockKeeps ==
  ASSUME "replace" \in Safe, FlashInv, CollectBlock
  PROVE  FlashInv'
<1> DEFINE b == Head(ram.dirty)
           u == [Machine EXCEPT !.dirty = Tail(@)]
           s == Erase(u, b)
           g == FileNamed(s, GcName)
<1>1. /\ Good(Machine) /\ Machine.free = ram.free /\ Machine.dirty = ram.dirty /\ Machine.fl = flash
      /\ Machine.list = ram.list
  BY MachineIs DEF CollectBlock
<1>2. Tables(flash, ram.free, ram.dirty, ram.list, {}, {})
  BY DEF FlashInv, CollectBlock
<1>3. ram.dirty # <<>>
  <2>1. ram.dirty \in Seq(Blocks) /\ Threshold \in Nat \ {0}
    BY <1>2, FilesAssumption DEF Tables, ListsOK, FilesAssumption
  <2> QED
    BY <2>1 DEF CollectBlock
<1>4. Tables(flash, ram.free, Tail(ram.dirty), ram.list, {b}, {})
  BY <1>2, <1>3, TakeDirty
<1>5. /\ IsM(u) /\ u.free = ram.free /\ u.dirty = Tail(ram.dirty) /\ u.list = ram.list /\ u.fl = flash
      /\ u.log = Machine.log /\ u.halt = Machine.halt
  BY <1>1 DEF Good, Fits, IsM
<1>6. Collected(s)
  BY DEF CollectBlock
<1> HIDE DEF b, u
<1>7. Fits(u, u.list, {b}, {})
  BY <1>1, <1>4, <1>5 DEF Good, Fits
<1>8. Good(s)
  BY <1>7, EraseIs
<1> HIDE DEF s
<1>9. CASE s.halt \/ g = NoFile
  BY <1>6, <1>8, <1>9, CallKeeps DEF Collected, Sound
<1>10. CASE ~(s.halt \/ g = NoFile)
  <2>1. g \in Files /\ 0 \in Nat /\ 1 \in Nat
    BY <1>10, FilesFound
  <2>2. Call(WriteFile(s, g, 0, 1, Counts), Writing(GcName, 0, 1, Counts), "busy")
    BY <1>6, <1>10 DEF Collected
  <2> HIDE DEF g
  <2>3. Sound(WriteFile(s, g, 0, 1, Counts))
    BY <1>8, <2>1, WriteFileIs
  <2> QED
    BY <2>2, <2>3, CallKeeps
<1> QED
  BY <1>9, <1>10

LEMMA EndPassKeeps ==
  ASSUME "replace" \in Safe, FlashInv, EndPass
  PROVE  FlashInv'
<1>1. CASE gc' = "idle" /\ Quiet /\ UNCHANGED <<flash, ram, losses, doubtful, shown>>
  BY <1>1 DEF EndPass, FlashInv, Up
<1>2. ASSUME NEW b \in Blocks, flash[b].mark = "valid",
             Moves(ReplaceBlock(Machine, flash[b].file, flash[b].num), "idle")
      PROVE  FlashInv'
  <2>1. flash[b].file \in Files /\ flash[b].num \in Nat
    BY <1>2 DEF FlashInv, FlashOK, Sane, Placed
  <2>2. Good(Machine)
    BY MachineIs DEF EndPass
  <2>3. Sound(ReplaceBlock(Machine, flash[b].file, flash[b].num))
    BY <2>1, <2>2, ReplaceBlockIs
  <2> QED
    BY <1>2, <2>3, CallKeeps
<1> QED
  BY <1>1, <1>2 DEF EndPass

LEMMA MountKeeps ==
  ASSUME FlashInv, Mount
  PROVE  FlashInv'
<1>1. Sound(Mounted(flash))
  BY MountedIs DEF FlashInv
<1> QED
  BY <1>1, EndsKeeps, CutShortKeeps DEF Mount, Mounts

LEMMA PowerLossKeeps ==
  ASSUME FlashInv, PowerLoss
  PROVE  FlashInv'
BY DEF FlashInv, PowerLoss, Restart, Up

-----------------------------------------------------------------------------
(* What the invariant says of the lists.                                   *)

LEMMA AccountedIs == FlashInv => BlocksAccounted
<1> SUFFICES ASSUME FlashInv, Up PROVE BlocksAccounted
  BY DEF BlocksAccounted
<1> DEFINE free == ram.free
           dirty == ram.dirty
           L == ram.list
           Lists == Files \cup {FreeList, DirtyList}
<1>1. Tables(flash, free, dirty, L, {}, {})
  BY DEF FlashInv
<1>2. Files \subseteq Nat /\ FreeList \notin Files /\ DirtyList \notin Files /\ FreeList # DirtyList
  BY DEF Files, FreeList, DirtyList
<1>3. /\ ListOf(FreeList) = free /\ ListOf(DirtyList) = dirty
      /\ \A f \in Files : ListOf(f) = L[f]
  BY <1>2 DEF ListOf
<1>4. \A c \in Lists : ListOf(c) \in Seq(Blocks)
  BY <1>1, <1>3 DEF Tables, ListsOK
<1>5. \A p : p \in Places <=> \E c \in Lists : \E i \in 1 .. Len(ListOf(c)) : p = <<c, i>>
  BY <1>4 DEF Places
<1>6. /\ ToSet(free) = {free[i] : i \in 1 .. Len(free)} /\ ToSet(free) \subseteq Blocks
      /\ ToSet(dirty) = {dirty[i] : i \in 1 .. Len(dirty)} /\ ToSet(dirty) \subseteq Blocks
  BY <1>1, ToSetIs DEF Tables, ListsOK
<1>7. {BlockIn(p) : p \in Places} = Blocks
  <2>1. ASSUME NEW p \in Places PROVE BlockIn(p) \in Blocks
    BY <1>4, <1>5 DEF BlockIn
  <2>2. ASSUME NEW b \in Blocks PROVE \E p \in Places : BlockIn(p) = b
    <3>1. Kept(free, dirty, L, b)
      BY <1>1 DEF Tables
    <3>2. \E c \in Lists : \E i \in 1 .. Len(ListOf(c)) : ListOf(c)[i] = b
      BY <1>3, <1>6, <3>1 DEF Kept, HasBlock
    <3>5. PICK c \in Lists : \E i \in 1 .. Len(ListOf(c)) : ListOf(c)[i] = b
      BY <3>2
    <3>3. PICK i \in 1 .. Len(ListOf(c)) : ListOf(c)[i] = b
      BY <3>5
    <3>4. <<c, i>> \in Places /\ BlockIn(<<c, i>>) = b
      BY <1>5, <3>3 DEF BlockIn
    <3> QED
      BY <3>4
  <2> QED
    BY <2>1, <2>2
<1>8. ASSUME NEW c \in Lists, NEW i \in 1 .. Len(ListOf(c)), NEW b \in Blocks, b = ListOf(c)[i]
      PROVE  /\ c = FreeList => b \in ToSet(free) /\ flash[b].mark \in Fresh
             /\ c = DirtyList => b \in ToSet(dirty) /\ flash[b].mark \in {"dirty", "torn"}
             /\ c \in Files => flash[b].mark = "valid" /\ flash[b].file = c /\ flash[b].num = i - 1
  <2>1. c = FreeList => b \in ToSet(free) /\ flash[b].mark \in Fresh
    BY <1>1, <1>3, <1>6, <1>8, KeptIs
  <2>2. c = DirtyList => b \in ToSet(dirty) /\ flash[b].mark \in {"dirty", "torn"}
    BY <1>1, <1>3, <1>6, <1>8, KeptIs
  <2>3. c \in Files => flash[b].mark = "valid" /\ flash[b].file = c /\ flash[b].num = i - 1
    BY <1>1, <1>3, <1>8 DEF Tables, Marked, InOrder
  <2> QED
    BY <2>1, <2>2, <2>3
<1>9. ASSUME NEW p \in Places, NEW q \in Places, BlockIn(p) = BlockIn(q) PROVE p = q
  <2>10. PICK c \in Lists : \E i \in 1 .. Len(ListOf(c)) : p = <<c, i>>
    BY <1>5
  <2>1. PICK i \in 1 .. Len(ListOf(c)) : p = <<c, i>>
    BY <2>10
  <2>11. PICK d \in Lists : \E j \in 1 .. Len(ListOf(d)) : q = <<d, j>>
    BY <1>5
  <2>2. PICK j \in 1 .. Len(ListOf(d)) : q = <<d, j>>
    BY <2>11
  <2> DEFINE b == ListOf(c)[i]
  <2>3. b = ListOf(d)[j] /\ b \in Blocks
    BY <1>4, <1>9, <2>1, <2>2 DEF BlockIn
  <2> HIDE DEF Lists
  <2>4. /\ c = FreeList => flash[b].mark \in Fresh
        /\ c = DirtyList => flash[b].mark \in {"dirty", "torn"}
        /\ c \in Files => flash[b].mark = "valid" /\ flash[b].file = c /\ flash[b].num = i - 1
    BY <1>8, <2>3
  <2>5. /\ d = FreeList => flash[b].mark \in Fresh
        /\ d = DirtyList => flash[b].mark \in {"dirty", "torn"}
        /\ d \in Files => flash[b].mark = "valid" /\ flash[b].file = d /\ flash[b].num = j - 1
    BY <1>8, <2>3
  <2>6. c \in Files \/ c = FreeList \/ c = DirtyList
    BY DEF Lists
  <2>7. d \in Files \/ d = FreeList \/ d = DirtyList
    BY DEF Lists
  <2>8. c = d
    BY <2>4, <2>5, <2>6, <2>7 DEF Fresh
  <2>9. i = j
    <3>1. CASE c = FreeList
      <4>1. IsInjective(free) /\ i \in 1 .. Len(free) /\ j \in 1 .. Len(free) /\ free[i] = free[j] /\ free \in Seq(Blocks)
        BY <1>1, <1>3, <2>3, <2>8, <3>1 DEF Tables, ListsOK
      <4> QED
        BY <4>1 DEF IsInjective
    <3>2. CASE c = DirtyList
      <4>1. IsInjective(dirty) /\ i \in 1 .. Len(dirty) /\ j \in 1 .. Len(dirty) /\ dirty[i] = dirty[j] /\ dirty \in Seq(Blocks)
        BY <1>1, <1>3, <2>3, <2>8, <3>2 DEF Tables, ListsOK
      <4> QED
        BY <4>1 DEF IsInjective
    <3>3. CASE c \in Files
      <4>1. i - 1 = j - 1 /\ i \in Nat /\ j \in Nat
        BY <2>4, <2>5, <2>8, <3>3
      <4> QED
        BY <4>1
    <3> QED
      BY <2>6, <3>1, <3>2, <3>3
  <2> QED
    BY <2>1, <2>2, <2>8, <2>9
<1>10. \A b \in ToSet(dirty) : IsDirty(flash, b)
  BY <1>1 DEF Tables, Marked
<1>11. \A f \in Files : \A i \in DOMAIN L[f] :
         LET b == flash[L[f][i]] IN b.mark = "valid" /\ b.file = f /\ b.num = i - 1
  <2>1. \A f \in Files : DOMAIN L[f] = 1 .. Len(L[f])
    BY <1>1 DEF Tables, ListsOK
  <2> QED
    BY <1>1, <2>1 DEF Tables, Marked, InOrder
<1> QED
  BY <1>7, <1>9, <1>10, <1>11 DEF BlocksAccounted

LEMMA ErasedIs == FlashInv => FreeErased
BY DEF FlashInv, FreeErased, Tables, Marked

-----------------------------------------------------------------------------
LEMMA InvInit == Init => FlashInv
<1> SUFFICES ASSUME Init PROVE FlashInv
  OBVIOUS
<1>1. flash = [b \in Blocks |-> Erased] /\ ~Up
  BY DEF Init, Up
<1>2. IsFlash(flash)
  BY <1>1, BlocksAre DEF IsFlash
<1>3. Sane(flash, Blocks)
  BY <1>1, BlocksAre DEF Sane, Placed, Twins, Spoilt
<1> QED
  BY <1>1, <1>2, <1>3 DEF FlashInv, FlashOK

LEMMA InvNext == "replace" \in Safe /\ FlashInv /\ [Next]_vars => FlashInv'
<1> SUFFICES ASSUME "replace" \in Safe, FlashInv, [Next]_vars PROVE FlashInv'
  OBVIOUS
<1>1. ASSUME NEW n \in Names, Create(n) \/ Write(n) \/ Read(n) \/ Delete(n) PROVE FlashInv'
  BY <1>1, CreateKeeps, WriteKeeps, ReadKeeps, DeleteKeeps
<1>2. CASE StartCollector
  BY <1>2, StartCollectorKeeps
<1>3. CASE CollectBlock
  BY <1>3, CollectBlockKeeps
<1>4. CASE EndPass
  BY <1>4, EndPassKeeps
<1>5. CASE Mount
  BY <1>5, MountKeeps
<1>6. CASE PowerLoss
  BY <1>6, PowerLossKeeps
<1>7. CASE UNCHANGED vars
  BY <1>7, UnchangedKeeps DEF vars
<1> QED
  BY <1>1, <1>2, <1>3, <1>4, <1>5, <1>6, <1>7 DEF Next

(* Whatever is created, written, deleted, collected and mounted, and       *)
(* however often power is lost anywhere but between the header of a copied *)
(* block and the mark of the one that it replaces, every block is in one   *)
(* list, once, and its mark agrees.                                        *)
THEOREM EveryBlockAccounted ==
  ASSUME "replace" \in Safe
  PROVE  Spec => []BlocksAccounted
<1>1. FlashInv /\ [Next]_vars => FlashInv'
  BY InvNext
<1> QED
  BY <1>1, InvInit, AccountedIs, PTL DEF Spec

(* And a block that can be allocated is erased.                            *)
THEOREM EveryFreeErased ==
  ASSUME "replace" \in Safe
  PROVE  Spec => []FreeErased
<1>1. FlashInv /\ [Next]_vars => FlashInv'
  BY InvNext
<1> QED
  BY <1>1, InvInit, ErasedIs, PTL DEF Spec
=============================================================================

-------------------------------- MODULE Loops --------------------------------
(***************************************************************************)
(* A loop over a sequence, and what it keeps: what holds before its first  *)
(* element, and after each if before, holds at its end.                    *)
(***************************************************************************)
EXTENDS Integers, FiniteSets, FiniteSetTheorems, WellFoundedInduction, Sequences, TLAPS

CONSTANTS
  Op(_, _),     \* the body of the loop: what it makes of s with an element
  Inv(_, _, _)  \* what holds of a context, elements done and s

Result(s, seq) ==
  LET upto[i \in 0 .. Len(seq)] == IF i = 0 THEN s ELSE Op(upto[i - 1], seq[i])
  IN  upto[Len(seq)]

(* A set of numbers has a least one.                                       *)
LEMMA LeastOf ==
  ASSUME NEW S \in SUBSET Nat, S # {}
  PROVE  \E m \in S : \A k \in S : m <= k
<1>1. PICK n \in Nat : n \in S
  OBVIOUS
<1> DEFINE N == 0 .. n
           T == {0 .. k : k \in S \cap N}
<1>2. IsFiniteSet(N)
  BY FS_Interval
<1>3. IsWellFoundedOn(StrictSubsetOrdering(N), FiniteSubsetsOf(N))
  BY FS_StrictSubsetOrderingWellFounded
<1>4. \A k \in S \cap N : 0 .. k \in SUBSET N /\ IsFiniteSet(0 .. k)
  BY FS_Interval
<1>5. T \subseteq FiniteSubsetsOf(N)
  BY <1>4 DEF FiniteSubsetsOf
<1>6. 0 .. n \in T
  BY <1>1
<1> HIDE DEF T, N
<1>7. PICK x \in T : \A y \in T : ~(<<y, x>> \in StrictSubsetOrdering(N))
  BY <1>3, <1>5, <1>6, WFMin
<1>8. PICK m \in S \cap N : x = 0 .. m
  BY DEF T
<1>9. ASSUME NEW k \in S, ~(m <= k) PROVE FALSE
  <2>1. k \in S \cap N /\ m \in Nat /\ k \in Nat
    BY <1>8, <1>9 DEF N
  <2>2. 0 .. k \in T
    BY <2>1 DEF T
  <2>3. 0 .. k \subseteq 0 .. m /\ 0 .. k # 0 .. m
    BY <1>9, <2>1
  <2>4. 0 .. k \in SUBSET N /\ 0 .. m \in SUBSET N
    BY <1>8, <2>1 DEF N
  <2>5. <<0 .. k, 0 .. m>> \in StrictSubsetOrdering(N)
    BY <2>3, <2>4 DEF StrictSubsetOrdering
  <2> QED
    BY <1>7, <1>8, <2>2, <2>5
<1> QED
  BY <1>8, <1>9

Goes(r, m, s, seq) == r = [i \in 0 .. m |-> IF i = 0 THEN s ELSE Op(r[i - 1], seq[i])]

(* The values that a loop goes through exist.                              *)
LEMMA CourseIs ==
  ASSUME NEW s, NEW seq, NEW n \in Nat
  PROVE  \E r : Goes(r, n, s, seq)
<1> DEFINE S == {m \in Nat : ~\E r : Goes(r, m, s, seq)}
<1>1. S = {}
  <2> SUFFICES ASSUME S # {} PROVE FALSE
    OBVIOUS
  <2>1. PICK m \in S : \A k \in S : m <= k
    <3> S \in SUBSET Nat
      OBVIOUS
    <3> HIDE DEF S
    <3> QED
      BY LeastOf
  <2>2. CASE m = 0
    <3>1. Goes([i \in 0 .. 0 |-> s], 0, s, seq)
      BY DEF Goes
    <3> QED
      BY <2>1, <2>2, <3>1
  <2>3. CASE m # 0
    <3>1. m \in Nat /\ m - 1 \in Nat /\ m - 1 \notin S
      BY <2>1, <2>3
    <3>2. PICK r : Goes(r, m - 1, s, seq)
      BY <3>1
    <3> DEFINE g == [i \in 0 .. m |-> IF i < m THEN r[i] ELSE Op(r[m - 1], seq[m])]
    <3>3. \A i \in 0 .. m : g[i] = IF i = 0 THEN s ELSE Op(g[i - 1], seq[i])
      <4> SUFFICES ASSUME NEW i \in 0 .. m PROVE g[i] = IF i = 0 THEN s ELSE Op(g[i - 1], seq[i])
        OBVIOUS
      <4>1. CASE i < m
        <5>1. r[i] = IF i = 0 THEN s ELSE Op(r[i - 1], seq[i])
          BY <3>1, <3>2, <4>1 DEF Goes
        <5>2. i # 0 => g[i - 1] = r[i - 1]
          BY <3>1, <4>1
        <5> QED
          BY <3>1, <4>1, <5>1, <5>2
      <4>2. CASE i = m
        <5>1. g[i - 1] = r[i - 1]
          BY <3>1, <4>2
        <5> QED
          BY <3>1, <4>2, <5>1, <2>3
      <4> QED
        BY <3>1, <4>1, <4>2
    <3>4. g = [i \in 0 .. m |-> g[i]]
      OBVIOUS
    <3> HIDE DEF g
    <3>5. Goes(g, m, s, seq)
      BY <3>3, <3>4 DEF Goes
    <3> QED
      BY <2>1, <3>5
  <2> QED
    BY <2>2, <2>3
<1> QED
  BY <1>1

(* What a loop keeps.                                                      *)
THEOREM LoopKeeps ==
  ASSUME NEW c, NEW s, NEW seq, Len(seq) \in Nat, Inv(c, 0, s),
         \A t : \A i \in 1 .. Len(seq) : Inv(c, i - 1, t) => Inv(c, i, Op(t, seq[i]))
  PROVE  Inv(c, Len(seq), Result(s, seq))
<1> DEFINE n == Len(seq)
           u == CHOOSE r : Goes(r, n, s, seq)
           S == {i \in 0 .. n : ~Inv(c, i, u[i])}
<1>1. Goes(u, n, s, seq)
  <2>1. \E r : Goes(r, n, s, seq)
    BY CourseIs
  <2> QED
    BY <2>1
<1>2. Result(s, seq) = u[n]
  BY DEF Result, Goes
<1>3. S = {}
  <2> SUFFICES ASSUME S # {} PROVE FALSE
    OBVIOUS
  <2>1. PICK m \in S : \A k \in S : m <= k
    <3> S \in SUBSET Nat
      OBVIOUS
    <3> HIDE DEF S
    <3> QED
      BY LeastOf
  <2>2. m \in 0 .. n /\ ~Inv(c, m, u[m])
    BY <2>1
  <2>3. m # 0
    BY <1>1, <2>2 DEF Goes
  <2>4. m - 1 \in 0 .. n /\ m - 1 \notin S /\ m \in 1 .. n
    BY <2>1, <2>2, <2>3
  <2>5. Inv(c, m - 1, u[m - 1])
    BY <2>4
  <2>6. u[m] = Op(u[m - 1], seq[m])
    BY <1>1, <2>2, <2>3 DEF Goes
  <2> QED
    BY <2>2, <2>4, <2>5, <2>6
<1> QED
  BY <1>2, <1>3
=============================================================================

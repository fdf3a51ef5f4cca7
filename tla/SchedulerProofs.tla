-------------------------- MODULE SchedulerProofs --------------------------
(***************************************************************************)
(* TLAPS proofs about Scheduler, for any number of threads, any delays and *)
(* any set of signals, when no thread run for a signal ends or kills       *)
(* (~SignalRunsRemove).                                                    *)
(*                                                                         *)
(* The argument.  Whatever is done to the list, it is ordered by some      *)
(* function p from threads to positions (Ordered): a removal keeps p,      *)
(* a creation gives the new thread the last position.  The cursor of the   *)
(* main walk splits the positions: the threads that still await their turn *)
(* are all at the cursor or behind it (Ahead).  The difficult moment is    *)
(* between the end of a thread and the step to the next one, when the      *)
(* cursor is the handle of a freed block: its link still leads to the      *)
(* first of the threads that wait.                                         *)
(*                                                                         *)
(* Alarms.  The comparison with a clock that wraps is right as long as no  *)
(* alarm has been due for half of the clock's range.  Every thread has its *)
(* turn in every pass (NoneSkippedHolds), and a turn takes the alarms that *)
(* are due, so an alarm has been due for at most the rest of the pass that *)
(* found it not due yet, and the next one until its turn: two passes       *)
(* (Timed).  A thread run for a signal counts as having had its turn       *)
(* though nobody looked at its alarm, but a thread that waits for a signal *)
(* has none (Waits).                                                       *)
(***************************************************************************)
EXTENDS Scheduler, TLAPS

-----------------------------------------------------------------------------
(* Lists.  That L is the list of the nodes S is stated with a position for *)
(* every node rather than with a sequence: p orders S, the head is first,  *)
(* the tail last, and next leads from each node to the following one.      *)
(* Then a removal leaves p alone, and an insertion at the tail gives one   *)
(* node a new position.  There can be no cycle, since next increases p.    *)

Ordered(L, S, p) ==
  /\ L \in Lists /\ S \subseteq Nodes /\ p \in [Nodes -> Int]
  /\ \A m, n \in S : p[m] = p[n] => m = n
  /\ L.head = None => S = {}
  /\ L.head # None => L.head \in S /\ \A m \in S : p[L.head] <= p[m]
  /\ L.tail = None => S = {}
  /\ L.tail # None => L.tail \in S /\ \A m \in S : p[m] <= p[L.tail]
  /\ \A n \in S :
       /\ L.next[n] = None => \A m \in S : p[m] <= p[n]
       /\ L.next[n] # None =>
            /\ L.next[n] \in S /\ p[n] < p[L.next[n]] /\ L.prev[L.next[n]] = n
            /\ \A m \in S : p[m] <= p[n] \/ p[L.next[n]] <= p[m]
       /\ L.prev[n] = None => \A m \in S : p[n] <= p[m]
       /\ L.prev[n] # None => L.prev[n] \in S /\ L.next[L.prev[n]] = n

(* What Remove does, field by field.                                       *)
LEMMA RemoveFields ==
  ASSUME NEW L \in Lists, NEW n \in Nodes
  PROVE  LET R == Remove(L, n)
             b == L.prev[n]
             a == L.next[n]
         IN /\ R \in Lists
            /\ R.head = (IF b = None THEN a ELSE L.head)
            /\ R.tail = (IF a = None THEN b ELSE L.tail)
            /\ \A m \in Nodes : R.next[m] = (IF m = b THEN a ELSE L.next[m])
            /\ \A m \in Nodes : R.prev[m] = (IF m = a THEN b ELSE L.prev[m])
<1> DEFINE b == L.prev[n]
<1> DEFINE a == L.next[n]
<1> DEFINE R == Remove(L, n)
<1>1. /\ a \in Links /\ b \in Links /\ None \notin Nodes
      /\ L.next \in [Nodes -> Links] /\ L.prev \in [Nodes -> Links]
      /\ L.head \in Links /\ L.tail \in Links
      /\ L = [head |-> L.head, tail |-> L.tail, next |-> L.next, prev |-> L.prev]
  BY NoneAssumption DEF Lists
<1>2. R = [head |-> IF b = None THEN a ELSE L.head,
           tail |-> IF a = None THEN b ELSE L.tail,
           next |-> IF b = None THEN L.next ELSE [L.next EXCEPT ![b] = a],
           prev |-> IF a = None THEN L.prev ELSE [L.prev EXCEPT ![a] = b]]
  <2> HIDE DEF a, b
  <2>1. R = [L EXCEPT !.head = IF b = None THEN a ELSE @,
                      !.tail = IF a = None THEN b ELSE @,
                      !.next = IF b = None THEN @ ELSE [@ EXCEPT ![b] = a],
                      !.prev = IF a = None THEN @ ELSE [@ EXCEPT ![a] = b]]
    BY DEF Remove, a, b
  <2> HIDE DEF R
  <2> QED
    BY <1>1, <2>1 DEF Lists
<1>3. R.next \in [Nodes -> Links] /\ R.prev \in [Nodes -> Links]
  BY <1>1, <1>2 DEF Links
<1>4. R \in Lists
  <2>1. R.head \in Links /\ R.tail \in Links
    BY <1>1, <1>2
  <2> QED
    BY <1>2, <1>3, <2>1 DEF Lists
<1>5. \A m \in Nodes : R.next[m] = (IF m = b THEN a ELSE L.next[m])
  BY <1>1, <1>2 DEF Links
<1>6. \A m \in Nodes : R.prev[m] = (IF m = a THEN b ELSE L.prev[m])
  BY <1>1, <1>2 DEF Links
<1> QED
  BY <1>2, <1>4, <1>5, <1>6

(* Removing a node of a list leaves the list of the others, in their order,*)
(* and leaves the removed node's own link to its successor.                *)
LEMMA RemoveOrdered ==
  ASSUME NEW L, NEW S, NEW p, Ordered(L, S, p), NEW n \in S
  PROVE  /\ Ordered(Remove(L, n), S \ {n}, p)
         /\ Remove(L, n).next[n] = L.next[n]
         /\ L.next[n] # n
<1> DEFINE b == L.prev[n]
<1> DEFINE a == L.next[n]
<1> DEFINE R == Remove(L, n)
<1> DEFINE T == S \ {n}
<1>1. L \in Lists /\ S \subseteq Nodes /\ n \in Nodes /\ p \in [Nodes -> Int] /\ None \notin Nodes
  BY NoneAssumption DEF Ordered
<1>2. /\ R \in Lists
      /\ R.head = (IF b = None THEN a ELSE L.head)
      /\ R.tail = (IF a = None THEN b ELSE L.tail)
      /\ \A m \in Nodes : R.next[m] = (IF m = b THEN a ELSE L.next[m])
      /\ \A m \in Nodes : R.prev[m] = (IF m = a THEN b ELSE L.prev[m])
  BY <1>1, RemoveFields
<1>3. \A m \in S : m \in Nodes /\ p[m] \in Int
  BY <1>1
<1>4. a # None => a \in T /\ p[n] < p[a] /\ L.prev[a] = n
                  /\ \A m \in S : p[m] <= p[n] \/ p[a] <= p[m]
  BY <1>3 DEF Ordered
<1>5. b # None => b \in T /\ p[b] < p[n] /\ L.next[b] = n
                  /\ \A m \in S : p[m] <= p[b] \/ p[n] <= p[m]
  BY <1>3 DEF Ordered
<1>6. a # n /\ b # n
  BY <1>1, <1>4, <1>5
<1>7. \A m \in S : /\ L.next[m] = n => m = b
                   /\ L.prev[m] = n => m = a
  BY <1>1 DEF Ordered
<1>8. ASSUME NEW m \in T
      PROVE  /\ R.next[m] = None => \A k \in T : p[k] <= p[m]
             /\ R.next[m] # None =>
                  /\ R.next[m] \in T /\ p[m] < p[R.next[m]] /\ R.prev[R.next[m]] = m
                  /\ \A k \in T : p[k] <= p[m] \/ p[R.next[m]] <= p[k]
  <2>1. CASE m = b
    <3>1. R.next[m] = a /\ b # None
      BY <1>1, <1>2, <2>1
    <3>2. CASE a = None
      <4>1. \A k \in S : p[k] <= p[n]
        BY <3>2 DEF Ordered
      <4>2. \A k \in T : p[k] <= p[b] \/ p[k] = p[n]
        BY <1>3, <1>5, <3>1, <4>1
      <4>3. \A k \in T : p[k] # p[n]
        BY DEF Ordered
      <4> QED
        BY <2>1, <3>1, <3>2, <4>2, <4>3
    <3>3. CASE a # None
      <4>1. R.prev[a] = b
        BY <1>1, <1>2, <1>4, <3>3
      <4>2. \A k \in T : p[k] # p[n]
        BY DEF Ordered
      <4>3. \A k \in T : p[k] <= p[b] \/ p[a] <= p[k]
        BY <1>3, <1>4, <1>5, <3>1, <3>3, <4>2
      <4> QED
        BY <1>3, <1>4, <1>5, <2>1, <3>1, <3>3, <4>1, <4>3
    <3> QED
      BY <3>2, <3>3
  <2>2. CASE m # b
    <3>1. R.next[m] = L.next[m] /\ L.next[m] # n
      BY <1>1, <1>2, <1>7, <2>2
    <3>2. CASE L.next[m] = None
      BY <3>1, <3>2 DEF Ordered
    <3>3. CASE L.next[m] # None
      <4> DEFINE x == L.next[m]
      <4>1. x \in S /\ p[m] < p[x] /\ L.prev[x] = m
            /\ \A k \in S : p[k] <= p[m] \/ p[x] <= p[k]
        BY <3>3 DEF Ordered
      <4>2. x # a
        BY <1>1, <1>4, <4>1
      <4>3. R.prev[x] = m
        BY <1>1, <1>2, <4>1, <4>2
      <4> QED
        BY <3>1, <3>3, <4>1, <4>3
    <3> QED
      BY <3>2, <3>3
  <2> QED
    BY <2>1, <2>2
<1>9. ASSUME NEW m \in T
      PROVE  /\ R.prev[m] = None => \A k \in T : p[m] <= p[k]
             /\ R.prev[m] # None => R.prev[m] \in T /\ R.next[R.prev[m]] = m
  <2>1. CASE m = a
    <3>1. R.prev[m] = b /\ a # None
      BY <1>1, <1>2, <2>1
    <3>2. CASE b = None
      <4>1. \A k \in S : p[n] <= p[k]
        BY <3>2 DEF Ordered
      <4>2. \A k \in T : p[k] # p[n]
        BY DEF Ordered
      <4>3. \A k \in T : p[a] <= p[k]
        BY <1>3, <1>4, <3>1, <4>1, <4>2
      <4> QED
        BY <2>1, <3>1, <3>2, <4>3
    <3>3. CASE b # None
      <4>1. R.next[b] = a
        BY <1>1, <1>2, <1>5, <3>3
      <4> QED
        BY <1>5, <2>1, <3>1, <3>3, <4>1
    <3> QED
      BY <3>2, <3>3
  <2>2. CASE m # a
    <3>1. R.prev[m] = L.prev[m] /\ L.prev[m] # n
      BY <1>1, <1>2, <1>7, <2>2
    <3>2. CASE L.prev[m] = None
      BY <3>1, <3>2 DEF Ordered
    <3>3. CASE L.prev[m] # None
      <4> DEFINE x == L.prev[m]
      <4>1. x \in S /\ L.next[x] = m
        BY <3>3 DEF Ordered
      <4>2. x # b
        BY <1>1, <1>5, <4>1
      <4>3. R.next[x] = m
        BY <1>1, <1>2, <4>1, <4>2
      <4> QED
        BY <3>1, <3>3, <4>1, <4>3
    <3> QED
      BY <3>2, <3>3
  <2> QED
    BY <2>1, <2>2
<1>10. /\ R.head = None => T = {}
       /\ R.head # None => R.head \in T /\ \A m \in T : p[R.head] <= p[m]
  <2>1. CASE b = None
    <3>1. \A k \in S : p[n] <= p[k]
      BY <2>1 DEF Ordered
    <3>2. \A k \in T : p[k] # p[n]
      BY DEF Ordered
    <3>3. a = None => \A k \in S : p[k] <= p[n]
      BY DEF Ordered
    <3> QED
      BY <1>2, <1>3, <1>4, <2>1, <3>1, <3>2, <3>3
  <2>2. CASE b # None
    <3>1. L.head # None /\ L.head \in S /\ \A m \in S : p[L.head] <= p[m]
      BY DEF Ordered
    <3>2. L.head # n
      BY <1>3, <1>5, <2>2, <3>1
    <3> QED
      BY <1>2, <2>2, <3>1, <3>2
  <2> QED
    BY <2>1, <2>2
<1>11. /\ R.tail = None => T = {}
       /\ R.tail # None => R.tail \in T /\ \A m \in T : p[m] <= p[R.tail]
  <2>1. CASE a = None
    <3>1. \A k \in S : p[k] <= p[n]
      BY <2>1 DEF Ordered
    <3>2. \A k \in T : p[k] # p[n]
      BY DEF Ordered
    <3>3. b = None => \A k \in S : p[n] <= p[k]
      BY DEF Ordered
    <3> QED
      BY <1>2, <1>3, <1>5, <2>1, <3>1, <3>2, <3>3
  <2>2. CASE a # None
    <3>1. L.tail # None /\ L.tail \in S /\ \A m \in S : p[m] <= p[L.tail]
      BY DEF Ordered
    <3>2. L.tail # n
      BY <1>3, <1>4, <2>2, <3>1
    <3> QED
      BY <1>2, <2>2, <3>1, <3>2
  <2> QED
    BY <2>1, <2>2
<1>12. Ordered(R, T, p)
  <2>1. T \subseteq Nodes /\ \A m, k \in T : p[m] = p[k] => m = k
    BY <1>1 DEF Ordered
  <2> QED
    BY <1>1, <1>2, <1>8, <1>9, <1>10, <1>11, <2>1 DEF Ordered
<1>13. R.next[n] = a
  BY <1>1, <1>2, <1>6
<1> QED
  BY <1>6, <1>12, <1>13

-----------------------------------------------------------------------------
(* What the insertion of a new node at the tail does, field by field.      *)
LEMMA InsertTailFields ==
  ASSUME NEW L \in Lists, NEW n \in Nodes, L.tail # n,
         L.tail # None => L.next[L.tail] = None
  PROVE  LET I == InsertTail(CreateNode(L, n), n)
         IN /\ I \in Lists
            /\ I.head = (IF L.tail = None THEN n ELSE L.head)
            /\ I.tail = n
            /\ \A m \in Nodes : I.next[m] = (IF m = n THEN None
                                             ELSE IF m = L.tail THEN n ELSE L.next[m])
            /\ \A m \in Nodes : I.prev[m] = (IF m = n THEN L.tail ELSE L.prev[m])
<1> DEFINE C == CreateNode(L, n)
<1> DEFINE I == InsertTail(C, n)
<1> DEFINE t == L.tail
<1>1. /\ L.next \in [Nodes -> Links] /\ L.prev \in [Nodes -> Links]
      /\ L.head \in Links /\ t \in Links /\ None \notin Nodes
      /\ L = [head |-> L.head, tail |-> t, next |-> L.next, prev |-> L.prev]
  BY NoneAssumption DEF Lists
<1>2. C = [head |-> L.head, tail |-> t, next |-> [L.next EXCEPT ![n] = None],
           prev |-> [L.prev EXCEPT ![n] = None]]
  <2>1. C = [L EXCEPT !.next = [@ EXCEPT ![n] = None], !.prev = [@ EXCEPT ![n] = None]]
    BY DEF CreateNode
  <2> HIDE DEF C
  <2> QED
    BY <2>1 DEF Lists
<1>3. CASE t = None
  <2>1. I = [head |-> n, tail |-> n, next |-> [C.next EXCEPT ![n] = None],
             prev |-> [C.prev EXCEPT ![n] = None]]
    <3> HIDE DEF C
    <3> QED
      BY <1>2, <1>3 DEF InsertTail, Alone
  <2>2. I.next \in [Nodes -> Links] /\ I.prev \in [Nodes -> Links]
    BY <1>1, <1>2, <2>1 DEF Links
  <2>3. I \in Lists
    <3> HIDE DEF I
    <3> QED
      BY <2>1, <2>2 DEF Lists, Links
  <2>4. \A m \in Nodes : /\ I.next[m] = (IF m = n THEN None ELSE L.next[m])
                         /\ I.prev[m] = (IF m = n THEN None ELSE L.prev[m])
    <3> HIDE DEF I, C
    <3> QED
      BY <1>1, <1>2, <2>1
  <2> QED
    BY <1>1, <1>3, <2>1, <2>3, <2>4
<1>4. CASE t # None
  <2>1. t \in Nodes /\ t # n /\ L.next[t] = None
    BY <1>1, <1>4 DEF Links
  <2>2. C.next[t] = None
    <3> HIDE DEF C
    <3> QED
      BY <1>1, <1>2, <2>1
  <2>3. I = InsertAfter(C, t, n)
    <3> HIDE DEF C
    <3> QED
      BY <1>2, <1>4 DEF InsertTail
  <2>4. I = [head |-> L.head, tail |-> n,
             next |-> [C.next EXCEPT ![t] = n, ![n] = None],
             prev |-> [C.prev EXCEPT ![n] = t]]
    <3> HIDE DEF C, I
    <3> QED
      BY <1>2, <2>2, <2>3 DEF InsertAfter
  <2>5. I.next \in [Nodes -> Links] /\ I.prev \in [Nodes -> Links]
    <3> HIDE DEF C, I
    <3> QED
      BY <1>1, <1>2, <2>1, <2>4 DEF Links
  <2>6. I \in Lists
    <3> HIDE DEF I
    <3> QED
      BY <1>1, <2>4, <2>5 DEF Lists, Links
  <2>7. \A m \in Nodes : /\ I.next[m] = (IF m = n THEN None ELSE IF m = t THEN n ELSE L.next[m])
                         /\ I.prev[m] = (IF m = n THEN t ELSE L.prev[m])
    <3> HIDE DEF I, C
    <3> QED
      BY <1>1, <1>2, <2>1, <2>4
  <2> QED
    BY <1>1, <1>4, <2>4, <2>6, <2>7
<1> QED
  BY <1>3, <1>4

(* Inserting a node that is not in a list leaves the list of the others    *)
(* followed by that node.                                                  *)
LEMMA InsertTailOrdered ==
  ASSUME NEW L, NEW S, NEW p, Ordered(L, S, p), NEW n \in Nodes, n \notin S
  PROVE  \E q : /\ Ordered(InsertTail(CreateNode(L, n), n), S \cup {n}, q)
                /\ \A m \in S : q[m] = p[m] /\ q[m] < q[n]
<1> DEFINE t == L.tail
<1> DEFINE T == S \cup {n}
<1> DEFINE I == InsertTail(CreateNode(L, n), n)
<1> DEFINE q == [p EXCEPT ![n] = IF t = None THEN 0 ELSE p[t] + 1]
<1>1. L \in Lists /\ S \subseteq Nodes /\ p \in [Nodes -> Int] /\ None \notin Nodes
  BY NoneAssumption DEF Ordered
<1>2. /\ t = None => S = {}
      /\ t # None => t \in S /\ t \in Nodes /\ \A m \in S : p[m] <= p[t]
  BY DEF Ordered
<1>3. t # None => L.next[t] = None
  <2>1. SUFFICES ASSUME t # None, L.next[t] # None PROVE FALSE
    OBVIOUS
  <2>2. L.next[t] \in S /\ p[t] < p[L.next[t]]
    BY <1>2, <2>1 DEF Ordered
  <2> QED
    BY <1>1, <1>2, <2>1, <2>2
<1>4. t # n
  BY <1>1, <1>2
<1>5. /\ I \in Lists
      /\ I.head = (IF t = None THEN n ELSE L.head)
      /\ I.tail = n
      /\ \A m \in Nodes : I.next[m] = (IF m = n THEN None ELSE IF m = t THEN n ELSE L.next[m])
      /\ \A m \in Nodes : I.prev[m] = (IF m = n THEN t ELSE L.prev[m])
  BY <1>1, <1>3, <1>4, InsertTailFields
<1>6. q \in [Nodes -> Int]
  BY <1>1, <1>2
<1>7. \A m \in S : m \in Nodes /\ m # n /\ q[m] = p[m] /\ p[m] \in Int
  BY <1>1
<1>8. \A m \in S : q[m] < q[n] /\ t # None /\ q[n] = p[t] + 1
  <2>1. q[n] = IF t = None THEN 0 ELSE p[t] + 1
    BY <1>1
  <2> HIDE DEF q
  <2> QED
    BY <1>2, <1>7, <2>1
<1> HIDE DEF q, I
<1>9. ASSUME NEW m \in T
      PROVE  /\ I.next[m] = None => \A k \in T : q[k] <= q[m]
             /\ I.next[m] # None =>
                  /\ I.next[m] \in T /\ q[m] < q[I.next[m]] /\ I.prev[I.next[m]] = m
                  /\ \A k \in T : q[k] <= q[m] \/ q[I.next[m]] <= q[k]
  <2>1. CASE m = n
    <3>1. I.next[m] = None
      BY <1>5, <2>1
    <3>2. \A k \in T : q[k] <= q[n]
      BY <1>6, <1>7, <1>8
    <3> QED
      BY <2>1, <3>1, <3>2
  <2>2. CASE m # n /\ m = t
    <3>1. m \in S /\ I.next[m] = n /\ I.prev[n] = m /\ n # None
      BY <1>1, <1>5, <2>2
    <3>2. \A k \in S : q[k] <= q[m]
      BY <1>2, <1>7, <2>2, <3>1
    <3>3. q[n] <= q[n]
      BY <1>6
    <3> QED
      BY <1>8, <3>1, <3>2, <3>3
  <2>3. CASE m # n /\ m # t
    <3> DEFINE x == L.next[m]
    <3>1. m \in S /\ m \in Nodes /\ I.next[m] = x
      BY <1>1, <1>5, <2>3
    <3>2. x # None
      <4>1. SUFFICES ASSUME x = None PROVE FALSE
        OBVIOUS
      <4>2. \A k \in S : p[k] <= p[m]
        BY <3>1, <4>1 DEF Ordered
      <4>3. t \in S /\ p[m] <= p[t]
        BY <1>2, <3>1
      <4>4. p[t] = p[m]
        BY <1>7, <3>1, <4>2, <4>3
      <4> QED
        BY <2>3, <3>1, <4>3, <4>4 DEF Ordered
    <3>3. x \in S /\ p[m] < p[x] /\ L.prev[x] = m /\ \A k \in S : p[k] <= p[m] \/ p[x] <= p[k]
      BY <3>1, <3>2 DEF Ordered
    <3>4. I.prev[x] = m
      BY <1>5, <1>7, <3>3
    <3>5. q[x] <= q[n]
      BY <1>6, <1>7, <1>8, <3>3
    <3>6. \A k \in S : q[k] <= q[m] \/ q[x] <= q[k]
      BY <1>7, <3>1, <3>3
    <3>7. q[m] < q[x]
      BY <1>7, <3>1, <3>3
    <3> QED
      BY <3>1, <3>2, <3>3, <3>4, <3>5, <3>6, <3>7
  <2> QED
    BY <2>1, <2>2, <2>3
<1>10. ASSUME NEW m \in T
       PROVE  /\ I.prev[m] = None => \A k \in T : q[m] <= q[k]
              /\ I.prev[m] # None => I.prev[m] \in T /\ I.next[I.prev[m]] = m
  <2>1. CASE m = n
    <3>1. I.prev[m] = t /\ m \in Nodes
      BY <1>5, <2>1
    <3>2. CASE t = None
      BY <1>2, <1>6, <2>1, <3>1, <3>2
    <3>3. CASE t # None
      BY <1>2, <1>4, <1>5, <2>1, <3>1, <3>3
    <3> QED
      BY <3>2, <3>3
  <2>2. CASE m # n
    <3> DEFINE x == L.prev[m]
    <3>1. m \in S /\ m \in Nodes /\ I.prev[m] = x
      BY <1>1, <1>5, <2>2
    <3>2. CASE x = None
      <4>1. \A k \in S : p[m] <= p[k]
        BY <3>1, <3>2 DEF Ordered
      <4>2. \A k \in S : q[m] <= q[k]
        BY <1>7, <3>1, <4>1
      <4>3. q[m] <= q[n]
        BY <1>6, <1>7, <1>8, <3>1
      <4> QED
        BY <3>1, <3>2, <4>2, <4>3
    <3>3. CASE x # None
      <4>1. x \in S /\ L.next[x] = m
        BY <3>1, <3>3 DEF Ordered
      <4>2. x # t
        BY <1>1, <1>3, <1>7, <3>1, <4>1
      <4>3. I.next[x] = m
        BY <1>5, <1>7, <4>1, <4>2
      <4> QED
        BY <3>1, <3>3, <4>1, <4>3
    <3> QED
      BY <3>2, <3>3
  <2> QED
    BY <2>1, <2>2
<1>11. I.head # None /\ I.head \in T /\ \A m \in T : q[I.head] <= q[m]
  <2>1. CASE t = None
    BY <1>1, <1>2, <1>5, <1>6, <2>1
  <2>2. CASE t # None
    <3>1. L.head # None /\ L.head \in S /\ \A m \in S : p[L.head] <= p[m]
      BY <1>2, <2>2 DEF Ordered
    <3>2. \A m \in S : q[L.head] <= q[m]
      BY <1>7, <3>1
    <3>3. q[L.head] <= q[n]
      BY <1>6, <1>7, <1>8, <3>1
    <3> QED
      BY <1>5, <2>2, <3>1, <3>2, <3>3
  <2> QED
    BY <2>1, <2>2
<1>12. I.tail # None /\ I.tail \in T /\ \A m \in T : q[m] <= q[I.tail]
  <2>1. \A m \in T : q[m] <= q[n]
    BY <1>6, <1>7, <1>8
  <2> QED
    BY <1>1, <1>5, <2>1
<1>13. T \subseteq Nodes /\ \A m, k \in T : q[m] = q[k] => m = k
  <2>1. \A m, k \in S : q[m] = q[k] => m = k
    BY <1>7 DEF Ordered
  <2>2. \A m \in S : q[m] # q[n]
    BY <1>6, <1>7, <1>8
  <2> QED
    BY <1>1, <2>1, <2>2
<1>14. Ordered(I, T, q)
  BY <1>5, <1>6, <1>9, <1>10, <1>11, <1>12, <1>13 DEF Ordered
<1>15. \A m \in S : q[m] = p[m] /\ q[m] < q[n]
  BY <1>7, <1>8
<1> QED
  BY <1>14, <1>15 DEF I

-----------------------------------------------------------------------------
(* The walks.                                                              *)

(* The cursor x has a thread, or nobody is left; nobody is left behind x.  *)
Ahead(x, p) ==
  IF x = None THEN due = {} ELSE x \in live /\ \A m \in due : p[x] <= p[m]

WalkOK(p) ==
  /\ (ctx = "main" /\ at = "visit") \/ ctx = "signals" => Ahead(ln, p)
  /\ ctx = "main" /\ at \in {"enter", "body"} =>
       ln \in live /\ \A m \in due : p[ln] < p[m]
  /\ ctx = "main" /\ at = "next" => ln \in Nodes /\ Ahead(list.next[ln], p)

SignalWalkOK ==
  /\ ctx = "signals" /\ at = "visit" => sig \in live \cup {None}
  /\ ctx = "signals" /\ at \in {"enter", "body", "next"} => sig \in live
  /\ at = "pass" => ctx = "main"
  /\ due \subseteq live

Sound == SignalWalkOK /\ \E p : Ordered(list, live, p) /\ WalkOK(p)

IInv == TypeOK /\ Sound

-----------------------------------------------------------------------------
(* Facts about ordered lists, as the walks use them.                       *)

LEMMA HeadFirst ==
  ASSUME NEW L, NEW S, NEW p, Ordered(L, S, p)
  PROVE  /\ L.head \in S \cup {None}
         /\ L.head = None => S = {}
         /\ L.head # None => \A m \in S : p[L.head] <= p[m]
  BY DEF Ordered

LEMMA NextLive ==
  ASSUME NEW L, NEW S, NEW p, Ordered(L, S, p), NEW n \in S
  PROVE  L.next[n] \in S \cup {None}
  BY DEF Ordered

(* Those behind a node are at its successor or behind that.                *)
LEMMA NextFirst ==
  ASSUME NEW L, NEW S, NEW p, Ordered(L, S, p), NEW n \in S,
         NEW D, D \subseteq S, \A m \in D : p[n] < p[m]
  PROVE  IF L.next[n] = None THEN D = {}
         ELSE L.next[n] \in S /\ \A m \in D : p[L.next[n]] <= p[m]
<1>1. \A m \in S : p[m] \in Int
  BY DEF Ordered
<1>2. CASE L.next[n] = None
  <2>1. \A m \in S : p[m] <= p[n]
    BY <1>2 DEF Ordered
  <2> QED
    BY <1>1, <1>2, <2>1
<1>3. CASE L.next[n] # None
  <2>1. L.next[n] \in S /\ \A m \in S : p[m] <= p[n] \/ p[L.next[n]] <= p[m]
    BY <1>3 DEF Ordered
  <2> QED
    BY <1>1, <1>3, <2>1
<1> QED
  BY <1>2, <1>3

(* Of those at a node or behind it, the others are behind it.              *)
LEMMA OthersBehind ==
  ASSUME NEW L, NEW S, NEW p, Ordered(L, S, p), NEW n \in S,
         NEW D, D \subseteq S, \A m \in D : p[n] <= p[m]
  PROVE  \A m \in D \ {n} : p[n] < p[m]
<1>1. \A m \in S : p[m] \in Int
  BY DEF Ordered
<1>2. \A m \in S : p[m] = p[n] => m = n
  BY DEF Ordered
<1> QED
  BY <1>1, <1>2

LEMMA LinksReplaced ==
  ASSUME NEW L \in Lists, NEW nx \in [Nodes -> Links], NEW pv \in [Nodes -> Links],
         NEW R, R = [L EXCEPT !.next = nx, !.prev = pv]
  PROVE  R = [head |-> L.head, tail |-> L.tail, next |-> nx, prev |-> pv]
  BY DEF Lists

(* The collector destroys the links of freed nodes; those of the list stay.*)
LEMMA LinksLost ==
  ASSUME NEW L, NEW S, NEW p, Ordered(L, S, p), NEW nx, NEW pv,
         nx = [n \in Nodes |-> IF n \in S THEN L.next[n] ELSE None],
         pv = [n \in Nodes |-> IF n \in S THEN L.prev[n] ELSE None]
  PROVE  Ordered([L EXCEPT !.next = nx, !.prev = pv], S, p)
<1> DEFINE R == [L EXCEPT !.next = nx, !.prev = pv]
<1>1. L \in Lists /\ S \subseteq Nodes
  BY DEF Ordered
<1>2. nx \in [Nodes -> Links] /\ pv \in [Nodes -> Links]
  BY <1>1 DEF Lists, Links
<1>3. R = [head |-> L.head, tail |-> L.tail, next |-> nx, prev |-> pv]
  BY <1>1, <1>2, LinksReplaced
<1> HIDE DEF R
<1>4. R \in Lists
  <2>1. L.head \in Links /\ L.tail \in Links
    BY <1>1 DEF Lists
  <2> QED
    BY <1>2, <1>3, <2>1 DEF Lists
<1>5. /\ R.head = L.head /\ R.tail = L.tail
      /\ \A n \in S : R.next[n] = L.next[n] /\ R.prev[n] = L.prev[n]
  BY <1>1, <1>3
<1>6. Ordered(R, S, p)
  BY <1>4, <1>5 DEF Ordered
<1> QED
  BY <1>6 DEF R

-----------------------------------------------------------------------------
(* The initial state.                                                      *)

LEMMA EmptyFacts == EmptyList \in Lists /\ EmptyList.head = None /\ EmptyList.tail = None
                    /\ \A n \in Nodes : EmptyList.next[n] = None /\ EmptyList.prev[n] = None
<1>1. EmptyList.next \in [Nodes -> Links] /\ EmptyList.prev \in [Nodes -> Links]
  BY DEF EmptyList, Links
<1> QED
  BY <1>1 DEF EmptyList, Lists, Links

LEMMA InitList == Init => Ordered(list, live, [n \in Nodes |-> 0])
<1> SUFFICES ASSUME Init PROVE Ordered(list, live, [n \in Nodes |-> 0])
  OBVIOUS
<1>1. Main \in Nodes /\ None \notin Nodes
  BY ThreadsAssumption, NoneAssumption
<1>2. list = Alone(EmptyList, Main) /\ live = {Main}
  BY EmptyFacts DEF Init, InsertTail
<1>3. list = [head |-> Main, tail |-> Main,
              next |-> [EmptyList.next EXCEPT ![Main] = None],
              prev |-> [EmptyList.prev EXCEPT ![Main] = None]]
  BY <1>2 DEF Alone, EmptyList
<1>4. list.next \in [Nodes -> Links] /\ list.prev \in [Nodes -> Links]
  BY <1>1, <1>3, EmptyFacts DEF Lists, Links
<1>5. list \in Lists
  BY <1>1, <1>3, <1>4 DEF Lists, Links
<1>6. list.next[Main] = None /\ list.prev[Main] = None /\ list.head = Main /\ list.tail = Main
  BY <1>1, <1>3, EmptyFacts DEF Lists
<1> QED
  BY <1>1, <1>2, <1>5, <1>6 DEF Ordered

LEMMA InitInv == Init => IInv
<1> SUFFICES ASSUME Init PROVE IInv
  OBVIOUS
<1>1. Ordered(list, live, [n \in Nodes |-> 0])
  BY InitList
<1>2. WalkOK([n \in Nodes |-> 0]) /\ SignalWalkOK
  BY DEF Init, WalkOK, SignalWalkOK
<1>3. TypeOK
  <2>1. list \in Lists /\ live \subseteq Nodes
    BY <1>1 DEF Ordered
  <2> QED
    BY <2>1, ClockAssumption DEF Init, TypeOK, Flags, Points, Links
<1> QED
  BY <1>1, <1>2, <1>3 DEF IInv, Sound

-----------------------------------------------------------------------------
(* Every step keeps the walks sound.  One step per action; those that      *)
(* touch neither list nor cursors are taken together first.                *)

LEMMA SoundKept ==
  ASSUME Sound, UNCHANGED <<list, live, ln, sig, at, ctx, due>>
  PROVE  Sound'
  BY DEF Sound, SignalWalkOK, WalkOK, Ahead

(* A thread returns to the walk it was run from.                           *)
LEMMA SoundReturn ==
  ASSUME Sound, TypeOK, at \in {"enter", "body"}, at' = "next",
         UNCHANGED <<list, live, ln, sig, ctx, due>>
  PROVE  Sound'
<1> PICK p : Ordered(list, live, p) /\ WalkOK(p)
  BY DEF Sound
<1>1. Ordered(list', live', p)
  OBVIOUS
<1>2. CASE ctx = "main"
  <2>1. ln \in live /\ due \subseteq live /\ \A m \in due : p[ln] < p[m]
    BY <1>2 DEF Sound, SignalWalkOK, WalkOK
  <2>2. Ahead(list.next[ln], p)
    BY <2>1, NextFirst DEF Ahead
  <2>3. WalkOK(p)'
    BY <1>2, <2>2 DEF WalkOK, Ahead, TypeOK, Sound, Ordered
  <2>4. ln \in Nodes
    BY <2>1 DEF TypeOK
  <2> QED
    BY <1>1, <1>2, <2>1, <2>3, <2>4 DEF Sound, SignalWalkOK
<1>3. CASE ctx = "signals"
  <2>1. sig \in live /\ due \subseteq live
    BY <1>3 DEF Sound, SignalWalkOK
  <2>2. WalkOK(p)'
    BY <1>3 DEF WalkOK, Ahead
  <2> QED
    BY <1>1, <1>3, <2>1, <2>2 DEF Sound, SignalWalkOK
<1> QED
  BY <1>2, <1>3 DEF TypeOK

LEMMA SoundWalks ==
  ASSUME IInv, StartPass \/ EndPass \/ SignalsDone \/ Advance
  PROVE  Sound'
<1> PICK p : Ordered(list, live, p) /\ WalkOK(p)
  BY DEF IInv, Sound
<1> USE DEF IInv
<1>1. CASE StartPass
  <2>1. Ordered(list', live', p) /\ Ahead(ln, p)'
    BY <1>1, HeadFirst DEF StartPass, threads, Ahead
  <2> QED
    BY <1>1, <2>1 DEF StartPass, threads, Sound, SignalWalkOK, WalkOK
<1>2. CASE EndPass
  <2>1. Ordered([list EXCEPT !.next = Kept(@), !.prev = Kept(@)], live, p)
    BY LinksLost DEF Kept
  <2>2. Ordered(list', live', p)
    BY <1>2, <2>1 DEF EndPass
  <2> QED
    BY <1>2, <2>2 DEF EndPass, history, Sound, SignalWalkOK, WalkOK
<1>3. CASE SignalsDone
  <2>1. Ordered(list', live', p) /\ WalkOK(p)'
    BY <1>3 DEF SignalsDone, threads, history, WalkOK, Ahead
  <2> QED
    BY <1>3, <2>1 DEF SignalsDone, threads, history, Sound, SignalWalkOK
<1>4. CASE Advance
  <2>1. Ordered(list', live', p)
    BY <1>4 DEF Advance, threads
  <2>2. CASE ctx = "main"
    <3>1. Ahead(ln, p)'
      BY <1>4, <2>2 DEF Advance, threads, history, WalkOK, Ahead, NextOf
    <3>2. WalkOK(p)'
      BY <1>4, <3>1 DEF Advance, WalkOK
    <3>3. sig' = sig \/ sig' \in live \cup {None}
      BY <1>4, <2>2, HeadFirst DEF Advance
    <3>4. SignalWalkOK'
      BY <1>4, <2>2, HeadFirst DEF Advance, threads, history, Sound, SignalWalkOK
    <3> QED
      BY <2>1, <3>2, <3>4 DEF Sound
  <2>3. CASE ctx = "signals"
    <3>1. WalkOK(p)'
      BY <1>4, <2>3 DEF Advance, threads, history, WalkOK, Ahead
    <3>2. sig' \in live \cup {None}
      BY <1>4, <2>3, NextLive DEF Advance, NextOf, Sound, SignalWalkOK
    <3>3. SignalWalkOK'
      BY <1>4, <2>3, <3>2 DEF Advance, threads, history, Sound, SignalWalkOK
    <3> QED
      BY <2>1, <3>1, <3>3 DEF Sound
  <2> QED
    BY <2>2, <2>3 DEF TypeOK
<1> QED
  BY <1>1, <1>2, <1>3, <1>4

LEMMA SoundVisits ==
  ASSUME IInv, VisitAlarm \/ VisitReady \/ VisitIdle \/ VisitSignalled
  PROVE  Sound'
<1> PICK p : Ordered(list, live, p) /\ WalkOK(p)
  BY DEF IInv, Sound
<1>1. CASE VisitAlarm \/ VisitReady \/ VisitIdle
  <2>1. /\ at = "visit" /\ ctx = "main" /\ ln # None /\ due' = due \ {ln}
        /\ UNCHANGED <<list, live, ln, sig, ctx>>
    BY <1>1 DEF VisitAlarm, VisitReady, VisitIdle, Enter, threads
  <2>2. ln \in live /\ due \subseteq live /\ ln \in Nodes
    BY <2>1 DEF IInv, TypeOK, Sound, SignalWalkOK, WalkOK, Ahead
  <2>3. \A m \in due' : p[ln] < p[m]
    <3>1. \A m \in due : p[ln] <= p[m]
      BY <2>1 DEF WalkOK, Ahead
    <3> QED
      BY <2>1, <2>2, <3>1, OthersBehind
  <2>4. Ordered(list', live', p)
    BY <2>1
  <2>5. CASE at' = "enter"
    <3>1. WalkOK(p)'
      BY <2>1, <2>2, <2>3, <2>5 DEF WalkOK
    <3> QED
      BY <2>1, <2>2, <2>4, <2>5, <3>1 DEF Sound, SignalWalkOK
  <2>6. CASE at' = "next"
    <3>1. due' \subseteq live
      BY <2>1, <2>2
    <3>2. Ahead(list.next[ln], p)'
      BY <2>1, <2>2, <2>3, <3>1, NextFirst DEF Ahead
    <3>3. WalkOK(p)'
      BY <2>1, <2>2, <2>6, <3>2 DEF WalkOK
    <3> QED
      BY <2>1, <2>2, <2>4, <2>6, <3>1, <3>3 DEF Sound, SignalWalkOK
  <2> QED
    BY <1>1, <2>5, <2>6 DEF VisitAlarm, VisitReady, VisitIdle, Enter
<1>2. CASE VisitSignalled
  <2>1. /\ at = "visit" /\ ctx = "signals" /\ sig # None /\ at' \in {"enter", "next"}
        /\ due' \subseteq due
        /\ UNCHANGED <<list, live, ln, sig, ctx>>
    BY <1>2 DEF VisitSignalled, Enter
  <2>2. sig \in live /\ due' \subseteq live
    BY <2>1 DEF IInv, Sound, SignalWalkOK
  <2>3. WalkOK(p)'
    BY <2>1 DEF WalkOK, Ahead
  <2> QED
    BY <2>1, <2>2, <2>3 DEF Sound, SignalWalkOK
<1> QED
  BY <1>1, <1>2

LEMMA SoundGoOn ==
  ASSUME IInv, GoOn
  PROVE  Sound'
<1> PICK p : Ordered(list, live, p) /\ WalkOK(p)
  BY DEF IInv, Sound
<1>1. at = "enter" /\ at' = "body" /\ UNCHANGED <<list, live, ln, sig, ctx, due>>
  BY DEF GoOn, history
<1>2. WalkOK(p)'
  BY <1>1 DEF WalkOK, Ahead
<1> QED
  BY <1>1, <1>2 DEF IInv, Sound, SignalWalkOK

(* The thread that runs ends, in the main walk: the cursor is left on a    *)
(* freed block, whose link leads to the first of those that wait.          *)
LEMMA SoundEnd ==
  ASSUME IInv, End, ~SignalRunsRemove
  PROVE  Sound'
<1> PICK p : Ordered(list, live, p) /\ WalkOK(p)
  BY DEF IInv, Sound
<1>1. /\ at = "body" /\ at' = "next" /\ ctx = "main" /\ Cursor = ln
      /\ live' = live \ {ln} /\ list' = Remove(list, ln)
      /\ UNCHANGED <<ln, sig, ctx, due>>
  BY DEF End, Unlink, Cursor
<1>2. ln \in live /\ ln \in Nodes /\ due \subseteq live /\ \A m \in due : p[ln] < p[m]
  BY <1>1 DEF IInv, TypeOK, Sound, SignalWalkOK, WalkOK
<1>3. ln \notin due
  BY <1>2 DEF Ordered
<1>4. /\ Ordered(list', live', p)
      /\ list'.next[ln] = list.next[ln] /\ list.next[ln] # ln
  BY <1>1, <1>2, RemoveOrdered
<1>5. Ahead(list.next[ln], p)
  BY <1>2, NextFirst DEF Ahead
<1>6. Ahead(list.next[ln], p)'
  BY <1>1, <1>4, <1>5 DEF Ahead
<1>7. WalkOK(p)'
  BY <1>1, <1>2, <1>6 DEF WalkOK
<1>8. SignalWalkOK'
  BY <1>1, <1>2, <1>3 DEF SignalWalkOK
<1> QED
  BY <1>4, <1>7, <1>8 DEF Sound

LEMMA SoundKill ==
  ASSUME IInv, NEW n \in Nodes, Kill(n), ~SignalRunsRemove
  PROVE  Sound'
<1> PICK p : Ordered(list, live, p) /\ WalkOK(p)
  BY DEF IInv, Sound
<1>1. /\ at = "body" /\ ctx = "main" /\ Cursor = ln /\ n \in live /\ n # ln
      /\ live' = live \ {n} /\ list' = Remove(list, n) /\ due' = due \ {n}
      /\ UNCHANGED <<ln, sig, at, ctx>>
  BY DEF Kill, Unlink, Cursor, control
<1>2. Ordered(list', live', p)
  BY <1>1, RemoveOrdered
<1>3. WalkOK(p)'
  BY <1>1 DEF WalkOK
<1>4. SignalWalkOK'
  BY <1>1 DEF IInv, Sound, SignalWalkOK
<1> QED
  BY <1>2, <1>3, <1>4 DEF Sound

LEMMA SoundCreate ==
  ASSUME IInv, NEW n \in Nodes, Create(n)
  PROVE  Sound'
<1> PICK p : Ordered(list, live, p) /\ WalkOK(p)
  BY DEF IInv, Sound
<1>1. /\ at = "body" /\ n \notin live /\ live' = live \cup {n}
      /\ list' = InsertTail(CreateNode(list, n), n)
      /\ UNCHANGED <<ln, sig, at, ctx, due>>
  BY DEF Create, control
<1>2. PICK q : Ordered(list', live', q) /\ \A m \in live : q[m] = p[m]
  BY <1>1, InsertTailOrdered
<1>3. due \subseteq live
  BY DEF IInv, Sound, SignalWalkOK
<1>4. WalkOK(q)'
  BY <1>1, <1>2, <1>3 DEF WalkOK, Ahead
<1>5. SignalWalkOK'
  BY <1>1 DEF IInv, Sound, SignalWalkOK
<1> QED
  BY <1>2, <1>4, <1>5 DEF Sound

LEMMA SoundStep == IInv /\ [Next]_vars /\ ~SignalRunsRemove => Sound'
<1> SUFFICES ASSUME IInv, [Next]_vars, ~SignalRunsRemove PROVE Sound'
  OBVIOUS
<1>0. Sound /\ TypeOK
  BY DEF IInv
<1>1. CASE Walks
  BY <1>1, SoundWalks, SoundVisits, SoundGoOn DEF Walks
<1>2. CASE Calls
  <2>1. ASSUME NEW n \in Nodes, Restart(n) PROVE Sound'
    BY <1>0, <2>1, SoundKept DEF Restart, control
  <2>2. ASSUME NEW s \in Signals, Raise(s) \/ TakeSignal(s) PROVE Sound'
    BY <1>0, <2>2, SoundKept DEF Raise, TakeSignal, threads, control, history
  <2> QED
    BY <1>2, <2>1, <2>2, SoundCreate, SoundKill DEF Calls
<1>3. CASE Returns
  <2>1. CASE WaitOn
    BY <1>0, <2>1, SoundReturn DEF WaitOn
  <2>2. CASE Yield \/ Wait \/ StartOver
    BY <1>0, <2>2, SoundReturn DEF Yield, Wait, StartOver, Return
  <2>3. ASSUME NEW d \in Delays, WaitTimeout(d) \/ Sleep(d) PROVE Sound'
    BY <1>0, <2>3, SoundReturn DEF WaitTimeout, Sleep, Return
  <2>4. ASSUME NEW s \in Signals, WaitSignal(s) PROVE Sound'
    BY <1>0, <2>4, SoundReturn DEF WaitSignal, Return
  <2> QED
    BY <1>3, <2>1, <2>2, <2>3, <2>4, SoundEnd DEF Returns
<1>4. CASE Tick
  BY <1>0, <1>4, SoundKept DEF Tick, threads, control
<1>5. ASSUME NEW s \in Signals, Interrupt(s) PROVE Sound'
  BY <1>0, <1>5, SoundKept DEF Interrupt, threads, control, history
<1>6. CASE UNCHANGED vars
  BY <1>0, <1>6, SoundKept DEF vars, threads, control, history
<1> QED
  BY <1>1, <1>2, <1>3, <1>4, <1>5, <1>6 DEF Next

-----------------------------------------------------------------------------
(* Every step keeps the types.                                             *)

LEMMA ClockRange == \A t \in Int : t % ClockMod \in 0 .. ClockMod - 1
  BY ClockAssumption

LEMMA FlagsSet ==
  ASSUME flags \in [Nodes -> SUBSET Flags], NEW n, NEW f \in SUBSET Flags
  PROVE  [flags EXCEPT ![n] = f] \in [Nodes -> SUBSET Flags]
  OBVIOUS

LEMMA CursorType == IInv /\ at \in {"enter", "body"} => Cursor \in live /\ Cursor \in Nodes
<1> SUFFICES ASSUME IInv, at \in {"enter", "body"} PROVE Cursor \in live /\ Cursor \in Nodes
  OBVIOUS
<1>1. PICK p : WalkOK(p)
  BY DEF IInv, Sound
<1>2. Cursor \in live
  BY <1>1 DEF IInv, TypeOK, Sound, SignalWalkOK, WalkOK, Cursor
<1> QED
  BY <1>2 DEF IInv, TypeOK

LEMMA TypeWalks ==
  ASSUME IInv, Sound', Walks
  PROVE  TypeOK'
<1> USE DEF IInv, TypeOK
<1>0. list' \in Lists /\ live' \subseteq Nodes
  BY DEF Sound, Ordered
<1>1. CASE StartPass
  BY <1>0, <1>1 DEF StartPass, threads, Lists
<1>2. CASE EndPass
  BY <1>0, <1>2 DEF EndPass, history
<1>3. CASE VisitAlarm \/ VisitReady
  <2>1. PICK cleared : flags' = [flags EXCEPT ![ln] = @ \ cleared]
    BY <1>3 DEF VisitAlarm, VisitReady, Enter
  <2>2. flags' \in [Nodes -> SUBSET Flags]
    BY <2>1
  <2> QED
    BY <1>0, <1>3, <2>2 DEF VisitAlarm, VisitReady, Enter
<1>4. CASE VisitIdle
  BY <1>0, <1>4 DEF VisitIdle, threads
<1>5. CASE VisitSignalled
  <2>1. CASE "SIGNAL" \in flags[sig]
    <3>1. flags' = [flags EXCEPT ![sig] = @ \ {"WAITING", "YIELDED"}]
      BY <1>5, <2>1 DEF VisitSignalled, Enter
    <3>2. flags' \in [Nodes -> SUBSET Flags]
      BY <3>1
    <3> QED
      BY <1>0, <1>5, <2>1, <3>2 DEF VisitSignalled, Enter
  <2>2. CASE "SIGNAL" \notin flags[sig]
    BY <1>0, <1>5, <2>2 DEF VisitSignalled
  <2> QED
    BY <2>1, <2>2
<1>6. CASE SignalsDone
  BY <1>0, <1>6 DEF SignalsDone, threads, history
<1>7. CASE Advance
  <2>1. ln' \in Links /\ sig' \in Links
    <3>1. PICK p : Ordered(list, live, p) /\ WalkOK(p)
      BY DEF Sound
    <3>2. CASE ctx = "main"
      BY <1>7, <3>1, <3>2 DEF Advance, NextOf, WalkOK, Ahead, Lists, Links
    <3>3. CASE ctx = "signals"
      <4>1. sig \in Nodes
        BY <1>7, <3>3 DEF Advance, Sound, SignalWalkOK
      <4> QED
        BY <1>7, <3>3, <4>1 DEF Advance, NextOf, Lists
    <3> QED
      BY <3>2, <3>3
  <2>2. ctx' \in {"main", "signals"}
    BY <1>7 DEF Advance
  <2> QED
    BY <1>0, <1>7, <2>1, <2>2 DEF Advance, threads, history
<1>8. CASE GoOn
  <2>1. Cursor \in Nodes
    BY <1>8, CursorType DEF GoOn
  <2>2. flags' \in [Nodes -> SUBSET Flags] /\ alarm' \in [Nodes -> 0 .. ClockMod - 1]
        /\ signals' \subseteq Signals
    BY <1>8, <2>1, ClockAssumption DEF GoOn, Active, Signalled
  <2> QED
    BY <1>0, <1>8, <2>2 DEF GoOn, history
<1> QED
  BY <1>1, <1>2, <1>3, <1>4, <1>5, <1>6, <1>7, <1>8 DEF Walks

LEMMA TypeCalls ==
  ASSUME IInv, Sound', Calls
  PROVE  TypeOK'
<1> USE DEF IInv, TypeOK
<1>0. list' \in Lists /\ live' \subseteq Nodes
  BY DEF Sound, Ordered
<1>1. ASSUME NEW n \in Nodes, Create(n) PROVE TypeOK'
  <2>1. /\ flags' = [flags EXCEPT ![n] = {"YIELDED"}]
        /\ alarm' = [alarm EXCEPT ![n] = 0]
        /\ resume' = [resume EXCEPT ![n] = "start"]
        /\ spawned' = spawned + 1
        /\ UNCHANGED <<signals, clock, control, age, lag, due>>
    BY <1>1 DEF Create
  <2>2. flags' \in [Nodes -> SUBSET Flags] /\ alarm' \in [Nodes -> 0 .. ClockMod - 1]
        /\ resume' \in [Nodes -> Points \cup Signals]
    BY <2>1, ClockAssumption DEF Flags, Points
  <2> QED
    BY <1>0, <2>1, <2>2 DEF control
<1>2. ASSUME NEW n \in Nodes, Kill(n) PROVE TypeOK'
  <2>1. /\ flags' = [flags EXCEPT ![n] = {}]
        /\ alarm' = [alarm EXCEPT ![n] = 0] /\ age' = [age EXCEPT ![n] = 0]
        /\ resume' = [resume EXCEPT ![n] = "start"]
        /\ due' = due \ {n}
        /\ UNCHANGED <<signals, clock, control, lag, spawned>>
    BY <1>2 DEF Kill, Unlink
  <2>2. flags' \in [Nodes -> SUBSET Flags] /\ alarm' \in [Nodes -> 0 .. ClockMod - 1]
        /\ resume' \in [Nodes -> Points \cup Signals] /\ age' \in [Nodes -> Int]
    BY <2>1, ClockAssumption DEF Points
  <2> QED
    BY <1>0, <2>1, <2>2 DEF control
<1>3. ASSUME NEW n \in Nodes, Restart(n) PROVE TypeOK'
  <2>1. /\ flags' = [flags EXCEPT ![n] = {"YIELDED"}]
        /\ resume' = [resume EXCEPT ![n] = "start"]
        /\ age' = [age EXCEPT ![n] = 0]
        /\ UNCHANGED <<alarm, signals, clock, control, lag, due, spawned>>
    BY <1>3 DEF Restart
  <2>2. flags' \in [Nodes -> SUBSET Flags]
        /\ resume' \in [Nodes -> Points \cup Signals] /\ age' \in [Nodes -> Int]
    BY <2>1 DEF Flags, Points
  <2> QED
    BY <1>0, <2>1, <2>2 DEF control
<1>4. ASSUME NEW s \in Signals, Raise(s) PROVE TypeOK'
  BY <1>0, <1>4 DEF Raise, threads, control, history
<1>5. ASSUME NEW s \in Signals, TakeSignal(s) PROVE TypeOK'
  <2>1. Cursor \in Nodes
    BY <1>5, CursorType DEF TakeSignal
  <2>2. flags' \in [Nodes -> SUBSET Flags] /\ alarm' \in [Nodes -> 0 .. ClockMod - 1]
        /\ signals' \subseteq Signals
    BY <1>5, <2>1, ClockAssumption DEF TakeSignal, Signalled
  <2> QED
    BY <1>0, <1>5, <2>2 DEF TakeSignal, control, history
<1> QED
  BY <1>1, <1>2, <1>3, <1>4, <1>5 DEF Calls

(* A return adds flags, sets where the thread resumes, and may set its     *)
(* alarm and the age of that.                                              *)
LEMMA TypeReturn ==
  ASSUME IInv, Sound', NEW fl \in SUBSET Flags, NEW point \in Points \cup Signals,
         at \in {"enter", "body"}, at' = "next",
         flags' = [flags EXCEPT ![Cursor] = @ \cup fl],
         resume' = [resume EXCEPT ![Cursor] = point],
         NEW t \in 0 .. ClockMod - 1, alarm' = alarm \/ alarm' = [alarm EXCEPT ![Cursor] = t],
         NEW g \in Int, age' = age \/ age' = [age EXCEPT ![Cursor] = g],
         runCause' = {},
         UNCHANGED <<signals, clock, ln, sig, ctx, lag, due, spawned>>
  PROVE  TypeOK'
<1> USE DEF IInv, TypeOK
<1>0. list' \in Lists /\ live' \subseteq Nodes
  BY DEF Sound, Ordered
<1>1. flags' \in [Nodes -> SUBSET Flags] /\ resume' \in [Nodes -> Points \cup Signals]
  OBVIOUS
<1>2. alarm' \in [Nodes -> 0 .. ClockMod - 1]
  OBVIOUS
<1>3. age' \in [Nodes -> Int]
  OBVIOUS
<1> QED
  BY <1>0, <1>1, <1>2, <1>3

LEMMA TypeReturns ==
  ASSUME IInv, Sound', Returns
  PROVE  TypeOK'
<1> USE DEF IInv
<1>0. /\ flags \in [Nodes -> SUBSET Flags] /\ alarm \in [Nodes -> 0 .. ClockMod - 1]
      /\ resume \in [Nodes -> Points \cup Signals] /\ age \in [Nodes -> Int]
      /\ clock \in Int /\ 0 \in 0 .. ClockMod - 1
  BY ClockAssumption DEF TypeOK
<1>1. CASE WaitOn
  <2>1. /\ Cursor \in Nodes /\ at = "enter" /\ at' = "next"
        /\ flags' = [flags EXCEPT ![Cursor] = @ \cup {"WAITING"}]
        /\ resume' = resume /\ alarm' = alarm /\ runCause' = {}
        /\ age' = [age EXCEPT ![Cursor] = IF "ALARM" \in flags[Cursor] THEN @ ELSE 0]
        /\ UNCHANGED <<signals, clock, ln, sig, ctx, lag, due, spawned>>
    BY <1>1, CursorType DEF WaitOn, Waiting, NoCause, AlarmOver
  <2>2. resume' = [resume EXCEPT ![Cursor] = resume[Cursor]] /\ resume[Cursor] \in Points \cup Signals
    BY <1>0, <2>1
  <2>3. (IF "ALARM" \in flags[Cursor] THEN age[Cursor] ELSE 0) \in Int
    BY <1>0, <2>1
  <2>4. {"WAITING"} \in SUBSET Flags
    BY DEF Flags
  <2> QED
    BY <1>0, <2>1, <2>2, <2>3, <2>4, TypeReturn
<1>2. ASSUME NEW fl \in SUBSET Flags, NEW point \in Points \cup Signals,
             Return(fl, point), UNCHANGED <<alarm, signals>>, AlarmOver
      PROVE  TypeOK'
  <2>1. /\ Cursor \in Nodes /\ at = "body" /\ at' = "next"
        /\ flags' = [flags EXCEPT ![Cursor] = @ \cup fl]
        /\ resume' = [resume EXCEPT ![Cursor] = point] /\ runCause' = {}
        /\ age' = [age EXCEPT ![Cursor] = IF "ALARM" \in flags[Cursor] THEN @ ELSE 0]
        /\ UNCHANGED <<clock, ln, sig, ctx, lag, due, spawned>>
    BY <1>2, CursorType DEF Return, NoCause, AlarmOver
  <2>2. (IF "ALARM" \in flags[Cursor] THEN age[Cursor] ELSE 0) \in Int
    BY <1>0, <2>1
  <2> QED
    BY <1>0, <1>2, <2>1, <2>2, TypeReturn
<1>3. ASSUME NEW fl \in SUBSET Flags, NEW point \in Points \cup Signals, NEW d \in Delays,
             Return(fl, point), UNCHANGED signals, SetAlarm(d)
      PROVE  TypeOK'
  <2>1. /\ Cursor \in Nodes /\ at = "body" /\ at' = "next"
        /\ flags' = [flags EXCEPT ![Cursor] = @ \cup fl]
        /\ resume' = [resume EXCEPT ![Cursor] = point] /\ runCause' = {}
        /\ alarm' = [alarm EXCEPT ![Cursor] = DueAt(d)]
        /\ age' = [age EXCEPT ![Cursor] = -d]
        /\ UNCHANGED <<clock, ln, sig, ctx, lag, due, spawned>>
    BY <1>3, CursorType DEF Return, NoCause, SetAlarm
  <2>2. d \in Int /\ -d \in Int /\ clock + d \in Int
    BY <1>0, ClockAssumption
  <2>3. DueAt(d) \in 0 .. ClockMod - 1
    BY <2>2, ClockRange DEF DueAt
  <2> QED
    BY <1>3, <2>1, <2>2, <2>3, TypeReturn
<1>4. CASE Yield \/ Wait \/ StartOver
  BY <1>2, <1>4 DEF Yield, Wait, StartOver, Flags, Points
<1>5. ASSUME NEW d \in Delays, WaitTimeout(d) \/ Sleep(d) PROVE TypeOK'
  BY <1>3, <1>5 DEF WaitTimeout, Sleep, Flags, Points
<1>6. ASSUME NEW s \in Signals, WaitSignal(s) PROVE TypeOK'
  BY <1>2, <1>6 DEF WaitSignal, Flags
<1>7. CASE End
  <2>1. /\ Cursor \in Nodes
        /\ flags' = [flags EXCEPT ![Cursor] = {}]
        /\ alarm' = [alarm EXCEPT ![Cursor] = 0] /\ age' = [age EXCEPT ![Cursor] = 0]
        /\ resume' = [resume EXCEPT ![Cursor] = "start"]
        /\ runCause' = {} /\ at' = "next"
        /\ UNCHANGED <<signals, clock, ln, sig, ctx, lag, due, spawned>>
    BY <1>7, CursorType DEF End, Unlink, NoCause
  <2>2. flags' \in [Nodes -> SUBSET Flags] /\ alarm' \in [Nodes -> 0 .. ClockMod - 1]
        /\ resume' \in [Nodes -> Points \cup Signals] /\ age' \in [Nodes -> Int]
    BY <1>0, <2>1 DEF Points
  <2>3. list' \in Lists /\ live' \subseteq Nodes
    BY DEF Sound, Ordered
  <2> QED
    BY <2>1, <2>2, <2>3 DEF TypeOK
<1> QED
  BY <1>1, <1>4, <1>5, <1>6, <1>7 DEF Returns

LEMMA TypeStep == IInv /\ [Next]_vars /\ Sound' => TypeOK'
<1> SUFFICES ASSUME IInv, [Next]_vars, Sound' PROVE TypeOK'
  OBVIOUS
<1> USE DEF IInv, TypeOK
<1>1. CASE Tick
  <2>1. (clock + 1) % ClockMod \in 0 .. ClockMod - 1
    BY ClockRange
  <2>2. age' \in [Nodes -> Int]
    BY <1>1 DEF Tick
  <2> QED
    BY <1>1, <2>1, <2>2 DEF Tick, threads, control
<1>2. ASSUME NEW s \in Signals, Interrupt(s) PROVE TypeOK'
  BY <1>2 DEF Interrupt, threads, control, history
<1>3. CASE UNCHANGED vars
  BY <1>3 DEF vars, threads, control, history
<1> QED
  BY <1>1, <1>2, <1>3, TypeWalks, TypeCalls, TypeReturns DEF Next

-----------------------------------------------------------------------------
(* Nobody is stranded.  The thread that runs has no flag of its own; every *)
(* way to return gives it one.                                             *)

Awake(n) == Ready(n) \/ "ALARM" \in flags[n]
Running(n) == at \in {"enter", "body"} /\ n = Cursor

LEMMA StrandedKept ==
  ASSUME NoneStranded, UNCHANGED <<live, flags>>,
         \A n \in live : Running(n) => Running(n)'
  PROVE  NoneStranded'
  BY DEF NoneStranded, Running, Ready

(* Flags may change for the one thread that runs after the step.           *)
LEMMA StrandedOne ==
  ASSUME TypeOK, NoneStranded, NEW c \in Nodes, NEW f,
         flags' = [flags EXCEPT ![c] = f], live' = live,
         \A n \in live : Running(n) => n = c,
         (at' \in {"enter", "body"} /\ c = Cursor') \/ f \cap {"WAITING", "YIELDED", "ALARM"} # {}
  PROVE  NoneStranded'
<1> SUFFICES ASSUME NEW n \in live' PROVE (Running(n) \/ Awake(n))'
  BY DEF NoneStranded, Running, Awake
<1>1. n \in Nodes /\ n \in live
  BY DEF TypeOK
<1>2. CASE n = c
  BY <1>1, <1>2 DEF Running, Awake, Ready, TypeOK
<1>3. CASE n # c
  <2>1. flags'[n] = flags[n] /\ ~Running(n)
    BY <1>1, <1>3 DEF TypeOK
  <2>2. Awake(n)
    BY <1>1, <2>1 DEF NoneStranded, Running, Awake
  <2> QED
    BY <2>1, <2>2 DEF Awake, Ready
<1> QED
  BY <1>2, <1>3

(* A thread that returns is given a flag.                                  *)
LEMMA StrandedReturn ==
  ASSUME TypeOK, NoneStranded, at \in {"enter", "body"}, Cursor \in Nodes, NEW fl,
         flags' = [flags EXCEPT ![Cursor] = @ \cup fl], live' = live,
         "WAITING" \in fl \/ "YIELDED" \in fl \/ "ALARM" \in fl
  PROVE  NoneStranded'
<1>1. PICK g : g = flags[Cursor] \cup fl
  OBVIOUS
<1>2. g \cap {"WAITING", "YIELDED", "ALARM"} # {}
  BY <1>1
<1> QED
  BY <1>1, <1>2, StrandedOne DEF Running

LEMMA StrandedStep == IInv /\ NoneStranded /\ [Next]_vars => NoneStranded'
<1> SUFFICES ASSUME IInv, NoneStranded, [Next]_vars PROVE NoneStranded'
  OBVIOUS
<1>0. TypeOK
  BY DEF IInv
<1>1. CASE StartPass \/ EndPass \/ SignalsDone \/ Advance
  <2>1. UNCHANGED <<live, flags>> /\ at \in {"pass", "visit", "next"}
    BY <1>1 DEF StartPass, EndPass, SignalsDone, Advance, threads
  <2> QED
    BY <2>1, StrandedKept DEF Running
<1>2. CASE VisitIdle
  <2>1. UNCHANGED <<live, flags>> /\ at = "visit"
    BY <1>2 DEF VisitIdle, threads
  <2> QED
    BY <2>1, StrandedKept DEF Running
<1>3. CASE VisitAlarm \/ VisitReady
  <2>1. PICK cleared : flags' = [flags EXCEPT ![ln] = @ \ cleared]
    BY <1>3 DEF VisitAlarm, VisitReady, Enter
  <2>2. ln \in Nodes /\ live' = live /\ at = "visit" /\ at' = "enter" /\ ln = Cursor'
    BY <1>0, <1>3 DEF VisitAlarm, VisitReady, Enter, Cursor, TypeOK, Links
  <2> QED
    BY <1>0, <2>1, <2>2, StrandedOne DEF Running
<1>4. CASE VisitSignalled
  <2>1. CASE "SIGNAL" \in flags[sig]
    <3>1. flags' = [flags EXCEPT ![sig] = @ \ {"WAITING", "YIELDED"}]
      BY <1>4, <2>1 DEF VisitSignalled, Enter
    <3>2. sig \in Nodes /\ live' = live /\ at = "visit" /\ at' = "enter" /\ sig = Cursor'
      BY <1>0, <1>4, <2>1 DEF VisitSignalled, Enter, Cursor, TypeOK, Links
    <3> QED
      BY <1>0, <3>1, <3>2, StrandedOne DEF Running
  <2>2. CASE "SIGNAL" \notin flags[sig]
    <3>1. UNCHANGED <<live, flags>> /\ at = "visit"
      BY <1>4, <2>2 DEF VisitSignalled
    <3> QED
      BY <3>1, StrandedKept DEF Running
  <2> QED
    BY <2>1, <2>2
<1>5. CASE GoOn
  <2>1. /\ live' = live /\ Cursor \in Nodes /\ Cursor' = Cursor
        /\ at = "enter" /\ at' = "body"
    BY <1>5, CursorType DEF GoOn, Cursor
  <2>2. CASE flags' = flags
    BY <2>1, <2>2, StrandedKept DEF Running
  <2>3. ASSUME NEW f, flags' = [flags EXCEPT ![Cursor] = f] PROVE NoneStranded'
    BY <1>0, <2>1, <2>3, StrandedOne DEF Running
  <2> QED
    BY <1>5, <2>2, <2>3 DEF GoOn, Active, Signalled
<1>6. ASSUME NEW n \in Nodes, Create(n) PROVE NoneStranded'
  <2>1. /\ live' = live \cup {n} /\ flags' = [flags EXCEPT ![n] = {"YIELDED"}]
        /\ at' = at /\ Cursor' = Cursor
    BY <1>6 DEF Create, control, Cursor
  <2> QED
    BY <1>0, <2>1 DEF NoneStranded, Ready, TypeOK
<1>7. ASSUME NEW n \in Nodes, Kill(n) PROVE NoneStranded'
  <2>1. /\ live' = live \ {n} /\ flags' = [flags EXCEPT ![n] = {}]
        /\ at' = at /\ Cursor' = Cursor
    BY <1>7 DEF Kill, Unlink, control, Cursor
  <2> QED
    BY <1>0, <2>1 DEF NoneStranded, Ready, TypeOK
<1>8. ASSUME NEW n \in Nodes, Restart(n) PROVE NoneStranded'
  <2>1. /\ live' = live /\ flags' = [flags EXCEPT ![n] = {"YIELDED"}]
        /\ at' = at /\ Cursor' = Cursor
    BY <1>8 DEF Restart, control, Cursor
  <2> QED
    BY <1>0, <2>1 DEF NoneStranded, Ready, TypeOK
<1>9. ASSUME NEW s \in Signals, Raise(s) PROVE NoneStranded'
  BY <1>9, StrandedKept DEF Raise, threads, control, Running, Cursor
<1>10. ASSUME NEW s \in Signals, TakeSignal(s) PROVE NoneStranded'
  <2>1. /\ flags' = [flags EXCEPT ![Cursor] = @ \ {"ALARM", "SIGNAL"}]
        /\ live' = live /\ at = "body" /\ at' = at /\ Cursor' = Cursor
    BY <1>10 DEF TakeSignal, Signalled, control, Cursor
  <2> QED
    BY <1>0, <2>1 DEF NoneStranded, Ready, TypeOK
<1>12. CASE Returns
  <2>0. Cursor \in Nodes /\ at \in {"enter", "body"}
    BY <1>12, CursorType DEF Returns, WaitOn, Yield, Wait, StartOver, End, WaitTimeout, Sleep,
                             WaitSignal, Return
  <2>1. CASE WaitOn
    BY <1>0, <2>0, <2>1, StrandedReturn DEF WaitOn, Waiting
  <2>2. ASSUME NEW fl, NEW point, Return(fl, point),
               "WAITING" \in fl \/ "YIELDED" \in fl \/ "ALARM" \in fl
        PROVE  NoneStranded'
    BY <1>0, <2>0, <2>2, StrandedReturn DEF Return
  <2>3. CASE Yield \/ Wait \/ StartOver
    BY <2>2, <2>3 DEF Yield, Wait, StartOver
  <2>4. ASSUME NEW d \in Delays, WaitTimeout(d) \/ Sleep(d) PROVE NoneStranded'
    BY <2>2, <2>4 DEF WaitTimeout, Sleep
  <2>5. ASSUME NEW s \in Signals, WaitSignal(s) PROVE NoneStranded'
    BY <2>2, <2>5 DEF WaitSignal
  <2>6. CASE End
    <3>1. live' = live \ {Cursor} /\ flags' = [flags EXCEPT ![Cursor] = {}]
      BY <2>6 DEF End, Unlink
    <3> QED
      BY <1>0, <3>1 DEF NoneStranded, Ready, TypeOK
  <2> QED
    BY <1>12, <2>1, <2>3, <2>4, <2>5, <2>6 DEF Returns
<1>13. CASE Tick
  BY <1>13, StrandedKept DEF Tick, threads, control, Running, Cursor
<1>14. ASSUME NEW s \in Signals, Interrupt(s) PROVE NoneStranded'
  BY <1>14, StrandedKept DEF Interrupt, threads, control, Running, Cursor
<1>15. CASE UNCHANGED vars
  BY <1>15, StrandedKept DEF vars, threads, control, Running, Cursor
<1> QED
  BY <1>1, <1>2, <1>3, <1>4, <1>5, <1>6, <1>7, <1>8, <1>9, <1>10, <1>12, <1>13, <1>14, <1>15
     DEF Next, Walks, Calls

-----------------------------------------------------------------------------
(* The theorems.  All assume that no thread run for a signal ends or kills:*)
(* without that the walk of thread_start can be left on a freed thread.    *)

(* The inductive invariant: whatever the threads, the interrupts and the   *)
(* clock do, the list is in order and both walks over it are sound.        *)
THEOREM Invariance ==
  ASSUME ~SignalRunsRemove
  PROVE  Spec => []IInv
<1>1. Init => IInv
  BY InitInv
<1>2. IInv /\ [Next]_vars => IInv'
  BY SoundStep, TypeStep DEF IInv
<1> QED
  BY <1>1, <1>2, PTL DEF Spec

(* Every variable keeps its type: alarms and clock stay in the range of    *)
(* the wrapping counter, cursors and links are handles or none.            *)
THEOREM TypeCorrect ==
  ASSUME ~SignalRunsRemove
  PROVE  Spec => []TypeOK
<1>1. IInv => TypeOK
  BY DEF IInv
<1> QED
  BY <1>1, Invariance, PTL

(* thread_start and process_signalled_threads never read, run or return to *)
(* a thread that has been freed, though both hold a handle while threads   *)
(* are created and removed around them.                                    *)
THEOREM CursorLiveHolds ==
  ASSUME ~SignalRunsRemove
  PROVE  Spec => []CursorLive
<1>1. IInv => CursorLive
  <2> SUFFICES ASSUME IInv PROVE CursorLive
    OBVIOUS
  <2>1. PICK p : WalkOK(p)
    BY DEF IInv, Sound
  <2>2. at = "visit" => Cursor \in live \cup {None}
    BY <2>1 DEF IInv, TypeOK, Sound, SignalWalkOK, WalkOK, Ahead, Cursor
  <2>3. at \in {"enter", "body"} => Cursor \in live
    BY CursorType
  <2>4. ctx = "signals" => ln \in live \cup {None}
    BY <2>1 DEF WalkOK, Ahead
  <2> QED
    BY <2>2, <2>3, <2>4 DEF CursorLive
<1> QED
  BY <1>1, Invariance, PTL

(* A pass of thread_start passes over no thread that was there when it     *)
(* began, whatever is created, killed and ended meanwhile.                 *)
THEOREM NoneSkippedHolds ==
  ASSUME ~SignalRunsRemove
  PROVE  Spec => []NoneSkipped
<1>1. IInv => NoneSkipped
  BY DEF IInv, Sound, WalkOK, Ahead, NoneSkipped
<1> QED
  BY <1>1, Invariance, PTL

(* However a thread returns, run_thread leaves it with a flag that will    *)
(* have it run again, or takes it off the list.                            *)
THEOREM NoneStrandedHolds ==
  ASSUME ~SignalRunsRemove
  PROVE  Spec => []NoneStranded
<1>1. Init => NoneStranded
  BY ThreadsAssumption DEF Init, NoneStranded, Ready
<1>2. IInv /\ NoneStranded /\ [Next]_vars => NoneStranded'
  BY StrandedStep
<1> QED
  BY <1>1, <1>2, Invariance, PTL DEF Spec

-----------------------------------------------------------------------------
(* Alarms.                                                                 *)

(* The thread that runs, one that has not begun and one that waits for a   *)
(* signal have no alarm.                                                   *)
Waits ==
  /\ at = "body" => flags[Cursor] \cap {"ALARM", "SIGNAL"} = {}
  /\ \A n \in live :
       /\ resume[n] = "start" => flags[n] \cap {"ALARM", "SIGNAL"} = {}
       /\ "SIGNAL" \in flags[n] => resume[n] \in Signals /\ "ALARM" \notin flags[n]

(* How long an alarm may have been due, and what its time is.              *)
Grace(n) == IF n \in due THEN PassTime ELSE 0
Bounded(n) == -age[n] < Half /\ age[n] <= lag + Grace(n)
OnTime(n)  == alarm[n] - clock + age[n] \in {0, ClockMod, -ClockMod}
Timed == \A n \in live : "ALARM" \in flags[n] => Bounded(n) /\ OnTime(n)

Quiet ==
  /\ lag <= PassTime
  /\ at = "pass" => due = {}
  /\ at \notin {"enter", "body"} => runCause = {}

TInv == IInv /\ Waits /\ Timed /\ Quiet /\ CauseTrue

-----------------------------------------------------------------------------
(* The arithmetic of the clock.                                            *)

LEMMA ModOf ==
  /\ \A x \in Int : 0 <= x /\ x < ClockMod => x % ClockMod = x
  /\ \A x \in Int : -ClockMod <= x /\ x < 0 => x % ClockMod = x + ClockMod
  /\ \A x \in Int : ClockMod <= x /\ x < 2 * ClockMod => x % ClockMod = x - ClockMod
<1>1. ClockMod \in Nat /\ ClockMod > 0
  BY ClockAssumption
<1>2. \A x \in Int : 0 <= x /\ x < ClockMod => x % ClockMod = x
  BY <1>1
<1>3. \A x \in Int : -ClockMod <= x /\ x < 0 => x % ClockMod = x + ClockMod
  BY <1>1
<1>4. \A x \in Int : ClockMod <= x /\ x < 2 * ClockMod => x % ClockMod = x - ClockMod
  BY <1>1
<1> QED
  BY <1>2, <1>3, <1>4

LEMMA HalfOf == Half \in Nat /\ 2 * Half <= ClockMod /\ ClockMod <= 2 * Half + 1
  BY ClockAssumption DEF Half

(* The sign of the wrapped difference, for an alarm that is not too far    *)
(* from the clock on either side.                                          *)
LEMMA SignRight ==
  ASSUME NEW a \in 0 .. ClockMod - 1, NEW c \in 0 .. ClockMod - 1, NEW g \in Int,
         a - c + g \in {0, ClockMod, -ClockMod}, -g < Half, g <= 2 * PassTime
  PROVE  (a - c) % ClockMod >= Half <=> g > 0
<1>1. ClockMod \in Nat /\ PassTime \in Nat /\ 2 * PassTime <= Half
  BY ClockAssumption
<1>2. a - c \in Int /\ -ClockMod <= a - c /\ a - c < ClockMod
  BY <1>1
<1>3. CASE a - c >= 0
  <2>1. (a - c) % ClockMod = a - c
    BY <1>2, <1>3, ModOf
  <2>2. a - c = -g \/ a - c = ClockMod - g \/ a - c = -ClockMod - g
    BY <1>1
  <2> HIDE DEF Half
  <2> QED
    BY <1>1, <1>2, <1>3, <2>1, <2>2, HalfOf
<1>4. CASE a - c < 0
  <2>1. (a - c) % ClockMod = a - c + ClockMod
    BY <1>2, <1>4, ModOf
  <2>2. a - c = -g \/ a - c = ClockMod - g \/ a - c = -ClockMod - g
    BY <1>1
  <2> QED
    BY <1>1, <1>2, <1>4, <2>1, <2>2, HalfOf
<1> QED
  BY <1>2, <1>3, <1>4

LEMMA PastRight ==
  ASSUME TInv
  PROVE  AlarmExact
<1> SUFFICES ASSUME NEW n \in live, "ALARM" \in flags[n]
             PROVE  Past(n) <=> age[n] > 0
  BY DEF AlarmExact
<1>1. n \in Nodes /\ alarm[n] \in 0 .. ClockMod - 1 /\ clock \in 0 .. ClockMod - 1 /\ age[n] \in Int
      /\ lag \in Nat
  BY DEF TInv, IInv, TypeOK
<1>2. Bounded(n) /\ OnTime(n) /\ lag <= PassTime
  BY DEF TInv, Timed, Quiet
<1>3. -age[n] < Half /\ age[n] <= 2 * PassTime
  BY <1>1, <1>2, ClockAssumption DEF Bounded, Grace
<1> QED
  BY <1>1, <1>2, <1>3, SignRight DEF Past, OnTime

-----------------------------------------------------------------------------
(* Who has an alarm, and who waits for a signal.                           *)

LEMMA WaitsKept ==
  ASSUME Waits, UNCHANGED <<flags, resume, live>>,
         at' = "body" => at = "body" /\ Cursor' = Cursor
  PROVE  Waits'
  BY DEF Waits

(* One thread's flags change.                                              *)
LEMMA WaitsOne ==
  ASSUME TypeOK, Waits, NEW c \in Nodes, NEW f, NEW r,
         flags' = [flags EXCEPT ![c] = f], resume' = [resume EXCEPT ![c] = r],
         live' \subseteq live \cup {c},
         r = "start" => f \cap {"ALARM", "SIGNAL"} = {},
         "SIGNAL" \in f => r \in Signals /\ "ALARM" \notin f,
         at' = "body" => \/ Cursor' = c /\ f \cap {"ALARM", "SIGNAL"} = {}
                         \/ at = "body" /\ Cursor' = Cursor /\ Cursor # c /\ Cursor \in Nodes
  PROVE  Waits'
<1>1. /\ flags'[c] = f /\ resume'[c] = r
      /\ \A n \in Nodes \ {c} : flags'[n] = flags[n] /\ resume'[n] = resume[n]
  BY DEF TypeOK
<1>2. at' = "body" => flags'[Cursor'] \cap {"ALARM", "SIGNAL"} = {}
  BY <1>1 DEF Waits
<1>3. ASSUME NEW n \in live'
      PROVE  /\ resume'[n] = "start" => flags'[n] \cap {"ALARM", "SIGNAL"} = {}
             /\ "SIGNAL" \in flags'[n] => resume'[n] \in Signals /\ "ALARM" \notin flags'[n]
  <2>1. CASE n = c
    BY <1>1, <2>1
  <2>2. CASE n # c
    <3>1. n \in live /\ n \in Nodes
      BY <2>2 DEF TypeOK
    <3> QED
      BY <1>1, <2>2, <3>1 DEF Waits
  <2> QED
    BY <2>1, <2>2
<1> QED
  BY <1>2, <1>3 DEF Waits

(* A turn takes flags away; the thread goes on where it was.               *)
LEMMA WaitsLess ==
  ASSUME TypeOK, Waits, NEW c \in live, NEW gone,
         flags' = [flags EXCEPT ![c] = @ \ gone], UNCHANGED <<resume, live>>, at' = "enter"
  PROVE  Waits'
<1>1. c \in Nodes /\ resume' = [resume EXCEPT ![c] = resume[c]]
  BY DEF TypeOK
<1>2. PICK f : f = flags[c] \ gone
  OBVIOUS
<1>3. /\ resume[c] = "start" => f \cap {"ALARM", "SIGNAL"} = {}
      /\ "SIGNAL" \in f => resume[c] \in Signals /\ "ALARM" \notin f
  BY <1>2 DEF Waits
<1> QED
  BY <1>1, <1>2, <1>3, WaitsOne

(* A return from the body gives flags to a thread that had no alarm.       *)
LEMMA WaitsReturn ==
  ASSUME IInv, Waits, NEW fl, NEW point, Return(fl, point),
         point = "start" => fl \cap {"ALARM", "SIGNAL"} = {},
         "SIGNAL" \in fl => point \in Signals /\ "ALARM" \notin fl
  PROVE  Waits'
<1>1. /\ Cursor \in Nodes /\ at = "body" /\ at' = "next" /\ live' = live
      /\ flags' = [flags EXCEPT ![Cursor] = @ \cup fl]
      /\ resume' = [resume EXCEPT ![Cursor] = point]
  BY CursorType DEF Return
<1>2. PICK f : f = flags[Cursor] \cup fl
  OBVIOUS
<1>3. flags[Cursor] \cap {"ALARM", "SIGNAL"} = {}
  BY <1>1 DEF Waits
<1> QED
  BY <1>1, <1>2, <1>3, WaitsOne DEF IInv

LEMMA WaitsStep == IInv /\ Waits /\ [Next]_vars => Waits'
<1> SUFFICES ASSUME IInv, Waits, [Next]_vars PROVE Waits'
  OBVIOUS
<1>0. TypeOK
  BY DEF IInv
<1>1. CASE StartPass \/ EndPass \/ SignalsDone \/ Advance \/ VisitIdle
  <2>1. UNCHANGED <<flags, resume, live>> /\ at' # "body"
    BY <1>1 DEF StartPass, EndPass, SignalsDone, Advance, VisitIdle, threads
  <2> QED
    BY <2>1, WaitsKept
<1>2. CASE VisitAlarm \/ VisitReady
  <2>1. PICK gone : flags' = [flags EXCEPT ![ln] = @ \ gone]
    BY <1>2 DEF VisitAlarm, VisitReady, Enter
  <2>2. ln \in live
    <3>1. PICK p : WalkOK(p)
      BY DEF IInv, Sound
    <3> QED
      BY <1>2, <3>1 DEF VisitAlarm, VisitReady, WalkOK, Ahead
  <2> QED
    BY <1>0, <1>2, <2>1, <2>2, WaitsLess DEF VisitAlarm, VisitReady, Enter
<1>3. CASE VisitSignalled
  <2>1. CASE "SIGNAL" \in flags[sig]
    <3>1. sig \in live
      BY <1>3 DEF IInv, Sound, SignalWalkOK, VisitSignalled
    <3>2. flags' = [flags EXCEPT ![sig] = @ \ {"WAITING", "YIELDED"}] /\ at' = "enter"
          /\ UNCHANGED <<resume, live>>
      BY <1>3, <2>1 DEF VisitSignalled, Enter
    <3> QED
      BY <1>0, <3>1, <3>2, WaitsLess
  <2>2. CASE "SIGNAL" \notin flags[sig]
    BY <1>3, <2>2, WaitsKept DEF VisitSignalled
  <2> QED
    BY <2>1, <2>2
<1>4. CASE GoOn
  <2>1. /\ Cursor \in Nodes /\ Cursor \in live /\ Cursor' = Cursor /\ live' = live
        /\ resume' = resume /\ resume' = [resume EXCEPT ![Cursor] = resume[Cursor]]
    BY <1>0, <1>4, CursorType DEF GoOn, Cursor, TypeOK
  <2>2. CASE resume[Cursor] = "start"
    <3>1. flags[Cursor] \cap {"ALARM", "SIGNAL"} = {} /\ flags' = flags
      BY <1>4, <2>1, <2>2 DEF Waits, GoOn
    <3> QED
      BY <2>1, <3>1 DEF Waits
  <2>3. CASE resume[Cursor] # "start"
    <3>1. PICK f : flags' = [flags EXCEPT ![Cursor] = f] /\ f \cap {"ALARM", "SIGNAL"} = {}
      <4>1. CASE resume[Cursor] \in Signals
        <5>1. flags' = [flags EXCEPT ![Cursor] = flags[Cursor] \ {"ALARM", "SIGNAL"}]
          BY <1>4, <2>3, <4>1 DEF GoOn, Signalled
        <5>2. (flags[Cursor] \ {"ALARM", "SIGNAL"}) \cap {"ALARM", "SIGNAL"} = {}
          OBVIOUS
        <5> QED
          BY <5>1, <5>2
      <4>2. CASE resume[Cursor] \notin Signals
        <5>1. "SIGNAL" \notin flags[Cursor]
          BY <2>1, <4>2 DEF Waits
        <5>2. flags' = [flags EXCEPT ![Cursor] = flags[Cursor] \ {"ALARM"}]
          BY <1>4, <2>3, <4>2 DEF GoOn, Active
        <5>3. (flags[Cursor] \ {"ALARM"}) \cap {"ALARM", "SIGNAL"} = {}
          BY <5>1
        <5> QED
          BY <5>2, <5>3
      <4> QED
        BY <4>1, <4>2
    <3>2. "SIGNAL" \notin f
      BY <3>1
    <3> QED
      BY <1>0, <2>1, <2>3, <3>1, <3>2, WaitsOne
  <2> QED
    BY <2>2, <2>3
<1>5. ASSUME NEW n \in Nodes, Create(n) \/ Kill(n) \/ Restart(n) PROVE Waits'
  <2>1. /\ at = "body" /\ at' = at /\ Cursor' = Cursor /\ Cursor \in Nodes /\ Cursor \in live
        /\ Cursor # n
    BY <1>5, CursorType DEF Create, Kill, Restart, control, Cursor
  <2>2. PICK f : flags' = [flags EXCEPT ![n] = f] /\ f \cap {"ALARM", "SIGNAL"} = {}
    <3>1. {} \cap {"ALARM", "SIGNAL"} = {} /\ {"YIELDED"} \cap {"ALARM", "SIGNAL"} = {}
      OBVIOUS
    <3> QED
      BY <1>5, <3>1 DEF Create, Kill, Unlink, Restart
  <2>3. resume' = [resume EXCEPT ![n] = "start"] /\ live' \subseteq live \cup {n}
    BY <1>5 DEF Create, Kill, Unlink, Restart
  <2>4. "SIGNAL" \notin f
    BY <2>2
  <2> QED
    BY <1>0, <2>1, <2>2, <2>3, <2>4, WaitsOne
<1>6. ASSUME NEW s \in Signals, Raise(s) PROVE Waits'
  BY <1>6, WaitsKept DEF Raise, threads, control, Cursor
<1>7. ASSUME NEW s \in Signals, TakeSignal(s) PROVE Waits'
  <2>1. /\ Cursor \in Nodes /\ at = "body" /\ at' = at /\ Cursor' = Cursor /\ live' = live
        /\ resume' = [resume EXCEPT ![Cursor] = resume[Cursor]]
    BY <1>0, <1>7, CursorType DEF TakeSignal, control, Cursor, TypeOK
  <2>2. PICK f : f = flags[Cursor] \ {"ALARM", "SIGNAL"}
    OBVIOUS
  <2>3. flags' = [flags EXCEPT ![Cursor] = f]
    BY <1>7, <2>2 DEF TakeSignal, Signalled
  <2> QED
    BY <1>0, <2>1, <2>2, <2>3, WaitsOne
<1>8. CASE WaitOn
  <2>1. /\ Cursor \in Nodes /\ Cursor \in live /\ at' = "next" /\ live' = live
        /\ flags' = [flags EXCEPT ![Cursor] = flags[Cursor] \cup {"WAITING"}]
        /\ resume' = [resume EXCEPT ![Cursor] = resume[Cursor]]
    BY <1>0, <1>8, CursorType DEF WaitOn, Waiting, TypeOK
  <2>2. PICK f : f = flags[Cursor] \cup {"WAITING"}
    OBVIOUS
  <2>3. /\ resume[Cursor] = "start" => f \cap {"ALARM", "SIGNAL"} = {}
        /\ "SIGNAL" \in f => resume[Cursor] \in Signals /\ "ALARM" \notin f
    BY <2>1, <2>2 DEF Waits
  <2> QED
    BY <1>0, <2>1, <2>2, <2>3, WaitsOne
<1>9. CASE Yield \/ Wait \/ StartOver
  BY <1>9, WaitsReturn DEF Yield, Wait, StartOver
<1>10. ASSUME NEW d \in Delays, WaitTimeout(d) \/ Sleep(d) PROVE Waits'
  BY <1>10, WaitsReturn DEF WaitTimeout, Sleep
<1>11. ASSUME NEW s \in Signals, WaitSignal(s) PROVE Waits'
  <2>1. s # "start"
    BY ThreadsAssumption DEF Points
  <2> QED
    BY <1>11, <2>1, WaitsReturn DEF WaitSignal
<1>12. CASE End
  <2>1. /\ Cursor \in Nodes /\ at' = "next" /\ live' = live \ {Cursor}
        /\ flags' = [flags EXCEPT ![Cursor] = {}] /\ resume' = [resume EXCEPT ![Cursor] = "start"]
    BY <1>12, CursorType DEF End, Unlink
  <2> QED
    BY <1>0, <2>1, WaitsOne
<1>13. CASE Tick \/ \E s \in Signals : Interrupt(s)
  BY <1>13, WaitsKept DEF Tick, Interrupt, threads, control, Cursor
<1>14. CASE UNCHANGED vars
  BY <1>14, WaitsKept DEF vars, threads, control, Cursor
<1> QED
  BY <1>1, <1>2, <1>3, <1>4, <1>5, <1>6, <1>7, <1>8, <1>9, <1>10, <1>11, <1>12, <1>13, <1>14
     DEF Next, Walks, Calls, Returns

-----------------------------------------------------------------------------
(* How long alarms have been due.                                          *)

Pending(n) == "ALARM" \in flags[n]

(* The alarms after the step were there before it.                         *)
LEMMA TimedSame ==
  ASSUME TypeOK, Timed, clock' = clock, lag' = lag,
         \A n \in live' : Pending(n)' =>
            /\ n \in live /\ Pending(n) /\ alarm'[n] = alarm[n] /\ age'[n] = age[n]
            /\ n \in due => n \in due' \/ age[n] <= 0
  PROVE  Timed'
<1> SUFFICES ASSUME NEW n \in live', Pending(n)' PROVE Bounded(n)' /\ OnTime(n)'
  BY DEF Timed, Pending
<1>1. /\ n \in live /\ Pending(n) /\ alarm'[n] = alarm[n] /\ age'[n] = age[n]
      /\ n \in due => n \in due' \/ age[n] <= 0
  OBVIOUS
<1>2. Bounded(n) /\ OnTime(n) /\ age[n] \in Int /\ lag \in Nat /\ PassTime \in Nat
  BY <1>1, ClockAssumption DEF Timed, Pending, TypeOK
<1> QED
  BY <1>1, <1>2 DEF Bounded, OnTime, Grace

(* One thread is left, or found, without an alarm.                         *)
LEMMA TimedOne ==
  ASSUME TypeOK, Timed, clock' = clock, lag' = lag, NEW c \in Nodes, NEW f, NEW a, NEW g,
         flags' = [flags EXCEPT ![c] = f], alarm' = [alarm EXCEPT ![c] = a],
         age' = [age EXCEPT ![c] = g], live' \subseteq live \cup {c},
         due \ {c} \subseteq due', "ALARM" \notin f
  PROVE  Timed'
<1> SUFFICES ASSUME NEW n \in live', Pending(n)'
             PROVE  /\ n \in live /\ Pending(n) /\ alarm'[n] = alarm[n] /\ age'[n] = age[n]
                    /\ n \in due => n \in due'
  BY TimedSame
<1>1. n \in Nodes
  BY DEF TypeOK
<1>2. n # c
  BY DEF Pending, TypeOK
<1> QED
  BY <1>1, <1>2 DEF Pending, TypeOK

(* A thread sets its alarm as it returns.                                  *)
LEMMA TimedSet ==
  ASSUME TypeOK, Timed, NEW d \in Delays, NEW c \in Nodes, c = Cursor, SetAlarm(d),
         clock' = clock, lag' = lag, live' = live, due' = due, NEW f,
         flags' = [flags EXCEPT ![c] = f]
  PROVE  Timed'
<1> SUFFICES ASSUME NEW n \in live', Pending(n)' PROVE Bounded(n)' /\ OnTime(n)'
  BY DEF Timed, Pending
<1>1. n \in Nodes /\ n \in live
  BY DEF TypeOK
<1>2. CASE n = c
  <2>1. d \in Nat /\ d < Half /\ clock \in Nat /\ clock < ClockMod /\ lag \in Nat
        /\ PassTime \in Nat /\ ClockMod \in Nat
    BY ClockAssumption DEF TypeOK
  <2>2. alarm'[n] = (clock + d) % ClockMod /\ age'[n] = -d
    BY <1>1, <1>2 DEF SetAlarm, DueAt, TypeOK
  <2>3. (clock + d) % ClockMod \in {clock + d, clock + d - ClockMod}
    <3>1. CASE clock + d < ClockMod
      BY <2>1, <3>1, ModOf
    <3>2. CASE clock + d >= ClockMod
      <4>1. clock + d \in Int /\ clock + d < 2 * ClockMod
        BY <2>1, HalfOf
      <4> QED
        BY <2>1, <3>2, <4>1, ModOf
    <3> QED
      BY <2>1, <3>1, <3>2
  <2>4. Bounded(n)'
    BY <2>1, <2>2 DEF Bounded, Grace, Half
  <2>5. CASE (clock + d) % ClockMod = clock + d
    <3>1. alarm'[n] - clock' + age'[n] = 0
      BY <2>1, <2>2, <2>5
    <3> QED
      BY <2>4, <3>1 DEF OnTime
  <2>6. CASE (clock + d) % ClockMod = clock + d - ClockMod
    <3>1. alarm'[n] - clock' + age'[n] = -ClockMod
      BY <2>1, <2>2, <2>6
    <3> QED
      BY <2>4, <3>1 DEF OnTime
  <2> QED
    BY <2>3, <2>5, <2>6
<1>3. CASE n # c
  <2>1. Pending(n) /\ alarm'[n] = alarm[n] /\ age'[n] = age[n]
    BY <1>1, <1>3 DEF Pending, SetAlarm, TypeOK
  <2> QED
    BY <1>1, <2>1 DEF Timed, Pending, Bounded, OnTime, Grace
<1> QED
  BY <1>2, <1>3

LEMMA TimedTick == TInv /\ Tick => Timed'
<1> SUFFICES ASSUME TInv, Tick, NEW n \in live', Pending(n)' PROVE Bounded(n)' /\ OnTime(n)'
  BY DEF Timed, Pending
<1>1. /\ n \in Nodes /\ n \in live /\ Pending(n) /\ alarm'[n] = alarm[n]
      /\ due' = due /\ lag' = lag + 1 /\ clock' = (clock + 1) % ClockMod
      /\ age[n] \in Int /\ lag \in Nat /\ clock \in Nat /\ clock < ClockMod
      /\ alarm[n] \in Nat /\ alarm[n] < ClockMod /\ ClockMod \in Nat /\ PassTime \in Nat
  BY ClockAssumption DEF TInv, IInv, TypeOK, Tick, threads, Pending
<1>2. age'[n] = age[n] + 1
  BY <1>1 DEF Tick, Pending, TInv, IInv, TypeOK
<1>3. Bounded(n) /\ OnTime(n) /\ lag <= PassTime
  BY <1>1 DEF TInv, Timed, Quiet, Pending
<1>4. Bounded(n)'
  BY <1>1, <1>2, <1>3, HalfOf DEF Bounded, Grace
<1>5. age[n] <= Half
  BY <1>1, <1>3, ClockAssumption, HalfOf DEF Bounded, Grace
<1>6. CASE clock + 1 < ClockMod
  <2>1. clock' = clock + 1
    BY <1>1, <1>6, ModOf
  <2>2. alarm'[n] - clock' + age'[n] = alarm[n] - clock + age[n]
    BY <1>1, <1>2, <2>1
  <2> QED
    BY <1>3, <1>4, <2>2 DEF OnTime
<1>7. CASE clock + 1 = ClockMod
  <2>1. clock' = 0
    BY <1>1, <1>7, ModOf
  <2>2. alarm'[n] - clock' + age'[n] = alarm[n] - clock + age[n] + ClockMod
    <3>1. /\ clock = ClockMod - 1 /\ clock' = 0 /\ alarm'[n] = alarm[n] /\ age'[n] = age[n] + 1
          /\ ClockMod \in Int /\ alarm[n] \in Int /\ age[n] \in Int
      BY <1>1, <1>2, <1>7, <2>1
    <3> QED
      BY <3>1
  <2>3. alarm[n] - clock + age[n] # ClockMod
    BY <1>1, <1>5, <1>7, HalfOf
  <2>4. CASE alarm[n] - clock + age[n] = 0
    <3>1. alarm'[n] - clock' + age'[n] = ClockMod
      BY <1>1, <2>2, <2>4
    <3> QED
      BY <1>4, <3>1 DEF OnTime
  <2>5. CASE alarm[n] - clock + age[n] = -ClockMod
    <3>1. alarm'[n] - clock' + age'[n] = 0
      BY <1>1, <2>2, <2>5
    <3> QED
      BY <1>4, <3>1 DEF OnTime
  <2> QED
    BY <1>3, <2>3, <2>4, <2>5 DEF OnTime
<1> QED
  BY <1>1, <1>6, <1>7

(* A return that sets no alarm: the thread that runs has none.             *)
LEMMA TimedReturn ==
  ASSUME TInv, NEW fl, NEW point, Return(fl, point), "ALARM" \notin fl, AlarmOver, alarm' = alarm
  PROVE  Timed'
<1>1. /\ Cursor \in Nodes /\ at = "body" /\ clock' = clock /\ lag' = lag /\ due' = due /\ live' = live
      /\ TypeOK /\ Timed
  BY CursorType DEF Return, TInv, IInv
<1>2. "ALARM" \notin flags[Cursor]
  BY <1>1 DEF TInv, Waits
<1>3. PICK f : f = flags[Cursor] \cup fl
  OBVIOUS
<1>4. flags' = [flags EXCEPT ![Cursor] = f] /\ "ALARM" \notin f
  BY <1>2, <1>3 DEF Return
<1>5. alarm' = [alarm EXCEPT ![Cursor] = alarm[Cursor]]
  BY <1>1 DEF TypeOK
<1>6. age' = [age EXCEPT ![Cursor] = 0]
  BY <1>2 DEF AlarmOver
<1> QED
  BY <1>1, <1>4, <1>5, <1>6, TimedOne

LEMMA TimedVisits ==
  ASSUME TInv, VisitAlarm \/ VisitReady \/ VisitIdle \/ VisitSignalled
  PROVE  Timed'
<1>0. TypeOK /\ Timed
  BY DEF TInv, IInv
<1>1. /\ clock' = clock /\ lag' = lag /\ live' = live /\ alarm' = alarm /\ age' = age /\ at = "visit"
  BY DEF VisitAlarm, VisitReady, VisitIdle, VisitSignalled, threads
<1>2. CASE VisitAlarm
  <2>1. ln \in Nodes /\ due' = due \ {ln}
    BY <1>0, <1>2 DEF VisitAlarm, Enter, TypeOK, Links
  <2>2. PICK f : f = flags[ln] \ {"ALARM", "SLEEPING", "WAITING", "YIELDED"}
    OBVIOUS
  <2>3. flags' = [flags EXCEPT ![ln] = f] /\ "ALARM" \notin f
    BY <1>2, <2>2 DEF VisitAlarm, Enter
  <2>4. alarm' = [alarm EXCEPT ![ln] = alarm[ln]] /\ age' = [age EXCEPT ![ln] = age[ln]]
    BY <1>0, <1>1, <2>1 DEF TypeOK
  <2> QED
    BY <1>0, <1>1, <2>1, <2>3, <2>4, TimedOne
<1>3. CASE VisitReady \/ VisitIdle
  <2>1. /\ ln \in live /\ ln \in Nodes /\ due' = due \ {ln}
        /\ \A n \in Nodes : Pending(n)' => Pending(n)
    <3>1. PICK p : WalkOK(p)
      BY DEF TInv, IInv, Sound
    <3>2. ln \in live
      BY <1>3, <3>1 DEF VisitReady, VisitIdle, WalkOK, Ahead
    <3>3. due' = due \ {ln}
      BY <1>3 DEF VisitReady, VisitIdle, Enter
    <3>4. flags' = flags \/ flags' = [flags EXCEPT ![ln] = @ \ {"WAITING", "YIELDED", "SLEEPING"}]
      BY <1>3 DEF VisitReady, VisitIdle, Enter, threads
    <3> QED
      BY <1>0, <3>2, <3>3, <3>4 DEF TypeOK, Pending
  <2>2. Pending(ln) => age[ln] <= 0
    <3>1. ~(Pending(ln) /\ Past(ln))
      BY <1>3 DEF VisitReady, VisitIdle, AlarmDue, Pending
    <3>2. Pending(ln) => ~(age[ln] > 0)
      BY <2>1, <3>1, PastRight DEF AlarmExact, Pending
    <3>3. age[ln] \in Int
      BY <1>0, <2>1 DEF TypeOK
    <3> QED
      BY <3>2, <3>3
  <2>3. ASSUME NEW n \in live', Pending(n)'
        PROVE  /\ n \in live /\ Pending(n) /\ alarm'[n] = alarm[n] /\ age'[n] = age[n]
               /\ n \in due => n \in due' \/ age[n] <= 0
    <3>1. n \in live /\ n \in Nodes /\ Pending(n)
      BY <1>0, <1>1, <2>1, <2>3 DEF TypeOK
    <3> QED
      BY <1>1, <2>1, <2>2, <3>1
  <2> QED
    BY <1>0, <1>1, <2>3, TimedSame
<1>4. CASE VisitSignalled
  <2>1. CASE "SIGNAL" \in flags[sig]
    <3>1. sig \in live /\ sig \in Nodes
      BY <1>0, <1>4 DEF VisitSignalled, TInv, IInv, Sound, SignalWalkOK, TypeOK, Links
    <3>2. PICK f : f = flags[sig] \ {"WAITING", "YIELDED"}
      OBVIOUS
    <3>3. flags' = [flags EXCEPT ![sig] = f] /\ due' = due \ {sig}
      BY <1>4, <2>1, <3>2 DEF VisitSignalled, Enter
    <3>4. "ALARM" \notin f
      BY <2>1, <3>1, <3>2 DEF TInv, Waits
    <3>5. alarm' = [alarm EXCEPT ![sig] = alarm[sig]] /\ age' = [age EXCEPT ![sig] = age[sig]]
      BY <1>0, <1>1, <3>1 DEF TypeOK
    <3> QED
      BY <1>0, <1>1, <3>1, <3>3, <3>4, <3>5, TimedOne
  <2>2. CASE "SIGNAL" \notin flags[sig]
    <3>1. flags' = flags /\ due' = due
      BY <1>4, <2>2 DEF VisitSignalled
    <3> QED
      BY <1>0, <1>1, <3>1, TimedSame DEF Pending
  <2> QED
    BY <2>1, <2>2
<1> QED
  BY <1>2, <1>3, <1>4

LEMMA TimedStep == TInv /\ [Next]_vars => Timed'
<1> SUFFICES ASSUME TInv, [Next]_vars PROVE Timed'
  OBVIOUS
<1>0. TypeOK /\ Timed /\ IInv
  BY DEF TInv, IInv
<1>1. CASE StartPass
  <2>1. /\ lag' = 0 /\ due' = live /\ live' = live /\ due = {}
        /\ UNCHANGED <<flags, alarm, age, clock>>
    BY <1>1 DEF StartPass, threads, TInv, Quiet
  <2> SUFFICES ASSUME NEW n \in live', Pending(n)' PROVE Bounded(n)' /\ OnTime(n)'
    BY DEF Timed, Pending
  <2>2. n \in live /\ Bounded(n) /\ OnTime(n) /\ lag <= PassTime
    BY <1>0, <2>1 DEF Timed, Pending, TInv, Quiet
  <2>3. age[n] \in Int /\ lag \in Nat /\ PassTime \in Nat
    BY <1>0, <2>2, ClockAssumption DEF TypeOK
  <2> QED
    BY <2>1, <2>2, <2>3 DEF Bounded, OnTime, Grace
<1>2. CASE EndPass \/ SignalsDone \/ Advance \/ UNCHANGED vars
  <2>1. UNCHANGED <<live, flags, alarm, clock, age, lag, due>>
    BY <1>2 DEF EndPass, SignalsDone, Advance, vars, threads, history
  <2> QED
    BY <1>0, <2>1, TimedSame DEF Pending
<1>3. CASE GoOn
  <2>1. /\ Cursor \in Nodes /\ UNCHANGED <<live, clock, age, lag, due>>
        /\ age' = [age EXCEPT ![Cursor] = age[Cursor]]
    BY <1>0, <1>3, CursorType DEF GoOn, history, TypeOK
  <2>2. CASE UNCHANGED <<flags, alarm>>
    BY <1>0, <2>1, <2>2, TimedSame DEF Pending
  <2>3. ASSUME NEW gone, "ALARM" \in gone, flags' = [flags EXCEPT ![Cursor] = @ \ gone],
               alarm' = [alarm EXCEPT ![Cursor] = 0]
        PROVE  Timed'
    <3>1. PICK f : f = flags[Cursor] \ gone
      OBVIOUS
    <3>2. "ALARM" \notin f /\ flags' = [flags EXCEPT ![Cursor] = f]
      BY <2>3, <3>1
    <3> QED
      BY <1>0, <2>1, <2>3, <3>2, TimedOne
  <2> QED
    BY <1>3, <2>2, <2>3 DEF GoOn, Active, Signalled
<1>4. ASSUME NEW n \in Nodes, Create(n) \/ Kill(n) \/ Restart(n) PROVE Timed'
  <2>1. /\ clock' = clock /\ lag' = lag /\ live' \subseteq live \cup {n} /\ due \ {n} \subseteq due'
    BY <1>4 DEF Create, Kill, Unlink, Restart
  <2>2. PICK f : flags' = [flags EXCEPT ![n] = f] /\ "ALARM" \notin f
    <3>1. "ALARM" \notin {} /\ "ALARM" \notin {"YIELDED"}
      OBVIOUS
    <3> QED
      BY <1>4, <3>1 DEF Create, Kill, Unlink, Restart
  <2>3. PICK a : alarm' = [alarm EXCEPT ![n] = a]
    <3>1. alarm = [alarm EXCEPT ![n] = alarm[n]]
      BY <1>0 DEF TypeOK
    <3> QED
      BY <1>4, <3>1 DEF Create, Kill, Unlink, Restart
  <2>4. PICK g : age' = [age EXCEPT ![n] = g]
    <3>1. age = [age EXCEPT ![n] = age[n]]
      BY <1>0 DEF TypeOK
    <3> QED
      BY <1>4, <3>1 DEF Create, Kill, Unlink, Restart
  <2> QED
    BY <1>0, <2>1, <2>2, <2>3, <2>4, TimedOne
<1>5. ASSUME NEW s \in Signals, Raise(s) \/ Interrupt(s) PROVE Timed'
  <2>1. UNCHANGED <<live, flags, alarm, clock, age, lag, due>>
    BY <1>5 DEF Raise, Interrupt, threads, history
  <2> QED
    BY <1>0, <2>1, TimedSame DEF Pending
<1>6. ASSUME NEW s \in Signals, TakeSignal(s) PROVE Timed'
  <2>1. /\ Cursor \in Nodes /\ UNCHANGED <<live, clock, age, lag, due>>
        /\ age' = [age EXCEPT ![Cursor] = age[Cursor]] /\ alarm' = [alarm EXCEPT ![Cursor] = 0]
    BY <1>0, <1>6, CursorType DEF TakeSignal, Signalled, history, TypeOK
  <2>2. PICK f : f = flags[Cursor] \ {"ALARM", "SIGNAL"}
    OBVIOUS
  <2>3. "ALARM" \notin f /\ flags' = [flags EXCEPT ![Cursor] = f]
    BY <1>6, <2>2 DEF TakeSignal, Signalled
  <2> QED
    BY <1>0, <2>1, <2>3, TimedOne
<1>7. CASE WaitOn
  <2>1. /\ Cursor \in Nodes /\ UNCHANGED <<live, alarm, clock, lag, due>>
        /\ flags' = [flags EXCEPT ![Cursor] = flags[Cursor] \cup {"WAITING"}]
        /\ age' = [age EXCEPT ![Cursor] = IF "ALARM" \in flags[Cursor] THEN @ ELSE 0]
    BY <1>0, <1>7, CursorType DEF WaitOn, Waiting, AlarmOver
  <2>2. ASSUME NEW n \in live', Pending(n)'
        PROVE  n \in live /\ Pending(n) /\ alarm'[n] = alarm[n] /\ age'[n] = age[n]
    <3>1. n \in Nodes /\ n \in live /\ Pending(n)
      BY <1>0, <2>1, <2>2 DEF TypeOK, Pending
    <3> QED
      BY <1>0, <2>1, <3>1 DEF TypeOK, Pending
  <2> QED
    BY <1>0, <2>1, <2>2, TimedSame
<1>8. CASE Yield \/ Wait \/ StartOver
  BY <1>8, TimedReturn DEF Yield, Wait, StartOver
<1>9. ASSUME NEW s \in Signals, WaitSignal(s) PROVE Timed'
  BY <1>9, TimedReturn DEF WaitSignal
<1>10. ASSUME NEW d \in Delays, WaitTimeout(d) \/ Sleep(d) PROVE Timed'
  <2>1. SetAlarm(d) /\ \E fl, point : Return(fl, point)
    BY <1>10 DEF WaitTimeout, Sleep
  <2>2. PICK fl, point : Return(fl, point)
    BY <2>1
  <2>3. PICK c : c = Cursor
    OBVIOUS
  <2>4. /\ c \in Nodes /\ UNCHANGED <<live, clock, lag, due>>
        /\ flags' = [flags EXCEPT ![c] = flags[c] \cup fl]
    BY <1>0, <2>2, <2>3, CursorType DEF Return
  <2> QED
    BY <1>0, <2>1, <2>3, <2>4, TimedSet
<1>11. CASE End
  <2>1. /\ Cursor \in Nodes /\ UNCHANGED <<clock, lag, due>> /\ live' \subseteq live
        /\ flags' = [flags EXCEPT ![Cursor] = {}] /\ alarm' = [alarm EXCEPT ![Cursor] = 0]
        /\ age' = [age EXCEPT ![Cursor] = 0]
    BY <1>0, <1>11, CursorType DEF End, Unlink
  <2> QED
    BY <1>0, <2>1, TimedOne
<1> QED
  BY <1>1, <1>2, <1>3, <1>4, <1>5, <1>6, <1>7, <1>8, <1>9, <1>10, <1>11, TimedVisits, TimedTick
     DEF Next, Walks, Calls, Returns

-----------------------------------------------------------------------------
(* What is true between turns, and what woke the thread that runs.         *)

LEMMA QuietStep == TInv /\ [Next]_vars => Quiet'
<1> SUFFICES ASSUME TInv, [Next]_vars PROVE Quiet'
  OBVIOUS
<1>0. Quiet /\ IInv /\ PassTime \in Nat
  BY ClockAssumption DEF TInv
<1>1. CASE StartPass
  BY <1>0, <1>1 DEF StartPass, Quiet
<1>2. CASE EndPass
  <2>1. due = {}
    BY <1>2 DEF TInv, IInv, Sound, WalkOK, Ahead, EndPass
  <2> QED
    BY <1>0, <1>2, <2>1 DEF EndPass, Quiet, history
<1>3. CASE SignalsDone \/ Advance \/ UNCHANGED vars
  BY <1>0, <1>3 DEF SignalsDone, Advance, vars, control, history, Quiet
<1>4. CASE VisitAlarm \/ VisitReady \/ VisitIdle \/ VisitSignalled
  BY <1>0, <1>4 DEF VisitAlarm, VisitReady, VisitIdle, VisitSignalled, Enter, Quiet
<1>5. CASE GoOn
  BY <1>0, <1>5 DEF GoOn, history, Quiet
<1>6. ASSUME NEW n \in Nodes, Create(n) \/ Kill(n) \/ Restart(n) PROVE Quiet'
  BY <1>0, <1>6 DEF Create, Kill, Restart, control, Quiet
<1>7. ASSUME NEW s \in Signals, Raise(s) \/ TakeSignal(s) \/ Interrupt(s) PROVE Quiet'
  BY <1>0, <1>7 DEF Raise, TakeSignal, Interrupt, control, history, Quiet
<1>8. CASE WaitOn
  BY <1>0, <1>8 DEF WaitOn, NoCause, Quiet
<1>9. ASSUME NEW fl, NEW point, Return(fl, point) PROVE Quiet'
  BY <1>0, <1>9 DEF Return, NoCause, Quiet
<1>10. CASE End
  BY <1>0, <1>10 DEF End, NoCause, Quiet
<1>11. CASE Tick
  <2>1. lag' <= PassTime
    BY <1>0, <1>11 DEF Tick, IInv, TypeOK
  <2> QED
    BY <1>0, <1>11, <2>1 DEF Tick, control, Quiet
<1>12. CASE Yield \/ Wait \/ StartOver
  BY <1>9, <1>12 DEF Yield, Wait, StartOver
<1>13. ASSUME NEW d \in Delays, WaitTimeout(d) \/ Sleep(d) PROVE Quiet'
  BY <1>9, <1>13 DEF WaitTimeout, Sleep
<1>14. ASSUME NEW s \in Signals, WaitSignal(s) PROVE Quiet'
  BY <1>9, <1>14 DEF WaitSignal
<1> QED
  BY <1>1, <1>2, <1>3, <1>4, <1>5, <1>6, <1>7, <1>8, <1>10, <1>11, <1>12, <1>13, <1>14
     DEF Next, Walks, Calls, Returns

LEMMA CauseKept ==
  ASSUME CauseTrue, UNCHANGED <<Cursor, runCause>>, at' \in {"enter", "body"} => at \in {"enter", "body"},
         at \in {"enter", "body"} => age'[Cursor] >= age[Cursor] /\ age[Cursor] \in Int
                                     /\ age'[Cursor] \in Int
  PROVE  CauseTrue'
  BY DEF CauseTrue

LEMMA CauseStep == TInv /\ [Next]_vars => CauseTrue'
<1> SUFFICES ASSUME TInv, [Next]_vars PROVE CauseTrue'
  OBVIOUS
<1>0. CauseTrue /\ Quiet /\ IInv /\ TypeOK
  BY DEF TInv, IInv
<1>a. at \in {"enter", "body"} => Cursor \in Nodes /\ Cursor \in live /\ age[Cursor] \in Int
  BY <1>0, CursorType DEF TypeOK
<1>1. CASE VisitAlarm
  <2>1. ln \in Nodes /\ ln \in live
    <3>1. PICK p : WalkOK(p)
      BY <1>0 DEF IInv, Sound
    <3> QED
      BY <1>0, <1>1, <3>1 DEF VisitAlarm, WalkOK, Ahead, TypeOK
  <2>2. age[ln] > 0
    BY <1>1, <2>1, PastRight DEF VisitAlarm, AlarmDue, AlarmExact
  <2>3. Cursor' = ln /\ age' = age
    BY <1>1 DEF VisitAlarm, Cursor
  <2> QED
    BY <2>2, <2>3 DEF CauseTrue
<1>2. CASE VisitReady \/ VisitSignalled
  <2>1. "ALARM" \notin runCause'
    BY <1>0, <1>2 DEF VisitReady, VisitSignalled, Enter, Quiet
  <2> QED
    BY <2>1 DEF CauseTrue
<1>3. CASE GoOn \/ UNCHANGED vars
  <2>1. UNCHANGED <<Cursor, runCause, age>> /\ (at' \in {"enter", "body"} => at \in {"enter", "body"})
    BY <1>3 DEF GoOn, vars, control, history, Cursor
  <2> QED
    BY <1>0, <2>1 DEF CauseTrue
<1>4. ASSUME NEW n \in Nodes, Create(n) \/ Kill(n) \/ Restart(n) PROVE CauseTrue'
  <2>1. /\ at = "body" /\ n # Cursor /\ UNCHANGED <<Cursor, runCause, at>>
    BY <1>4, <1>a DEF Create, Kill, Restart, control, Cursor
  <2>2. age' = age \/ age' = [age EXCEPT ![n] = 0]
    BY <1>4 DEF Create, Kill, Unlink, Restart
  <2>3. age'[Cursor] = age[Cursor]
    BY <1>0, <1>a, <2>1, <2>2 DEF TypeOK
  <2> QED
    BY <1>0, <2>1, <2>3 DEF CauseTrue
<1>5. ASSUME NEW s \in Signals, Raise(s) \/ TakeSignal(s) \/ Interrupt(s) PROVE CauseTrue'
  <2>1. UNCHANGED <<Cursor, runCause, age, at>>
    BY <1>5 DEF Raise, TakeSignal, Interrupt, control, history, Cursor
  <2> QED
    BY <1>0, <2>1 DEF CauseTrue
<1>6. CASE Tick
  <2>1. UNCHANGED <<Cursor, runCause, at>>
    BY <1>6 DEF Tick, control, Cursor
  <2>2. at \in {"enter", "body"} => age'[Cursor] >= age[Cursor] /\ age'[Cursor] \in Int
    BY <1>6, <1>a DEF Tick
  <2> QED
    BY <1>0, <1>a, <2>1, <2>2, CauseKept
<1>7. CASE at' \notin {"enter", "body"}
  BY <1>7 DEF CauseTrue
<1>8. CASE StartPass \/ EndPass \/ SignalsDone \/ Advance \/ VisitIdle \/ Returns
  <2>1. CASE StartPass \/ EndPass \/ SignalsDone \/ Advance \/ VisitIdle
    BY <2>1, <1>7 DEF StartPass, EndPass, SignalsDone, Advance, VisitIdle
  <2>2. CASE Returns
    BY <2>2, <1>7 DEF Returns, WaitOn, Yield, Wait, StartOver, End, WaitTimeout, Sleep, WaitSignal,
                      Return
  <2> QED
    BY <1>8, <2>1, <2>2
<1> QED
  BY <1>1, <1>2, <1>3, <1>4, <1>5, <1>6, <1>8 DEF Next, Walks, Calls

-----------------------------------------------------------------------------
(* The theorem.                                                            *)

LEMMA AlarmInv ==
  ASSUME ~SignalRunsRemove
  PROVE  Spec => []TInv
<1>1. Init => TInv
  <2> SUFFICES ASSUME Init PROVE TInv
    OBVIOUS
  <2>1. IInv
    BY InitInv
  <2>2. \A n \in live : flags[n] \cap {"ALARM", "SIGNAL"} = {}
    BY ThreadsAssumption DEF Init
  <2>3. Waits /\ Timed
    BY <2>2 DEF Init, Waits, Timed
  <2>4. Quiet /\ CauseTrue
    BY ClockAssumption DEF Init, Quiet, CauseTrue
  <2> QED
    BY <2>1, <2>3, <2>4 DEF TInv
<1>2. TInv /\ [Next]_vars => TInv'
  <2>1. TInv /\ [Next]_vars => IInv'
    BY SoundStep, TypeStep DEF TInv, IInv
  <2>2. TInv /\ [Next]_vars => Waits'
    BY WaitsStep DEF TInv
  <2> QED
    BY <2>1, <2>2, TimedStep, QuietStep, CauseStep DEF TInv
<1> QED
  BY <1>1, <1>2, PTL DEF Spec

(* An alarm is due exactly when its delay has elapsed, though the clock it *)
(* is compared with wraps; and a thread that asks thread_b_alarm after a   *)
(* wait with a timeout is told so only if its own time is up.              *)
THEOREM AlarmsTrueHolds ==
  ASSUME ~SignalRunsRemove
  PROVE  Spec => []AlarmsTrue
<1>1. TInv => AlarmsTrue
  BY PastRight DEF TInv, AlarmsTrue
<1> QED
  BY <1>1, AlarmInv, PTL
=============================================================================

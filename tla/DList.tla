------------------------------- MODULE DList -------------------------------
(***************************************************************************)
(* The doubly linked lists of SapphireOS (sapphireos/list.c).  A node is a *)
(* block of the memory manager, named by its handle; a list is a head and  *)
(* a tail, and the links live in the nodes.  Lists hold the threads, the   *)
(* sockets, the open files and the network messages.                       *)
(*                                                                         *)
(* A value L of type Lists stands for the list_t and for the links of      *)
(* every node, in or out of the list: removing a node leaves its own links *)
(* as they were, and callers that walk a list rely on it.                  *)
(***************************************************************************)
EXTENDS Integers, Sequences

CONSTANT Nodes      \* handles a node can have
CONSTANT None       \* any negative handle

ASSUME NoneAssumption == None \notin Nodes

Links == Nodes \cup {None}
Lists == [head: Links, tail: Links, next: [Nodes -> Links], prev: [Nodes -> Links]]

(* list_v_init, and links as they happen to be in memory.                  *)
EmptyList == [head |-> None, tail |-> None,
              next |-> [n \in Nodes |-> None], prev |-> [n \in Nodes |-> None]]

CreateNode(L, n) == [L EXCEPT !.next[n] = None, !.prev[n] = None]

InsertAfter(L, n, new) ==
  LET after == L.next[n] IN
  [L EXCEPT !.tail = IF after = None THEN new ELSE @,
            !.next = [@ EXCEPT ![n] = new, ![new] = after],
            !.prev = IF after = None THEN [@ EXCEPT ![new] = n]
                                     ELSE [@ EXCEPT ![new] = n, ![after] = new]]

(* The first node of a list.                                               *)
Alone(L, n) == [L EXCEPT !.head = n, !.tail = n, !.next[n] = None, !.prev[n] = None]

InsertTail(L, n) ==
  IF L.tail = None THEN Alone(L, n) ELSE InsertAfter(L, L.tail, n)

InsertHead(L, n) ==
  IF L.head = None THEN Alone(L, n)
  ELSE [L EXCEPT !.head = n,
                 !.next[n] = L.head,
                 !.prev = [@ EXCEPT ![L.head] = n, ![n] = None]]

Bug_RemoveKeepsNext(L, n) ==
  LET p == L.prev[n]
      s == L.next[n]
  IN [L EXCEPT !.head = IF p = None THEN s ELSE @,
               !.tail = IF s = None THEN p ELSE @,
               !.prev = IF s = None THEN @ ELSE [@ EXCEPT ![s] = p]]
Remove(L, n) ==
  LET p == L.prev[n]
      s == L.next[n]
  IN [L EXCEPT !.head = IF p = None THEN s ELSE @,
               !.tail = IF s = None THEN p ELSE @,
               !.next = IF p = None THEN @ ELSE [@ EXCEPT ![p] = s],
               !.prev = IF s = None THEN @ ELSE [@ EXCEPT ![s] = p]]

(* The nodes of L, in order: what a walk from the head along next meets.   *)
(* Fuel bounds the walk, so that a cycle is a wrong answer and not a       *)
(* divergence.                                                             *)
Walk(L, fuel) ==
  LET visit[i \in 0 .. fuel] ==
        IF i = 0 THEN [at |-> L.head, seen |-> << >>]
        ELSE LET v == visit[i - 1] IN
             IF v.at = None THEN v
             ELSE [at |-> L.next[v.at], seen |-> Append(v.seen, v.at)]
  IN visit[fuel].seen

(* L is the list of the elements of s, in that order.                      *)
Encodes(L, s) ==
  /\ s \in Seq(Nodes)
  /\ \A i, j \in 1 .. Len(s) : s[i] = s[j] => i = j
  /\ L.head = IF s = << >> THEN None ELSE s[1]
  /\ L.tail = IF s = << >> THEN None ELSE s[Len(s)]
  /\ \A i \in 1 .. Len(s) :
       /\ L.next[s[i]] = IF i = Len(s) THEN None ELSE s[i + 1]
       /\ L.prev[s[i]] = IF i = 1 THEN None ELSE s[i - 1]
=============================================================================

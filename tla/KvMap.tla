------------------------------- MODULE KvMap -------------------------------
(***************************************************************************)
(* What users of sapphireos/kvdb.c see: a map from keys to data and tags,  *)
(* and the answer of the last call.  A key that is there can be read, set  *)
(* and listed under its own hash, whatever was added or deleted before;    *)
(* a write tells the notifier exactly when it changes what is stored.      *)
(***************************************************************************)
EXTENDS Integers, FiniteSets

CONSTANTS Hashes, Data, Tags, Nothing

VARIABLES map, answer

vars == <<map, answer>>

Reply(call, status, data, notified) ==
  [call |-> call, status |-> status, data |-> data, notified |-> notified]

Init == map = [h \in {} |-> Nothing] /\ answer = Reply(<<"init">>, "ok", Nothing, FALSE)

Write(call, h, d) ==
  /\ h \in DOMAIN map
  /\ map' = [map EXCEPT ![h].data = d]
  /\ answer' = Reply(call, "ok", Nothing, map[h].data # d)

Set(h, d) ==
  \/ Write(<<"set", h>>, h, d)
  \/ h \notin DOMAIN map /\ answer' = Reply(<<"set", h>>, "missing", Nothing, FALSE) /\ UNCHANGED map

(* Adding a key that is there sets it.                                     *)
Add(h, d, t) ==
  \/ Write(<<"add", h>>, h, d)
  \/ /\ h \notin DOMAIN map
     /\ map' = [k \in DOMAIN map \cup {h} |->
                  IF k = h THEN [data |-> d, tag |-> t] ELSE map[k]]
     /\ answer' = Reply(<<"add", h>>, "ok", Nothing, FALSE)
  \/ h \notin DOMAIN map /\ answer' = Reply(<<"add", h>>, "full", Nothing, FALSE) /\ UNCHANGED map

Get(h) ==
  /\ answer' = IF h \in DOMAIN map THEN Reply(<<"get", h>>, "ok", map[h].data, FALSE)
                                   ELSE Reply(<<"get", h>>, "missing", Nothing, FALSE)
  /\ UNCHANGED map

Without(S) == [k \in DOMAIN map \ S |-> map[k]]

Delete(h) ==
  /\ map' = Without({h})
  /\ answer' = Reply(<<"delete", h>>, IF h \in DOMAIN map THEN "ok" ELSE "missing", Nothing, FALSE)

DeleteTag(t) ==
  /\ map' = Without({k \in DOMAIN map : map[k].tag = t})
  /\ answer' = Reply(<<"deletetag", t>>, "ok", Nothing, FALSE)

(* The keys can be listed: the i-th is the i-th from the largest hash.     *)
KeyAt(i) ==
  /\ answer' = Reply(<<"keyat", i>>, "ok", IF \E h \in DOMAIN map : Cardinality({k \in DOMAIN map : k >= h}) = i
                           THEN CHOOSE h \in DOMAIN map :
                                  Cardinality({k \in DOMAIN map : k >= h}) = i
                           ELSE 0, FALSE)
  /\ UNCHANGED map

(* There was no memory for the database.                                   *)
Refused == answer' = Reply(<<"refused">>, "full", Nothing, FALSE) /\ UNCHANGED map

Next ==
  \/ \E h \in Hashes : Get(h) \/ Delete(h) \/ \E d \in Data : Set(h, d) \/ \E t \in Tags : Add(h, d, t)
  \/ \E t \in Tags : DeleteTag(t)
  \/ \E i \in 1 .. Cardinality(Hashes) : KeyAt(i)
  \/ Refused

Spec == Init /\ [][Next]_vars
=============================================================================

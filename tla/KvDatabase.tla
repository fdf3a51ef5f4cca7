----------------------------- MODULE KvDatabase -----------------------------
(***************************************************************************)
(* The database of dynamic keys (sapphireos/kvdb.c): an array sorted by    *)
(* descending hash, whose free entries have hash 0 and so come last, found *)
(* by binary search, with the last entry found kept in a cache.            *)
(* Calls are atomic: no thread yields in one.                              *)
(***************************************************************************)
EXTENDS Integers, Sequences, FiniteSets

CONSTANTS
  Hashes,      \* hashes of keys; 0 marks a free entry
  Data, Tags,
  Nothing,     \* what an answer without data carries; 0 in the code
  InitialSize, \* KVDB_INITIAL_SIZE
  Increment,   \* KVDB_SIZE_INCREMENT
  MaxEntries,  \* KVDB_MAX_ENTRIES
  Batches      \* are keys added only while nothing is cached?

ASSUME DatabaseAssumption ==
  /\ Hashes \subseteq Nat \ {0} /\ Nothing \in Data
  /\ InitialSize \in Nat \ {0} /\ Increment \in Nat \ {0} /\ MaxEntries \in Nat
  /\ Batches \in BOOLEAN

VARIABLES
  db,      \* the entries; << >> when there was no memory for them
  count,   \* kv_count
  cache,   \* cached_hash and cached_index, which is 0 for none
  answer   \* auxiliary: the answer of the last call

kvVars == <<db, count, cache, answer>>

Free == [hash |-> 0, data |-> Nothing, tag |-> Nothing]
AnswerOf(call, status, data, notified) ==
  [call |-> call, status |-> status, data |-> data, notified |-> notified]

-----------------------------------------------------------------------------
(* _kvdb_i16_search_hash: the index, or 0, and the cache after the search. *)

BinarySearch(h) ==
  LET find[r \in (1 .. Len(db) + 1) \X (0 .. Len(db))] ==
        LET middle == (r[1] + r[2]) \div 2
        IN  IF r[1] > r[2] THEN 0
            ELSE IF db[middle].hash > h THEN find[<<middle + 1, r[2]>>]
            ELSE IF db[middle].hash = h THEN middle
            ELSE find[<<r[1], middle - 1>>]
  IN find[<<1, Len(db)>>]

Cached(h) == cache.index # 0 /\ cache.hash = h
Search(h) == IF Cached(h) THEN cache.index ELSE BinarySearch(h)
CacheAfter(h, index) == IF index = 0 THEN cache ELSE [hash |-> h, index |-> index]

(* A bug: deleting does not reset the cache.                               *)
Bug_StillCached == cache
Forgotten == [cache EXCEPT !.index = 0]
(* _kvdb_v_sort: the order that is left when nothing is swapped any more.  *)
Sorts(p, entries) ==
  /\ \A i, j \in DOMAIN entries : p[i] = p[j] => i = j
  /\ \A i, j \in DOMAIN entries : i < j => entries[p[i]].hash >= entries[p[j]].hash

Sorted(entries) ==
  LET p == CHOOSE p \in [DOMAIN entries -> DOMAIN entries] : Sorts(p, entries)
  IN  [i \in DOMAIN entries |-> entries[p[i]]]

(* The first free entry, after the array has grown if it was full.         *)
Grown == db \o [i \in 1 .. Increment |-> Free]
FreeIndex(entries) == CHOOSE i \in DOMAIN entries :
                        /\ entries[i].hash = 0
                        /\ \A j \in DOMAIN entries : entries[j].hash = 0 => i <= j

Placed(entries, e) == [entries EXCEPT ![FreeIndex(entries)] = e]

-----------------------------------------------------------------------------
(* kvdb_i8_set; Found is its part for a key that the search found.         *)

Found(call, h, d, index) ==
  /\ db' = [db EXCEPT ![index].data = d]
  /\ cache' = CacheAfter(h, index)
  /\ answer' = AnswerOf(call, "ok", Nothing, db[index].data # d)
  /\ UNCHANGED count

Set(h, d) ==
  /\ db # << >>
  /\ \/ Search(h) # 0 /\ Found(<<"set", h>>, h, d, Search(h))
     \/ /\ Search(h) = 0
        /\ answer' = AnswerOf(<<"set", h>>, "missing", Nothing, FALSE)
        /\ UNCHANGED <<db, count, cache>>

(* kvdb_i8_add: set, or grow, place and sort.  The cache stays.            *)
AddFull(h) ==
  /\ db # << >> /\ Search(h) = 0
  /\ count >= MaxEntries \/ count >= Len(db)   \* or realloc has failed
  /\ answer' = AnswerOf(<<"add", h>>, "full", Nothing, FALSE)
  /\ UNCHANGED <<db, count, cache>>

AddNew(h, d, t) ==
  /\ db # << >> /\ Search(h) = 0 /\ count < MaxEntries
  /\ Batches => cache.index = 0
  /\ db' = Sorted(Placed(IF count >= Len(db) THEN Grown ELSE db,
                         [hash |-> h, data |-> d, tag |-> t]))
  /\ count' = count + 1
  /\ answer' = AnswerOf(<<"add", h>>, "ok", Nothing, FALSE)
  /\ UNCHANGED cache

Add(h, d, t) ==
  \/ db # << >> /\ Search(h) # 0 /\ Found(<<"add", h>>, h, d, Search(h))
  \/ AddFull(h)
  \/ AddNew(h, d, t)

(* kvdb_i8_get.                                                            *)
GetKey(h) ==
  /\ db # << >>
  /\ answer' = IF Search(h) # 0 THEN AnswerOf(<<"get", h>>, "ok", db[Search(h)].data, FALSE)
                                ELSE AnswerOf(<<"get", h>>, "missing", Nothing, FALSE)
  /\ cache' = CacheAfter(h, Search(h))
  /\ UNCHANGED <<db, count>>

-----------------------------------------------------------------------------
(* kvdb_i8_delete and kvdb_v_delete_tag.                                   *)

Delete(h) ==
  /\ db # << >>
  /\ \/ /\ Search(h) # 0
        /\ db' = Sorted([db EXCEPT ![Search(h)] = Free])
        /\ count' = count - 1
        /\ cache' = Forgotten
        /\ answer' = AnswerOf(<<"delete", h>>, "ok", Nothing, FALSE)
     \/ /\ Search(h) = 0
        /\ answer' = AnswerOf(<<"delete", h>>, "missing", Nothing, FALSE)
        /\ UNCHANGED <<db, count, cache>>

HasTag(e, t) == e.hash # 0 /\ e.tag = t
Tagged(t) == Cardinality({i \in DOMAIN db : HasTag(db[i], t)})

DeleteTag(t) ==
  /\ db # << >>
  /\ db' = Sorted([i \in DOMAIN db |-> IF HasTag(db[i], t) THEN Free ELSE db[i]])
  /\ count' = count - Tagged(t)
  /\ cache' = Forgotten
  /\ answer' = AnswerOf(<<"deletetag", t>>, "ok", Nothing, FALSE)

(* kvdb_h_get_hash_for_index, by which kv_i8_lookup_index lists the keys.  *)
KeyAt(i) ==
  /\ db # << >>
  /\ answer' = AnswerOf(<<"keyat", i>>, "ok", IF i \in DOMAIN db THEN db[i].hash ELSE 0, FALSE)
  /\ UNCHANGED <<db, count, cache>>

(* Every call when there is no memory for the database.                    *)
Refused ==
  /\ db = << >>
  /\ answer' = AnswerOf(<<"refused">>, "full", Nothing, FALSE)
  /\ UNCHANGED <<db, count, cache>>

(* kvdb_v_init.                                                            *)
KvInit ==
  /\ db \in {<< >>, [i \in 1 .. InitialSize |-> Free]}
  /\ count = 0 /\ cache = [hash |-> 0, index |-> 0]
  /\ answer = AnswerOf(<<"init">>, "ok", Nothing, FALSE)

KvNext ==
  \/ \E h \in Hashes : GetKey(h) \/ Delete(h) \/ \E d \in Data : Set(h, d) \/ \E t \in Tags : Add(h, d, t)
  \/ \E t \in Tags : DeleteTag(t)
  \/ \E i \in 1 .. Cardinality(Hashes) : KeyAt(i)
  \/ Refused

KvSpec == KvInit /\ [][KvNext]_kvVars
-----------------------------------------------------------------------------
(* Properties.                                                             *)

Present == {i \in DOMAIN db : db[i].hash # 0}

(* Keys are unique and sorted, free entries come last, and the count is    *)
(* that of the keys, which is what listing them by index relies on.        *)
WellKept ==
  /\ count = Cardinality(Present) /\ Present = 1 .. count
  /\ \A i, j \in Present : i < j => db[i].hash > db[j].hash

(* What the cache says is true: the entry at its index is the key's.  This *)
(* is what the comment "reset cache" after each sort is for.               *)
CacheTrue == cache.index # 0 => db[cache.index].hash = cache.hash

Entries(d) == {e \in {d[i] : i \in DOMAIN d} : e.hash # 0}
Contents(E) == [h \in {e.hash : e \in E} |->
                  LET e == CHOOSE e \in E : e.hash = h
                  IN  [data |-> e.data, tag |-> e.tag]]

Map == INSTANCE KvMap WITH map <- Contents(Entries(db))

(* Every call answers as the plain map does, and no write lands on another *)
(* key, through growth, sorting, deletion and the cache.                   *)
ImplementsMap == Map!Spec
=============================================================================

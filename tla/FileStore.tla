----------------------------- MODULE FileStore -----------------------------
(***************************************************************************)
(* What the flash file system (sapphireos/fs.c and below) promises: named  *)
(* files that grow and are overwritten page by page, and a loss of power   *)
(* that cuts a call short between two pages.  It is not all that one would *)
(* wish: a file whose page was being written when power was lost may lose  *)
(* pages, or vanish, when it is used again.                                *)
(***************************************************************************)
EXTENDS Naturals, Sequences

CONSTANTS Names, Values, Lost, Absent, MaxData

VARIABLES
  store,     \* the pages of every file
  doubtful,  \* the files in which a write was cut short
  call       \* what the last step did to which file, and whether it was done

vars == <<store, doubtful, call>>

Pages == UNION {[1 .. n -> Values \cup {Lost}] : n \in 0 .. MaxData}

(* A call that takes no part in what the files hold: a read, a mount, the  *)
(* collector's, a loss of power between two calls.                         *)
Nothing == [op |-> "none"]

Init == store = [n \in Names |-> Absent] /\ doubtful = {} /\ call = Nothing

(* A file in which a write was cut short may be spoilt by a restart, which *)
(* is how a call that was not done may have ended.                         *)
Kept(m) == store'[m] = store[m]

Others(n) == \A m \in Names \ {n} : Kept(m) \/ (~call'.ok /\ m \in doubtful)

(* When a call was not done, power may have been lost in a page of n.      *)
Doubts(n) == doubtful' \in {doubtful} \cup (IF call'.ok THEN {} ELSE {doubtful \cup {n}})

(* A file is created empty, or with a page that its creator writes.        *)
Create(n) ==
  /\ call'.op = "create" /\ store[n] = Absent
  /\ \/ store'[n] \in {<<>>} \cup {<<v>> : v \in Values}
     \/ ~call'.ok /\ Kept(n)
  /\ Doubts(n)

(* `size' pages from page `from' on; the first of them, if it was not done.*)
Write(n) ==
  /\ call'.op = "write" /\ store[n] # Absent
  /\ call'.from \in 0 .. Len(store[n])
  /\ LET part(k) == call'.from + 1 .. call'.from + k
         old      == store[n]
     IN  \E k \in 0 .. call'.size :
           /\ call'.ok => k = call'.size
           /\ store'[n] = [i \in DOMAIN old \cup part(k) |->
                             IF i \in part(k) THEN call'.value ELSE old[i]]
  /\ Doubts(n)

Delete(n) ==
  /\ call'.op = "delete" /\ store[n] # Absent
  /\ \/ store'[n] = Absent /\ doubtful' = doubtful \ {n}
     \/ ~call'.ok /\ Kept(n) /\ UNCHANGED doubtful

(* A call for a file in which a write was cut short may do anything to it. *)
Spoil(n) == n \in doubtful /\ doubtful' \in {doubtful, doubtful \ {n}}

(* So may a step that is no call; a file that is gone is forgotten.        *)
Rest ==
  /\ call' = Nothing
  /\ \A m \in Names : Kept(m) \/ m \in doubtful
  /\ doubtful' \in {doubtful, {m \in doubtful : store'[m] # Absent}}

Call(n) ==
  /\ call' # Nothing /\ call'.name = n /\ Others(n)
  /\ Create(n) \/ Write(n) \/ Delete(n) \/ Spoil(n)

Next ==
  /\ store' \in [Names -> Pages \cup {Absent}]
  /\ Rest \/ \E n \in Names : Call(n)

Spec == Init /\ [][Next]_vars
=============================================================================

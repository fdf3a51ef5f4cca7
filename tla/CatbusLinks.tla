---------------------------- MODULE CatbusLinks ----------------------------
(***************************************************************************)
(* Links between keys of several nodes, of catbus (ENABLE_CATBUS_LINK in   *)
(* catbus.c, and the Python server, python/catbus/catbus/server.py): a key *)
(* of a source is copied to a key of each of its destinations.             *)
(*                                                                         *)
(* The link is declared either on the source, which asks every few seconds *)
(* who has the other key, or on each destination, which says so every few  *)
(* seconds.  The source keeps a list of who is to be sent what, whose      *)
(* entries expire.  It sends the key when it changes and every few         *)
(* seconds, one destination after the other, in a thread of its own.  The  *)
(* network loses, repeats and reorders messages; nodes restart.            *)
(***************************************************************************)
EXTENDS Integers, Sequences, SequencesExt, FiniteSets

CONSTANTS
  Dests,        \* nodes with the other key
  Source,
  Kinds,        \* of sources: TRUE if the Python server may be one, FALSE if firmware may
  Ttl,          \* rounds that an entry lives: 8
  SequenceMod,  \* of the numbers of data messages: 2^16
  MaxChanges, MaxFaults   \* bounds

LinksAssumption ==
  /\ IsFiniteSet(Dests) /\ Source \notin Dests /\ Kinds \subseteq BOOLEAN
  /\ Ttl \in Nat \ {0} /\ SequenceMod \in Nat \ {0, 1, 2}
  /\ MaxChanges \in Nat /\ MaxFaults \in Nat

VARIABLES
  declared, python,     \* where the link is declared; the source is the Python server
  wanted, links,        \* of each node that declares: what it asked for, and its list of links
  value, sequence,      \* of the source: the key, and the last number used
  senders,              \* send_list: the destinations, and the rounds they have left
  threads,              \* the publish threads: what they send, and whom they sent it to last
  round,                \* where the source's announce thread is
  copy, cache,          \* of each destination: the key, and the last number it got
  net,                  \* messages on their way
  changes, faults       \* faults: messages lost or repeated, restarts and purges

config  == <<declared, python>>
source  == <<value, sequence, senders, threads, round>>
dest    == <<copy, cache>>
counts  == <<changes, faults>>
linksVars == <<config, wanted, links, source, dest, net, counts>>

Nobody    == -1
Declarers == IF declared = "source" THEN {Source} ELSE Dests
Ask(d)    == [type |-> "ask", at |-> d]
Add(d)    == [type |-> "add", at |-> d]
Data(d, n, v) == [type |-> "data", at |-> d, sequence |-> n, value |-> v]

Following(n) == (n + 1) % SequenceMod
Fault == faults < MaxFaults /\ faults' = faults + 1

-----------------------------------------------------------------------------
(* Links: catbus_l_send, catbus_l_recv and catbus_v_purge_links.  A link   *)
(* that is to be deleted stays until the next round, and is another one    *)
(* than the same link that is not.                                         *)

Bug_SameLink(ls) == ls # {}
HasLink(ls) == "live" \in ls

CreateLink(n) ==
  /\ n \in Declarers /\ ~wanted[n]
  /\ wanted' = [wanted EXCEPT ![n] = TRUE]
  /\ links' = [links EXCEPT ![n] = IF HasLink(@) THEN @ ELSE @ \cup {"live"}]
  /\ UNCHANGED <<config, source, dest, net, counts>>

PurgeLinks(n) ==
  /\ n \in Declarers /\ ~python /\ wanted[n] /\ Fault
  /\ wanted' = [wanted EXCEPT ![n] = FALSE]
  /\ links' = [links EXCEPT ![n] = {"deleted"}]
  /\ UNCHANGED <<config, source, dest, net, changes>>

Kept(n) == [links EXCEPT ![n] = @ \ {"deleted"}]

-----------------------------------------------------------------------------
(* The source: publishing.                                                 *)

Start == [sequence |-> Following(sequence), value |-> value, at |-> Nobody]

(* catbus_i8_publish: the message is made now, and a thread sends it.      *)
Publish(v) ==
  /\ sequence' = Following(sequence)
  /\ threads' = Append(threads, [Start EXCEPT !.value = v])
  /\ UNCHANGED net

(* _publish of the Python server: the same, to a queue of messages.        *)
PythonData(n, v) == {Data(senders[i].to, n, v) : i \in DOMAIN senders}

Change ==
  /\ changes < MaxChanges /\ changes' = changes + 1
  /\ value' = changes + 1
  /\ IF python
     THEN /\ sequence' = Following(sequence) /\ net' = net \cup PythonData(sequence', value')
          /\ UNCHANGED threads
     ELSE Publish(value')
  /\ UNCHANGED <<config, wanted, links, senders, round, dest, faults>>

(* publish_thread: on to the next destination of the list, or the end.     *)
Place(d) == CHOOSE i \in DOMAIN senders : senders[i].to = d
NextPlace(t) == IF t.at = Nobody THEN 1 ELSE Place(t.at) + 1

PublishThread(i) ==
  LET t == threads[i]  p == NextPlace(t) IN
  /\ IF p \in DOMAIN senders
     THEN /\ threads' = [threads EXCEPT ![i].at = senders[p].to]
          /\ net' = net \cup {Data(senders[p].to, t.sequence, t.value)}
     ELSE threads' = RemoveAt(threads, i) /\ UNCHANGED net
  /\ UNCHANGED <<config, wanted, links, value, sequence, senders, round, dest, counts>>

-----------------------------------------------------------------------------
(* Rounds of the announce threads, some seconds apart: no message of the   *)
(* last one is left.                                                       *)

Calm == net = {} /\ threads = << >>

(* The key is published if it is to be sent to somebody.  The array of the *)
(* keys that were published is not kept while the thread waits, and so the *)
(* next entry of the list may publish the same key again.                  *)
StartRound ==
  /\ ~python /\ round = "wait" /\ Calm
  /\ IF senders = << >>
     THEN round' = "links" /\ UNCHANGED <<sequence, threads, net>>
     ELSE Publish(value) /\ round' \in IF Len(senders) > 1 THEN {"again", "links"} ELSE {"links"}
  /\ UNCHANGED <<config, wanted, links, value, senders, dest, counts>>

PublishAgain ==
  /\ round = "again" /\ Publish(value) /\ round' = "links"
  /\ UNCHANGED <<config, wanted, links, value, senders, dest, counts>>

Asks(ls) == IF declared = "source" /\ HasLink(ls) THEN {Ask(d) : d \in Dests} ELSE {}

SendLinks ==
  /\ round = "links" /\ round' = "expire"
  /\ links' = IF declared = "source" THEN Kept(Source) ELSE links
  /\ net' = net \cup (IF declared = "source" THEN Asks(links'[Source]) ELSE {})
  /\ UNCHANGED <<config, wanted, value, sequence, senders, threads, dest, counts>>

Unlocked == \A i \in DOMAIN threads : threads[i].at = Nobody   \* send_list_locked

Older(s) == SelectSeq([i \in DOMAIN s |-> [s[i] EXCEPT !.ttl = @ - 1]], LAMBDA e : e.ttl >= 0)

Expire ==
  /\ round = "expire" /\ Unlocked
  /\ round' = "wait" /\ senders' = Older(senders)
  /\ UNCHANGED <<config, wanted, links, value, sequence, threads, dest, net, counts>>

(* The Python server does it all at once, and without a new number.        *)
PythonRound ==
  /\ python /\ Calm
  /\ senders' = Older(senders)
  /\ net' = (IF declared = "source" THEN Asks(links[Source]) ELSE {})
              \cup {Data(senders'[i].to, sequence, value) : i \in DOMAIN senders'}
  /\ UNCHANGED <<config, wanted, links, value, sequence, threads, round, dest, counts>>

(* A destination: its link, if it is declared there, and its cache.        *)
DestRound(d) ==
  /\ Calm
  /\ links' = IF declared = "dest" THEN Kept(d) ELSE links
  /\ net' = IF declared = "dest" /\ HasLink(links'[d]) THEN {Add(d)} ELSE {}
  /\ cache' = [cache EXCEPT ![d] = IF @.ttl = 0 THEN [sequence |-> Nobody, ttl |-> 0] ELSE [@ EXCEPT !.ttl = @ - 1]]
  /\ UNCHANGED <<config, wanted, source, copy, counts>>

-----------------------------------------------------------------------------
(* Messages.  One that arrives may be delivered again.                     *)

Taken(m, reply) ==
  \/ net' = (net \ {m}) \cup reply /\ UNCHANGED faults
  \/ Fault /\ net' = net \cup reply

(* A destination is asked: it has the key and the tags.                    *)
AskArrives(m) ==
  /\ m.type = "ask" /\ Taken(m, {Add(m.at)})
  /\ UNCHANGED <<config, wanted, links, source, dest, changes>>

(* _catbus_v_add_to_send_list.  The Python server means to remove the      *)
(* entries of the host, and removes those for the same key as well: all.   *)
Fresh(d) == [to |-> d, ttl |-> Ttl]
Added(d) ==
  IF python THEN <<Fresh(d)>>
  ELSE IF \E i \in DOMAIN senders : senders[i].to = d
       THEN [senders EXCEPT ![Place(d)] = Fresh(d)]
       ELSE Append(senders, Fresh(d))

AddArrives(m) ==
  /\ m.type = "add" /\ Taken(m, {})
  /\ senders' = Added(m.at)
  /\ UNCHANGED <<config, wanted, links, value, sequence, threads, round, dest, changes>>

(* The value is taken unless it has the number of the last one.            *)
IsNews(n, last) == n # last

DataArrives(m) ==
  /\ m.type = "data" /\ Taken(m, {})
  /\ cache' = [cache EXCEPT ![m.at] = [sequence |-> m.sequence, ttl |-> Ttl]]
  /\ copy' = IF IsNews(m.sequence, cache[m.at].sequence) THEN [copy EXCEPT ![m.at] = m.value] ELSE copy
  /\ UNCHANGED <<config, wanted, links, source, changes>>

Lose(m) ==
  /\ Fault /\ net' = net \ {m}
  /\ UNCHANGED <<config, wanted, links, source, dest, changes>>

Arrives == \E m \in net : AskArrives(m) \/ AddArrives(m) \/ DataArrives(m)

-----------------------------------------------------------------------------
(* A node restarts: its links are declared again, and what it kept in      *)
(* memory is gone.  The Python server does not: it would draw its first    *)
(* number at random, and may draw one that a destination remembers.        *)
Restart(n) ==
  /\ Fault /\ ~(python /\ n = Source)
  /\ wanted' = [x \in DOMAIN wanted |-> IF x = n THEN TRUE ELSE wanted[x]]
  /\ links' = [x \in DOMAIN links |-> IF x = n THEN {"live"} ELSE links[x]]
  /\ IF n = Source
     THEN /\ value' = 0 /\ senders' = << >> /\ threads' = << >> /\ round' = "wait"
          /\ sequence' = 0 /\ UNCHANGED dest
     ELSE /\ copy' = [copy EXCEPT ![n] = 0] /\ cache' = [cache EXCEPT ![n] = [sequence |-> Nobody, ttl |-> 0]]
          /\ UNCHANGED source
  /\ UNCHANGED <<config, net, changes>>

LinksInit ==
  /\ declared \in {"source", "dest"} /\ python \in Kinds
  /\ wanted = [n \in Declarers |-> TRUE] /\ links = [n \in Declarers |-> {"live"}]
  /\ value = 0 /\ sequence = 0 /\ senders = << >> /\ threads = << >> /\ round = "wait"
  /\ copy = [d \in Dests |-> 0] /\ cache = [d \in Dests |-> [sequence |-> Nobody, ttl |-> 0]]
  /\ net = {} /\ changes = 0 /\ faults = 0

SourceStep == StartRound \/ PublishAgain \/ SendLinks \/ Expire \/ PythonRound
Threads    == \E i \in DOMAIN threads : PublishThread(i)

LinksNext ==
  \/ Arrives \/ SourceStep \/ Threads \/ Change
  \/ \E d \in Dests : DestRound(d)
  \/ \E n \in Declarers : CreateLink(n) \/ PurgeLinks(n)
  \/ \E m \in net : Lose(m)
  \/ \E n \in Dests \cup {Source} : Restart(n)

(* Messages that are not lost arrive; threads run; rounds come and go.     *)
LinksSpec ==
  /\ LinksInit /\ [][LinksNext]_linksVars
  /\ WF_linksVars(Arrives) /\ WF_linksVars(Threads)
  /\ SF_linksVars(SourceStep) /\ \A d \in Dests : SF_linksVars(DestRound(d))
-----------------------------------------------------------------------------
(* Properties.                                                             *)

LinksTypeOK ==
  /\ declared \in {"source", "dest"} /\ python \in BOOLEAN
  /\ wanted \in [Declarers -> BOOLEAN] /\ links \in [Declarers -> SUBSET {"live", "deleted"}]
  /\ sequence \in 0 .. SequenceMod - 1 /\ round \in {"wait", "again", "links", "expire"}
  /\ \A i \in DOMAIN senders : senders[i].to \in Dests /\ senders[i].ttl \in 0 .. Ttl

(* A thread that walks the list stands on an entry that is still there:    *)
(* none expires while it waits, and none is there twice.                   *)
WalkersStand ==
  /\ \A i \in DOMAIN threads :
       threads[i].at # Nobody => \E j \in DOMAIN senders : senders[j].to = threads[i].at
  /\ \A i, j \in DOMAIN senders : senders[i].to = senders[j].to => i = j

(* In the end every destination has the value of the source, whatever was  *)
(* lost, repeated, reordered or restarted, if the link is there: also if   *)
(* it was deleted and declared again at once.  If it is deleted for good   *)
(* nothing is sent any more.                                               *)
LinkedTo(d) == wanted[IF declared = "source" THEN Source ELSE d]
Follows(d)  == []<>(~LinkedTo(d)) \/ <>[](copy[d] = value)
Stops       == []<>(\E n \in Declarers : wanted[n]) \/ <>[](senders = << >>)

LinksFollow == (\A d \in Dests : Follows(d)) /\ Stops
=============================================================================

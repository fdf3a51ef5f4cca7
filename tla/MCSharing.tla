----------------------------- MODULE MCSharing -----------------------------
(***************************************************************************)
(* Keys that live in two places: one that the two processors of a node     *)
(* share (KeySync), and one that is linked to a key of another node        *)
(* (CatbusLinks), with one destination that faults happen to, and with     *)
(* two.  The initial state chooses what is looked at; the rest stands      *)
(* still.                                                                  *)
(***************************************************************************)
EXTENDS KeySync

CONSTANTS LinkTtl, MaxFaults

VARIABLES
  subject,
  declared, python, wanted, links, value, sequence, senders, threads, round,
  copy, cache, net, edits, faults

linkVars == <<declared, python, wanted, links, value, sequence, senders, threads, round,
              copy, cache, net, edits, faults>>
all_vars == <<subject, vars, linkVars>>

Links == INSTANCE CatbusLinks WITH
  Dests <- {1}, Source <- 0, Kinds <- BOOLEAN, Ttl <- LinkTtl, SequenceMod <- 3,
  MaxChanges <- 1, changes <- edits

Pair == INSTANCE CatbusLinks WITH
  Dests <- {1, 2}, Source <- 0, Kinds <- {FALSE}, Ttl <- 1, SequenceMod <- 3,
  MaxChanges <- 0, MaxFaults <- 0, changes <- edits

ASSUME Links!LinksAssumption /\ Pair!LinksAssumption

-----------------------------------------------------------------------------
InShared(A) == subject = "shared" /\ A /\ UNCHANGED <<subject, linkVars>>
InLinks(A)  == subject = "links" /\ A /\ UNCHANGED <<subject, vars>>
InPair(A)   == subject = "pair" /\ A /\ UNCHANGED <<subject, vars>>

MCInit ==
  /\ subject \in {"shared", "links", "pair"}
  /\ Init /\ (subject # "shared" => use = {"read"} /\ ~paced /\ db = 0)
  /\ IF subject = "pair" THEN Pair!LinksInit /\ declared = "dest"
     ELSE Links!LinksInit /\ (subject # "links" => python /\ declared = "dest")

MCNext == InShared(Next) \/ InLinks(Links!LinksNext) \/ InPair(Pair!LinksNext)

(* The fairness of the specifications.  The processors of KeySync are one  *)
(* system: what can still happen goes on happening.                        *)
MCSpec ==
  /\ MCInit /\ [][MCNext]_all_vars
  /\ WF_all_vars(InShared(System))
  /\ WF_all_vars(InLinks(Links!Arrives)) /\ WF_all_vars(InLinks(Links!Threads))
  /\ SF_all_vars(InLinks(Links!SourceStep)) /\ SF_all_vars(InLinks(Links!DestRound(1)))
-----------------------------------------------------------------------------
(* CatbusLinks: a destination has the source's value in the end, and a     *)
(* thread that walks the list of destinations stands on one of them.       *)
LinksFollow == []Links!WalkersStand /\ Links!LinksFollow
=============================================================================

------------------------------ MODULE MCMemory ------------------------------
(***************************************************************************)
(* The memory manager with callers that keep to its contract, and another  *)
(* one with callers that breach it (they shrink blocks and ask for sizes   *)
(* that wrap), side by side: the initial state chooses which of them runs. *)
(***************************************************************************)
EXTENDS MemPool

VARIABLES
  subject,
  memM, handlesM, freePtrM, handlesUsedM, freeSpaceM, usedSpaceM, dirtySpaceM, dataSpaceM,
  phaseM, dstM, srcM, assertedM, heldM

misuseVars ==
  <<memM, handlesM, freePtrM, handlesUsedM, freeSpaceM, usedSpaceM, dirtySpaceM, dataSpaceM,
    phaseM, dstM, srcM, assertedM, heldM>>
all_vars == <<subject, vars, misuseVars>>

M == INSTANCE MemPool WITH
  MaxHandles <- 2, Sizes <- Sizes \cup {WordSize - 2}, Shrinking <- TRUE,
  mem <- memM, handles <- handlesM, freePtr <- freePtrM, handlesUsed <- handlesUsedM,
  freeSpace <- freeSpaceM, usedSpace <- usedSpaceM, dirtySpace <- dirtySpaceM,
  dataSpace <- dataSpaceM, phase <- phaseM, dst <- dstM, src <- srcM,
  asserted <- assertedM, held <- heldM

Only(x) ==
  /\ subject = x /\ UNCHANGED subject
  /\ IF x = "heap" THEN UNCHANGED misuseVars ELSE UNCHANGED vars

MCInit == subject \in {"heap", "misuse"} /\ Init /\ M!Init

MCNext ==
  \/ Next /\ Only("heap")
  \/ M!Next /\ Only("misuse")
  \/ assertedM /\ UNCHANGED all_vars     \* the system is down

(* The fairness of MemPool for the one that runs.                          *)
FairPass    == (EndPass /\ Only("heap")) \/ (M!EndPass /\ Only("misuse"))
FairCollect == (Collect /\ Only("heap")) \/ (M!Collect /\ Only("misuse"))

MCSpec ==
  MCInit /\ [][MCNext]_all_vars /\ WF_all_vars(FairPass) /\ WF_all_vars(FairCollect)

-----------------------------------------------------------------------------
(* MemPool, its contract breached: a damaged canary always stops the       *)
(* system at the next collection (mem2_v_check_canaries).                  *)
DamageStopsAll == M!DamageCaught
=============================================================================

---------------------------- MODULE PowerProofs -----------------------------
(***************************************************************************)
(* TLAPS proofs of what survives a loss of power at any moment, as in      *)
(* MCPower: the firmware (FirmwareUpdate) and the configuration store      *)
(* (ConfigStore). They share nothing; each has its part below.             *)
(*                                                                         *)
(* The firmware: for any images, pages and areas, any number of resets and *)
(* of writes that fail. At every moment the area that is being replaced is *)
(* not the one that holds the image of last resort: while the program      *)
(* memory is replaced its source is whole, and while a partition is, the   *)
(* program memory is (Sources). The loader runs what it has checked        *)
(* (Running) and a damaged program memory is the trace of a request        *)
(* (Requested). That a copy is whole at its end needs the progress of the  *)
(* copy (Progress), which the pages of an image must cover: PagesCover.    *)
(* What the size of the firmware file says of its partition has an         *)
(* invariant of its own, Partition, which stands on these.                 *)
(*                                                                         *)
(* The configuration store: for any parameters, sizes, types and EEPROM    *)
(* that has room for the defaults, and any number of upgrades and losses   *)
(* of power. Only the blocks the code is busy with are not known to be     *)
(* free or the one valid copy of their key (Suspects, Tidy): the one being *)
(* erased, those the cleaning at boot has not reached, the new copy while  *)
(* it is written and then the old one too. A boot makes every block a      *)
(* suspect again, so what must outlive losses of power is stated apart     *)
(* (Sealed): one version at most, its age, and that one of this firmware   *)
(* or the one before means all defaults are there. When the version is     *)
(* written the store holds the defaults written so far and nothing else    *)
(* (Resets); their keys are distinct, so there was room for all (a         *)
(* pigeonhole argument). A lookup that finds two copies takes the lower    *)
(* one; the map of ParamStore changes when that one changes: with the new  *)
(* identifier or with the erasure of the old block.                        *)
(***************************************************************************)
EXTENDS FirmwareUpdate, ConfigStore, FiniteSetTheorems, WellFoundedInduction, TLAPS

-----------------------------------------------------------------------------
(* The firmware: the inductive invariant.                                  *)

AppPhases == {"command", "init", "stored", "self", "app", "erased"}

Sources ==
  at \in {"erase", "copy"} =>
    IF job.to = "internal"
    THEN /\ \/ job.from = "fw" /\ CrcOK("fw")
            \/ job.from = "rec" /\ CrcOK("rec")
         /\ asked
         /\ job.then \in {"recovery", "rescue", "check", "loaded"}
    ELSE /\ CrcOK("internal")
         /\ job.from \in {"internal", "none"} /\ (at = "copy" => job.from # "none")
         /\ job.then \in {"stored", "app", "erased"}

Running == at \in AppPhases => CrcOK("internal")

SomeImage == CrcOK("internal") \/ CrcOK("fw") \/ CrcOK("rec")

Requested ==
  /\ ~asked => CrcOK("internal")
  /\ command # "none" => asked
  /\ at \in {"recovery", "rescue", "loaded", "fatal", "dead"} => asked

(* The words of the pages that have been copied, if no write failed.       *)
Copied ==
  \A w \in Whole(flash[job.from][Header]) :
    Page(w) < i => flash["internal"][w] = flash[job.from][w]

Progress ==
  faults = 0 =>
    /\ at = "start" => tries = 0
    /\ at \in {"recovery", "rescue", "loaded"} => CrcOK("internal")
    /\ at = "check" /\ tries > 0 => CrcOK("internal") \/ ~CrcOK("fw")
    /\ at = "fatal" => CrcOK("rec")
    /\ at # "dead"
    /\ at = "copy" /\ job.to = "internal" => Copied

UpdateInv == TypeOK /\ Sources /\ Running /\ SomeImage /\ Requested /\ Progress

-----------------------------------------------------------------------------
(* Pages.                                                                  *)

LEMMA PageOfWord ==
  ASSUME NEW w \in Nat
  PROVE  /\ Page(w) \in Nat
         /\ Page(w) * PageSize <= w /\ w < Page(w) * PageSize + PageSize
  BY ImagesAssumption DEF Page

LEMMA Times ==
  ASSUME NEW p \in Nat, NEW q \in Nat, NEW k \in Nat, p < q
  PROVE  p * k + k <= q * k
<1>1. PICK d \in Nat : q = p + 1 + d
  <2>1. q - p - 1 \in Nat /\ q = p + 1 + (q - p - 1)
    OBVIOUS
  <2> QED
    BY <2>1
<1>2. q * k = p * k + k + d * k
  BY <1>1
<1>3. d * k \in Nat /\ p * k \in Nat /\ q * k \in Nat
  OBVIOUS
<1> QED
  BY <1>2, <1>3

(* A later word is not on an earlier page.                                 *)
LEMMA PageMonotone ==
  ASSUME NEW w \in Nat, NEW x \in Nat, w <= x
  PROVE  Page(w) <= Page(x)
<1> SUFFICES ASSUME Page(x) < Page(w) PROVE FALSE
  BY PageOfWord
<1>1. Page(x) * PageSize + PageSize <= Page(w) * PageSize
  BY Times, PageOfWord, ImagesAssumption
<1>2. Page(x) * PageSize \in Nat /\ Page(w) * PageSize \in Nat
  BY PageOfWord, ImagesAssumption
<1> QED
  BY <1>1, <1>2, PageOfWord, ImagesAssumption

(* There is no gap between the pages of an area.                           *)
LEMMA PagesContiguous ==
  ASSUME NEW w \in Words, NEW p \in Nat, p <= Page(w)
  PROVE  p \in Pages
<1>1. w \in Nat /\ Size \in Nat /\ PageSize \in Nat \ {0}
  BY ImagesAssumption DEF Words
<1>2. p * PageSize \in Nat /\ p * PageSize <= w
  <2>1. CASE p = Page(w)
    BY <2>1, <1>1, PageOfWord
  <2>2. CASE p < Page(w)
    <3>1. p * PageSize + PageSize <= Page(w) * PageSize
      BY <2>2, <1>1, Times, PageOfWord
    <3>2. p * PageSize \in Nat /\ Page(w) * PageSize \in Nat
      BY <1>1, PageOfWord
    <3> QED
      BY <3>1, <3>2, <1>1, PageOfWord
  <2> QED
    BY <2>1, <2>2, <1>1, PageOfWord
<1>3. p * PageSize \in Words
  BY <1>1, <1>2 DEF Words
<1>4. Page(p * PageSize) = p
  BY <1>1 DEF Page
<1> QED
  BY <1>3, <1>4 DEF Pages

(* The pages the loader copies hold every word of the image.               *)
LEMMA PagesCover ==
  ASSUME NEW v \in Images, NEW p \in Nat, ~(p \in Pages /\ InCopy(p, v)),
         NEW w \in Whole(v)
  PROVE  Page(w) < p
<1>1. w \in Words /\ w \in Nat /\ Length[v] \in Nat /\ w <= Length[v]
  BY ImagesAssumption DEF Whole, Words
<1>2. Page(w) <= Page(Length[v])
  BY <1>1, PageMonotone
<1>3. Page(w) \in Nat /\ Page(Length[v]) \in Nat
  BY <1>1, PageOfWord
<1>4. p <= Page(w) => p \in Pages
  BY <1>1, PagesContiguous
<1> QED
  BY <1>2, <1>3, <1>4 DEF InCopy

-----------------------------------------------------------------------------
(* Whole images.                                                           *)

LEMMA SameArea ==
  ASSUME NEW a, flash'[a] = flash[a]
  PROVE  CrcOK(a)' <=> CrcOK(a)
  BY DEF CrcOK

LEMMA SameFlash ==
  ASSUME UNCHANGED flash
  PROVE  /\ CrcOK("internal")' <=> CrcOK("internal")
         /\ CrcOK("fw")' <=> CrcOK("fw")
         /\ CrcOK("rec")' <=> CrcOK("rec")
  BY DEF CrcOK

LEMMA GoodIsComplete ==
  ASSUME NEW a, CrcOK(a)
  PROVE  Complete(a)
  BY DEF CrcOK, Complete

LEMMA HeaderIsWord == Header \in Words /\ \A v \in Images : Header \in Whole(v)
  BY ImagesAssumption DEF Words, Whole

LEMMA InitInv == Init => UpdateInv
<1> SUFFICES ASSUME Init PROVE UpdateInv
  OBVIOUS
<1>1. PICK v \in Images : flash = [a \in Areas |-> [w \in Words |->
                            IF a = "internal" /\ w \in Whole(v) THEN v ELSE Blank]]
  BY DEF Init
<1>2. flash["internal"][Header] = v
  BY <1>1, HeaderIsWord DEF Areas
<1>3. Whole(v) \subseteq Words
  BY ImagesAssumption DEF Whole, Words
<1>4. CrcOK("internal")
  BY <1>1, <1>2, <1>3 DEF CrcOK, Areas
<1>5. flash \in [Areas -> [Words -> Content]]
  BY <1>1 DEF Content
<1>6. TypeOK
  <2>1. NoJob \in [to: Areas, from: Areas \cup {"none"},
                   then: {"none", "recovery", "rescue", "check", "loaded", "stored", "app", "erased"}]
    BY DEF NoJob, Areas
  <2>2. /\ 0 \in 0 .. Tries /\ 0 \in 0 .. Size /\ 0 \in 0 .. MaxResets /\ 0 \in 0 .. MaxFaults
    BY ImagesAssumption
  <2> HIDE <1>1
  <2> QED
    BY <1>5, <2>1, <2>2 DEF TypeOK, Init
<1> QED
  BY <1>4, <1>6 DEF UpdateInv, Init, Sources, Running, AppPhases, SomeImage, Requested, Progress

-----------------------------------------------------------------------------
(* Types.                                                                  *)

LEMMA CopyType ==
  ASSUME TypeOK, Sources, CopyStep
  PROVE  flash' \in [Areas -> [Words -> Content]]
<1>1. job.from \in Areas
  BY DEF TypeOK, Sources, CopyStep, Areas
<1>2. flash[job.from] \in [Words -> Content] /\ flash[job.to] \in [Words -> Content]
  BY <1>1 DEF TypeOK
<1>3. [w \in Words |-> IF w \in Chunk THEN flash[job.from][w] ELSE flash[job.to][w]]
        \in [Words -> Content]
  BY <1>2
<1> QED
  BY <1>3 DEF CopyStep, TypeOK

LEMMA DamagedType ==
  ASSUME TypeOK
  PROVE  Damaged \in [Areas -> [Words -> Content]]
<1>1. flash[job.to] \in [Words -> Content]
  BY DEF TypeOK
<1>2. [w \in Words |-> IF w \in Chunk THEN Junk ELSE flash[job.to][w]] \in [Words -> Content]
  BY <1>1 DEF Content
<1> QED
  BY <1>2 DEF Damaged, TypeOK

LEMMA EraseAreaType ==
  ASSUME TypeOK, EraseStep
  PROVE  flash' \in [Areas -> [Words -> Content]]
<1>1. flash[job.to] \in [Words -> Content]
  BY DEF TypeOK
<1>2. [w \in Words |-> IF w \in Chunk THEN Blank ELSE flash[job.to][w]] \in [Words -> Content]
  BY <1>1 DEF Content
<1> QED
  BY <1>2 DEF EraseStep, TypeOK

LEMMA WriteType ==
  ASSUME TypeOK, NEW w \in Words, NEW v \in Images, WriteFw(w, v)
  PROVE  flash' \in [Areas -> [Words -> Content]]
<1>1. flash["fw"] \in [Words -> Content]
  BY DEF TypeOK, Areas
<1> DEFINE c == IF flash["fw"][w] \in {Blank, v} THEN v ELSE Junk
<1>2. [flash["fw"] EXCEPT ![w] = c] \in [Words -> Content]
  BY <1>1 DEF Content
<1>3. flash' = [flash EXCEPT !["fw"] = [flash["fw"] EXCEPT ![w] = c]]
  BY DEF WriteFw
<1> HIDE DEF c
<1> QED
  BY <1>2, <1>3 DEF TypeOK

LEMMA SizeType ==
  ASSUME TypeOK, NEW a \in Areas
  PROVE  SizeOf(a) \in 0 .. Size
  BY ImagesAssumption DEF SizeOf, TypeOK

LEMMA UpdateTypeStep ==
  ASSUME TypeOK, Sources, [Next]_vars
  PROVE  TypeOK'
<1> USE DEF TypeOK
<1>1. CASE TryRecovery
  BY <1>1 DEF TryRecovery, Start, Areas
<1>2. CASE Loader
  <2>1. CASE NoRecovery \/ RecoveryFailed \/ Checked \/ LoadFailed \/ Hang
    BY <2>1 DEF NoRecovery, RecoveryFailed, Checked, LoadFailed, Hang, vars
  <2>2. CASE RunRecovery \/ CannotLoadFw \/ NoCommand \/ RunLoaded
    BY <2>2 DEF RunRecovery, CannotLoadFw, NoCommand, RunLoaded, RunApp, Done
  <2>3. CASE Repair
    BY <2>3, ImagesAssumption DEF Repair, Start, Areas
  <2>4. CASE LoadFw \/ Fatal
    BY <2>4 DEF LoadFw, Fatal, Start, Areas
  <2> QED
    BY <1>2, <2>1, <2>2, <2>3, <2>4 DEF Loader
<1>3. CASE Writing
  <2>1. CASE EraseStep
    BY <2>1, EraseAreaType DEF EraseStep
  <2>2. CASE EraseDone
    BY <2>2 DEF EraseDone, Sources
  <2>3. CASE CopyStep
    BY <2>3, CopyType DEF CopyStep
  <2>4. CASE CopyFault
    BY <2>4, DamagedType, ImagesAssumption DEF CopyFault
  <2>5. CASE CopyDone
    BY <2>5 DEF CopyDone, NoJob, Areas, Sources
  <2> QED
    BY <1>3, <2>1, <2>2, <2>3, <2>4, <2>5 DEF Writing
<1>4. CASE Starting
  <2>1. CASE InitFw
    BY <2>1, SizeType DEF InitFw, Start, AfterInit, Areas
  <2>2. CASE Stored
    BY <2>2, SizeType, ImagesAssumption DEF Stored, AfterInit, Areas
  <2>3. CASE Self
    BY <2>3 DEF Self, Start, Areas
  <2>4. CASE ErasedFw
    BY <2>4, ImagesAssumption DEF ErasedFw, NoJob, Areas
  <2> QED
    BY <1>4, <2>1, <2>2, <2>3, <2>4 DEF Starting
<1>5. CASE EraseFw
  BY <1>5 DEF EraseFw, Start, Areas
<1>6. ASSUME NEW w \in Words, NEW v \in Images, WriteFw(w, v) PROVE TypeOK'
  <2>1. w + 1 \in 0 .. Size
    BY ImagesAssumption DEF Words
  <2> QED
    BY <1>6, <2>1, WriteType DEF WriteFw
<1>7. ASSUME NEW c \in {"load_fw", "recovery"}, Ask(c) PROVE TypeOK'
  BY <1>7 DEF Ask
<1>8. ASSUME NEW cold \in BOOLEAN, Reset(cold) PROVE TypeOK'
  BY <1>8, DamagedType, ImagesAssumption DEF Reset, NoJob, Areas
<1>9. CASE UNCHANGED vars
  BY <1>9 DEF vars
<1> QED
  BY <1>1, <1>2, <1>3, <1>4, <1>5, <1>6, <1>7, <1>8, <1>9 DEF Next

-----------------------------------------------------------------------------
(* Steps.                                                                  *)

Sound == Sources /\ Running /\ SomeImage /\ Requested /\ Progress

(* Steps that write nothing.                                               *)
LEMMA QuietStep ==
  ASSUME UpdateInv,
         TryRecovery \/ Loader \/ EraseDone \/ Starting \/ EraseFw
           \/ (\E c \in {"load_fw", "recovery"} : Ask(c)) \/ UNCHANGED vars
  PROVE  Sound'
<1> USE DEF UpdateInv, Sound, Sources, Running, AppPhases, SomeImage, Requested, Progress
<1>1. CASE TryRecovery
  <2>1. UNCHANGED flash
    BY <1>1 DEF TryRecovery
  <2> QED
    BY <1>1, <2>1, SameFlash DEF TryRecovery, Start
<1>2. CASE Loader
  <2>1. CASE NoRecovery
    BY <2>1, SameFlash DEF NoRecovery
  <2>2. CASE RecoveryFailed
    BY <2>2, SameFlash DEF RecoveryFailed
  <2>3. CASE Checked
    BY <2>3, SameFlash, ImagesAssumption DEF Checked
  <2>4. CASE LoadFailed
    BY <2>4, SameFlash DEF LoadFailed
  <2>5. CASE Hang
    BY <2>5, SameFlash DEF Hang, vars, Copied, Page, Whole
  <2>6. CASE RunRecovery \/ CannotLoadFw \/ NoCommand \/ RunLoaded
    <3>1. UNCHANGED flash
      BY <2>6 DEF RunRecovery, CannotLoadFw, NoCommand, RunLoaded, RunApp
    <3> QED
      BY <2>6, <3>1, SameFlash DEF RunRecovery, CannotLoadFw, NoCommand, RunLoaded, RunApp, Done
  <2>7. CASE Repair
    <3>1. UNCHANGED flash
      BY <2>7 DEF Repair
    <3> QED
      BY <2>7, <3>1, SameFlash DEF Repair, Start
  <2>8. CASE LoadFw
    <3>1. UNCHANGED flash
      BY <2>8 DEF LoadFw
    <3> QED
      BY <2>8, <3>1, SameFlash DEF LoadFw, Start, MayLoad
  <2>9. CASE Fatal
    <3>1. UNCHANGED flash
      BY <2>9 DEF Fatal
    <3> QED
      BY <2>9, <3>1, SameFlash DEF Fatal, Start
  <2> QED
    BY <1>2, <2>1, <2>2, <2>3, <2>4, <2>5, <2>6, <2>7, <2>8, <2>9 DEF Loader
<1>3. CASE EraseDone
  <2>1. UNCHANGED flash
    BY <1>3 DEF EraseDone
  <2>2. job.to = "internal" => Copied'
    <3> SUFFICES ASSUME job.to = "internal", NEW w \in Whole(flash[job.from][Header])'
                 PROVE  ~(Page(w) < 0)
      BY <1>3 DEF EraseDone, Copied
    <3>1. w \in Nat
      BY ImagesAssumption DEF Whole
    <3> QED
      BY <3>1, PageOfWord
  <2>3. Sources' /\ Running' /\ SomeImage' /\ Requested'
    BY <1>3, <2>1, SameFlash DEF EraseDone
  <2>4. Progress'
    BY <1>3, <2>1, <2>2, SameFlash DEF EraseDone
  <2> QED
    BY <2>3, <2>4
<1>4. CASE Starting
  <2>1. UNCHANGED flash
    BY <1>4 DEF Starting, InitFw, Stored, Self, ErasedFw
  <2>2. CASE InitFw
    BY <2>1, <2>2, SameFlash DEF InitFw, Start, AfterInit
  <2>3. CASE Stored
    BY <2>1, <2>3, SameFlash DEF Stored, AfterInit
  <2>4. CASE Self
    BY <2>1, <2>4, SameFlash DEF Self, Start
  <2>5. CASE ErasedFw
    BY <2>1, <2>5, SameFlash DEF ErasedFw
  <2> QED
    BY <1>4, <2>2, <2>3, <2>4, <2>5 DEF Starting
<1>5. CASE EraseFw
  BY <1>5, SameFlash DEF EraseFw, Start
<1>6. CASE \E c \in {"load_fw", "recovery"} : Ask(c)
  BY <1>6, SameFlash DEF Ask
<1>7. CASE UNCHANGED vars
  BY <1>7, SameFlash DEF vars, Copied, Page, Whole
<1> QED
  BY <1>1, <1>2, <1>3, <1>4, <1>5, <1>6, <1>7

(* A step of the loader or the application that changes the area of its    *)
(* job leaves the image of last resort alone.                              *)
LEMMA SafeChange ==
  ASSUME UpdateInv, at \in {"erase", "copy"},
         \A a \in Areas \ {job.to} : flash'[a] = flash[a],
         UNCHANGED <<job, asked>>, at' \in {"erase", "copy"}, at' = "copy" => at = "copy"
  PROVE  Sources' /\ SomeImage'
<1>1. CASE job.to = "internal"
  <2>1. (CrcOK("fw")' <=> CrcOK("fw")) /\ (CrcOK("rec")' <=> CrcOK("rec"))
    BY <1>1, SameArea DEF Areas
  <2> QED
    BY <1>1, <2>1 DEF UpdateInv, Sources, SomeImage
<1>2. CASE job.to # "internal"
  <2>1. CrcOK("internal")' <=> CrcOK("internal")
    BY <1>2, SameArea DEF Areas
  <2> QED
    BY <1>2, <2>1 DEF UpdateInv, Sources, SomeImage
<1> QED
  BY <1>1, <1>2

LEMMA EraseSound ==
  ASSUME UpdateInv, EraseStep
  PROVE  Sound'
<1>1. \A a \in Areas \ {job.to} : flash'[a] = flash[a]
  BY DEF EraseStep, UpdateInv, TypeOK
<1>2. Sources' /\ SomeImage'
  BY <1>1, SafeChange DEF EraseStep
<1>3. asked' = asked /\ (~asked => CrcOK("internal")')
  <2>1. ~asked => job.to # "internal"
    BY DEF UpdateInv, Sources, EraseStep
  <2> QED
    BY <1>1, <2>1, SameArea DEF UpdateInv, Requested, EraseStep, Areas
<1> QED
  BY <1>2, <1>3 DEF Sound, UpdateInv, Running, AppPhases, Requested, Progress, EraseStep

LEMMA CopySound ==
  ASSUME UpdateInv, CopyStep
  PROVE  Sound'
<1>1. \A a \in Areas \ {job.to} : flash'[a] = flash[a]
  BY DEF CopyStep, UpdateInv, TypeOK
<1>2. Sources' /\ SomeImage'
  BY <1>1, SafeChange DEF CopyStep
<1>3. asked' = asked /\ (~asked => CrcOK("internal")')
  <2>1. ~asked => job.to # "internal"
    BY DEF UpdateInv, Sources, CopyStep
  <2> QED
    BY <1>1, <2>1, SameArea DEF UpdateInv, Requested, CopyStep, Areas
<1>4. faults = 0 /\ job.to = "internal" => Copied'
  <2> SUFFICES ASSUME faults = 0, job.to = "internal",
                      NEW w \in Whole(flash[job.from][Header])',
                      Page(w) < i + 1
               PROVE  flash'["internal"][w] = flash'[job.from][w]
    BY DEF CopyStep, Copied, Page
  <2>1. job.from \in {"fw", "rec"} /\ CrcOK(job.from)
    BY DEF UpdateInv, Sources, CopyStep
  <2>2. flash'[job.from] = flash[job.from]
    BY <2>1, <1>1 DEF Areas
  <2>3. flash[job.from][Header] \in Images
    BY <2>1 DEF CrcOK
  <2>4. w \in Whole(flash[job.from][Header]) /\ w \in Words /\ w \in Nat
    BY <2>2, <2>3, ImagesAssumption DEF CopyStep, Whole, Words
  <2>5. flash'["internal"] = [u \in Words |-> IF u \in OnPage(i) THEN flash[job.from][u]
                                                                 ELSE flash["internal"][u]]
    BY DEF CopyStep, Chunk, UpdateInv, TypeOK, Areas
  <2>6. CASE Page(w) = i
    BY <2>2, <2>4, <2>5, <2>6 DEF OnPage
  <2>7. CASE Page(w) < i
    <3>1. flash["internal"][w] = flash[job.from][w]
      BY <2>4, <2>7 DEF UpdateInv, Progress, Copied, CopyStep
    <3> QED
      BY <2>2, <2>4, <2>5, <3>1
  <2> QED
    BY <2>4, <2>6, <2>7, PageOfWord DEF UpdateInv, TypeOK
<1> QED
  BY <1>2, <1>3, <1>4 DEF Sound, UpdateInv, Running, AppPhases, Requested, Progress, CopyStep

LEMMA FaultSound ==
  ASSUME UpdateInv, CopyFault
  PROVE  Sound'
<1>1. \A a \in Areas \ {job.to} : flash'[a] = flash[a]
  BY DEF CopyFault, Damaged, UpdateInv, TypeOK
<1>2. Sources' /\ SomeImage'
  BY <1>1, SafeChange DEF CopyFault
<1>3. asked' = asked /\ (~asked => CrcOK("internal")')
  <2>1. ~asked => job.to # "internal"
    BY DEF UpdateInv, Sources, CopyFault
  <2> QED
    BY <1>1, <2>1, SameArea DEF UpdateInv, Requested, CopyFault, Areas
<1>4. faults' # 0
  BY ImagesAssumption DEF CopyFault, UpdateInv, TypeOK
<1> QED
  BY <1>2, <1>3, <1>4 DEF Sound, UpdateInv, Running, AppPhases, Requested, Progress, CopyFault

(* At its end a copy to the program memory is whole, if no write failed.   *)
LEMMA CopyDoneSound ==
  ASSUME UpdateInv, CopyDone
  PROVE  Sound'
<1>1. UNCHANGED flash
  BY DEF CopyDone
<1>2. faults = 0 /\ job.to = "internal" => CrcOK("internal")
  <2> SUFFICES ASSUME faults = 0, job.to = "internal" PROVE CrcOK("internal")
    OBVIOUS
  <2> DEFINE v == flash[job.from][Header]
  <2>1. job.from \in {"fw", "rec"} /\ CrcOK(job.from) /\ i \in Nat
    BY DEF UpdateInv, TypeOK, Sources, CopyDone
  <2>2. v \in Images /\ \A w \in Whole(v) : flash[job.from][w] = v
    BY <2>1 DEF CrcOK
  <2>3. ~(i \in Pages /\ InCopy(i, v))
    BY DEF CopyDone, MoreToCopy
  <2>4. \A w \in Whole(v) : flash["internal"][w] = flash[job.from][w]
    <3>1. Copied
      BY DEF UpdateInv, Progress, CopyDone
    <3> QED
      BY <3>1, <2>1, <2>2, <2>3, PagesCover DEF Copied
  <2>5. flash["internal"][Header] = v
    BY <2>2, <2>4, HeaderIsWord
  <2> QED
    BY <2>2, <2>4, <2>5 DEF CrcOK
<1>3. SomeImage' /\ Requested' /\ Sources' /\ Running'
  BY <1>1, SameFlash DEF CopyDone, UpdateInv, Sources, SomeImage, Requested, Running, AppPhases
<1>4. Progress'
  BY <1>1, <1>2, SameFlash DEF CopyDone, UpdateInv, Progress, Sources
<1> QED
  BY <1>3, <1>4 DEF Sound

(* The application writes to the partition while it runs itself.           *)
LEMMA WriteSound ==
  ASSUME UpdateInv, NEW w \in Words, NEW v \in Images, WriteFw(w, v)
  PROVE  Sound'
<1>1. flash'["internal"] = flash["internal"]
  BY DEF WriteFw, UpdateInv, TypeOK, Areas
<1>2. CrcOK("internal") /\ CrcOK("internal")'
  BY <1>1, SameArea DEF WriteFw, UpdateInv, Running, AppPhases
<1> QED
  BY <1>2 DEF Sound, WriteFw, UpdateInv, Sources, SomeImage, Running, Requested, Progress

(* A reset spoils at most the area that is being replaced.                 *)
LEMMA ResetSound ==
  ASSUME UpdateInv, NEW cold \in BOOLEAN, Reset(cold)
  PROVE  Sound'
<1>1. CASE UNCHANGED flash
  BY <1>1, SameFlash DEF Reset, NoJob, Sound, UpdateInv, Sources, SomeImage, Running, AppPhases,
                         Requested, Progress
<1>2. CASE Chunk # {} /\ flash' = Damaged
  <2>1. at \in {"erase", "copy"}
    BY <1>2 DEF Chunk
  <2>2. \A a \in Areas \ {job.to} : flash'[a] = flash[a]
    BY <1>2 DEF Damaged, UpdateInv, TypeOK
  <2>3. SomeImage' /\ (~asked => CrcOK("internal")')
    <3>1. CASE job.to = "internal"
      <4>1. (CrcOK("fw")' <=> CrcOK("fw")) /\ (CrcOK("rec")' <=> CrcOK("rec"))
        BY <2>2, <3>1, SameArea DEF Areas
      <4> QED
        BY <2>1, <3>1, <4>1 DEF UpdateInv, Sources, SomeImage
    <3>2. CASE job.to # "internal"
      <4>1. CrcOK("internal")' <=> CrcOK("internal")
        BY <2>2, <3>2, SameArea DEF Areas
      <4> QED
        BY <2>1, <3>2, <4>1 DEF UpdateInv, Sources, SomeImage
    <3> QED
      BY <3>1, <3>2
  <2> QED
    BY <2>3 DEF Reset, Sound, UpdateInv, Sources, Running, AppPhases, Requested, Progress
<1> QED
  BY <1>1, <1>2 DEF Reset

LEMMA InvStep == UpdateInv /\ [Next]_vars => UpdateInv'
<1> SUFFICES ASSUME UpdateInv, [Next]_vars PROVE UpdateInv'
  OBVIOUS
<1>1. TypeOK'
  BY UpdateTypeStep DEF UpdateInv
<1>2. Sound'
  BY QuietStep, EraseSound, CopySound, FaultSound, CopyDoneSound, WriteSound, ResetSound
     DEF Next, Writing
<1> QED
  BY <1>1, <1>2 DEF UpdateInv, Sound

LEMMA UpdateInvariance == Spec => []UpdateInv
  BY InitInv, InvStep, PTL DEF Spec

-----------------------------------------------------------------------------
(* Theorems.                                                               *)

(* Every variable keeps its type, whatever is written, cut short or failed *)
(* in the loader, ffs_fw.c and the recovery firmware.                      *)
THEOREM UpdateTypes == Spec => []TypeOK
<1>1. UpdateInv => TypeOK
  BY DEF UpdateInv
<1> QED
  BY <1>1, UpdateInvariance, PTL

(* However often updates, repairs and first-boot copies are interrupted,   *)
(* some area holds a complete image, and the loader's while(1) is reached  *)
(* only if the flash did not take a write.                                 *)
THEOREM NeverBrickedHolds == Spec => []NeverBricked
<1>1. UpdateInv => NeverBricked
  <2> SUFFICES ASSUME UpdateInv PROVE NeverBricked
    OBVIOUS
  <2>1. \E a \in Areas : Complete(a)
    BY GoodIsComplete DEF UpdateInv, SomeImage, Areas
  <2>2. at = "dead" => faults > 0
    BY ImagesAssumption DEF UpdateInv, TypeOK, Progress
  <2> QED
    BY <2>1, <2>2 DEF NeverBricked
<1> QED
  BY <1>1, UpdateInvariance, PTL

(* The application is never started from, and never runs from, a program   *)
(* memory that does not hold a complete image.                             *)
THEOREM AppIntactHolds == Spec => []AppIntact
<1>1. UpdateInv => AppIntact
  BY GoodIsComplete DEF UpdateInv, Running, AppPhases, AppIntact
<1> QED
  BY <1>1, UpdateInvariance, PTL

(* The loader touches the program memory only to serve a request, or to    *)
(* finish what a request began.                                            *)
THEOREM OnlyWhenAskedHolds == Spec => OnlyWhenAsked
<1>1. UpdateInv /\ [Next]_vars => [flash'["internal"] # flash["internal"] => asked]_vars
  <2> SUFFICES ASSUME UpdateInv, Next, flash'["internal"] # flash["internal"] PROVE asked
    BY DEF vars
  <2>1. CASE Writing
    <3>1. at \in {"erase", "copy"} /\ job.to = "internal"
      BY <2>1 DEF Writing, EraseStep, EraseDone, CopyStep, CopyFault, CopyDone, Damaged,
                  UpdateInv, TypeOK, Areas
    <3> QED
      BY <3>1 DEF UpdateInv, Sources
  <2>2. CASE \E w \in Words, v \in Images : WriteFw(w, v)
    BY <2>2 DEF WriteFw, UpdateInv, TypeOK, Areas
  <2>3. CASE \E cold \in BOOLEAN : Reset(cold)
    <3>1. at \in {"erase", "copy"} /\ job.to = "internal"
      BY <2>3 DEF Reset, Damaged, Chunk, UpdateInv, TypeOK, Areas
    <3> QED
      BY <3>1 DEF UpdateInv, Sources
  <2>4. CASE Loader
    BY <2>4 DEF Loader, NoRecovery, RunRecovery, RecoveryFailed, Repair, Checked, LoadFw,
                CannotLoadFw, NoCommand, RunLoaded, LoadFailed, Fatal, Hang, RunApp, vars
  <2>5. CASE TryRecovery \/ Starting \/ EraseFw \/ \E c \in {"load_fw", "recovery"} : Ask(c)
    BY <2>5 DEF TryRecovery, Starting, InitFw, Stored, Self, ErasedFw, EraseFw, Ask
  <2> QED
    BY <2>1, <2>2, <2>3, <2>4, <2>5 DEF Next
<1> QED
  BY <1>1, UpdateInvariance, PTL DEF Spec, OnlyWhenAsked
-----------------------------------------------------------------------------
(* The size of the firmware file and what is in its partition, as long as  *)
(* no write failed.                                                        *)

(* The words of the pages that have been erased.                           *)
Erased == \A w \in Words : Page(w) < i => flash["fw"][w] = Blank
AllErased == \A w \in Words : flash["fw"][w] = Blank

(* The words of the running image that the application has stored.         *)
StoredWords ==
  \A w \in Whole(flash["internal"][Header]) : w < i => flash["fw"][w] = flash["internal"][w]

Partition ==
  faults = 0 =>
    /\ at = "app" /\ fw_size = 0 => AllErased
    /\ at = "erased" => AllErased
    /\ at = "stored" => CrcOK("fw")
    /\ at = "self" => fw_size # 0
    /\ at \in {"erase", "copy"} /\ job.to = "rec" =>
         job.from = "internal" /\ job.then = "app" /\ fw_size # 0
    /\ at \in {"erase", "copy"} /\ job.to = "fw" =>
         IF job.from = "none" THEN job.then = "erased" /\ Erased ELSE job.then = "stored"
    /\ at = "copy" /\ job.to = "fw" => StoredWords

LEMMA SizePositive ==
  ASSUME NEW a \in Areas
  PROVE  SizeOf(a) # 0
  BY ImagesAssumption DEF SizeOf

LEMMA InitPartition == Init => Partition
  BY DEF Init, Partition

(* Steps that do not write, and begin or end no job.                       *)
LEMMA IdlePartition ==
  ASSUME UpdateInv, Partition,
         Loader \/ TryRecovery \/ (\E c \in {"load_fw", "recovery"} : Ask(c)) \/ UNCHANGED vars
  PROVE  Partition'
<1> USE DEF Partition
<1>1. CASE Loader
  <2>1. CASE Hang
    BY <2>1, SameFlash DEF Hang, vars, AllErased, Erased, StoredWords, Page, Whole
  <2>2. CASE ~Hang
    BY <1>1, <2>2 DEF Loader, NoRecovery, RunRecovery, RecoveryFailed, Repair, Checked, LoadFw,
                CannotLoadFw, NoCommand, RunLoaded, LoadFailed, Fatal, RunApp, Start
  <2> QED
    BY <2>1, <2>2
<1>2. CASE TryRecovery
  BY <1>2 DEF TryRecovery, Start
<1>3. CASE \E c \in {"load_fw", "recovery"} : Ask(c)
  BY <1>3 DEF Ask, AllErased
<1>4. CASE UNCHANGED vars
  BY <1>4, SameFlash DEF vars, AllErased, Erased, StoredWords, Page, Whole
<1> QED
  BY <1>1, <1>2, <1>3, <1>4

(* The application starts, looks at its partitions and erases one.         *)
LEMMA AppPartition ==
  ASSUME UpdateInv, Partition, Starting \/ EraseFw
  PROVE  Partition'
<1> USE DEF Partition
<1>1. CASE InitFw
  <2>1. SizeOf("fw") # 0
    BY SizePositive DEF Areas
  <2> QED
    BY <1>1, <2>1 DEF InitFw, Start, AfterInit
<1>2. CASE Stored
  <2>1. SizeOf("internal") # 0
    BY SizePositive DEF Areas
  <2> QED
    BY <1>2, <2>1 DEF Stored, AfterInit
<1>3. CASE Self
  BY <1>3 DEF Self, Start
<1>4. CASE ErasedFw
  BY <1>4 DEF ErasedFw, AllErased
<1>5. CASE EraseFw
  <2>1. \A w \in Words : ~(Page(w) < 0)
    BY PageOfWord, ImagesAssumption DEF Words
  <2>2. Erased'
    BY <1>5, <2>1 DEF EraseFw, Start, Erased, Page
  <2> QED
    BY <1>5, <2>2 DEF EraseFw, Start
<1> QED
  BY <1>1, <1>2, <1>3, <1>4, <1>5 DEF Starting

(* Each page that is erased is blank, and at the end all are.              *)
LEMMA ErasePartition ==
  ASSUME UpdateInv, Partition, EraseStep
  PROVE  Partition'
<1>1. faults = 0 /\ job.to = "fw" /\ job.from = "none" => Erased'
  <2> SUFFICES ASSUME faults = 0, job.to = "fw", job.from = "none",
                      NEW w \in Words, Page(w) < i + 1
               PROVE  flash'["fw"][w] = Blank
    BY DEF EraseStep, Erased, Page
  <2>1. flash'["fw"] = [u \in Words |-> IF u \in OnPage(i) THEN Blank ELSE flash["fw"][u]]
    BY DEF EraseStep, Chunk, UpdateInv, TypeOK, Areas
  <2>2. w \in Nat /\ i \in Nat
    BY DEF Words, UpdateInv, TypeOK
  <2>3. CASE Page(w) = i
    BY <2>1, <2>3 DEF OnPage
  <2>4. CASE Page(w) < i
    <3>1. flash["fw"][w] = Blank
      BY <2>4 DEF Partition, EraseStep, Erased
    <3> QED
      BY <2>1, <3>1
  <2> QED
    BY <2>2, <2>3, <2>4, PageOfWord
<1> QED
  BY <1>1 DEF Partition, EraseStep

LEMMA EraseDonePartition ==
  ASSUME UpdateInv, Partition, EraseDone
  PROVE  Partition'
<1>1. UNCHANGED flash
  BY DEF EraseDone
<1>2. faults = 0 /\ job.to = "fw" /\ job.from = "none" => AllErased'
  <2> SUFFICES ASSUME faults = 0, job.to = "fw", job.from = "none", NEW w \in Words
               PROVE  flash["fw"][w] = Blank
    BY <1>1 DEF AllErased
  <2>1. w \in Nat /\ i \in Nat /\ i \notin Pages
    BY DEF Words, UpdateInv, TypeOK, EraseDone, MoreToErase
  <2>2. Page(w) < i
    BY <2>1, PageOfWord, PagesContiguous
  <2> QED
    BY <2>2 DEF Partition, EraseDone, Erased
<1>3. StoredWords'
  <2>1. \A w \in Whole(flash["internal"][Header]) : ~(w < 0)
    BY DEF Whole
  <2> QED
    BY <1>1, <2>1 DEF EraseDone, StoredWords, Whole
<1>4. job.to = "internal" => job.then \in {"recovery", "rescue", "check", "loaded"} /\ job.from # "none"
  BY DEF UpdateInv, Sources, EraseDone
<1>5. job.to \in Areas
  BY DEF UpdateInv, TypeOK
<1> QED
  BY <1>1, <1>2, <1>3, <1>4, <1>5 DEF Partition, EraseDone, Areas

LEMMA CopyPartition ==
  ASSUME UpdateInv, Partition, CopyStep
  PROVE  Partition'
<1>1. faults = 0 /\ job.to = "fw" => StoredWords'
  <2> SUFFICES ASSUME faults = 0, job.to = "fw",
                      NEW w \in Whole(flash["internal"][Header])', w < i + 1
               PROVE  flash'["fw"][w] = flash'["internal"][w]
    BY DEF CopyStep, StoredWords
  <2>1. job.from = "internal" /\ CrcOK("internal")
    BY DEF UpdateInv, Sources, CopyStep
  <2>2. flash'["internal"] = flash["internal"]
    BY DEF CopyStep, UpdateInv, TypeOK, Areas
  <2>3. w \in Whole(flash["internal"][Header]) /\ w \in Words /\ w \in Nat /\ i \in Nat
    BY <2>1, <2>2, ImagesAssumption DEF CopyStep, CrcOK, Whole, Words, UpdateInv, TypeOK
  <2>4. flash'["fw"] = [u \in Words |-> IF u = i THEN flash["internal"][u] ELSE flash["fw"][u]]
    BY <2>1 DEF CopyStep, Chunk, UpdateInv, TypeOK, Areas
  <2>5. CASE w = i
    BY <2>2, <2>3, <2>4, <2>5
  <2>6. CASE w < i
    <3>1. flash["fw"][w] = flash["internal"][w]
      BY <2>3, <2>6 DEF Partition, CopyStep, StoredWords
    <3> QED
      BY <2>2, <2>3, <2>4, <3>1
  <2> QED
    BY <2>3, <2>5, <2>6
<1>2. job.from # "none"
  BY DEF UpdateInv, Sources, CopyStep, TypeOK
<1> QED
  BY <1>1, <1>2 DEF Partition, CopyStep

(* What the application has stored has a good CRC.                         *)
LEMMA CopyDonePartition ==
  ASSUME UpdateInv, Partition, CopyDone
  PROVE  Partition'
<1>1. UNCHANGED flash
  BY DEF CopyDone
<1>2. faults = 0 /\ job.to = "fw" => CrcOK("fw")
  <2> SUFFICES ASSUME faults = 0, job.to = "fw" PROVE CrcOK("fw")
    OBVIOUS
  <2> DEFINE v == flash["internal"][Header]
  <2>1. job.from = "internal" /\ v \in Images /\ \A w \in Whole(v) : flash["internal"][w] = v
    BY DEF UpdateInv, Sources, CopyDone, CrcOK
  <2>2. ~(i < Length[v]) /\ i \in Nat /\ Length[v] \in Nat
    BY <2>1, ImagesAssumption DEF CopyDone, MoreToCopy, UpdateInv, TypeOK
  <2>3. \A w \in Whole(v) : w < i
    BY <2>2 DEF Whole
  <2>4. \A w \in Whole(v) : flash["fw"][w] = v
    BY <2>1, <2>3 DEF Partition, CopyDone, StoredWords
  <2> QED
    BY <2>1, <2>4, HeaderIsWord DEF CrcOK
<1>3. job.to = "internal" => job.then \in {"recovery", "rescue", "check", "loaded"}
  BY DEF UpdateInv, Sources, CopyDone
<1>4. job.to \in Areas /\ job.from # "none"
  BY DEF UpdateInv, TypeOK, Sources, CopyDone
<1> QED
  BY <1>1, <1>2, <1>3, <1>4, SameFlash DEF Partition, CopyDone, Areas

LEMMA PartitionStep == UpdateInv /\ Partition /\ [Next]_vars => Partition'
<1> SUFFICES ASSUME UpdateInv, Partition, [Next]_vars PROVE Partition'
  OBVIOUS
<1>1. CASE CopyFault
  BY <1>1, ImagesAssumption DEF CopyFault, UpdateInv, TypeOK, Partition
<1>2. ASSUME NEW w \in Words, NEW v \in Images, WriteFw(w, v) PROVE Partition'
  <2>1. w + 1 # 0
    BY ImagesAssumption DEF Words
  <2> QED
    BY <1>2, <2>1 DEF WriteFw, Partition
<1>3. ASSUME NEW cold \in BOOLEAN, Reset(cold) PROVE Partition'
  BY <1>3 DEF Reset, Partition
<1> QED
  BY <1>1, <1>2, <1>3, IdlePartition, AppPartition, ErasePartition, EraseDonePartition,
     CopyPartition, CopyDonePartition DEF Next, Writing

(* When the size of the firmware file is 0, which ffs_fw_v_erase takes for *)
(* "already erased", the partition is blank, unless a write failed: over   *)
(* resets in the middle of an erase, of a copy and of a first start.       *)
THEOREM ErasedIsBlankHolds == Spec => []ErasedIsBlank
<1>1. Partition => ErasedIsBlank
  BY DEF Partition, ErasedIsBlank, AllErased
<1>2. Spec => []Partition
  BY InitPartition, PartitionStep, UpdateInvariance, PTL DEF Spec
<1> QED
  BY <1>1, <1>2, PTL

-----------------------------------------------------------------------------
(* The configuration store: the inductive invariant.                       *)

Assumptions == ParamsAssumption /\ StoreAssumption

Storing == phase \in {"set", "body", "written"}

(* Jobs: a parameter that is set, or what is left of the defaults.         *)
Write == UNION {[param : {p}, val : [0 .. NBlocks[p] - 1 -> Values]] : p \in Params}

Resetting == Storing /\ todo[Len(todo)].param = Version
Place == Len(DefaultSeq) + 2 - Len(todo)

Jobs ==
  /\ todo \in Seq(Write)
  /\ Storing => nb <= NBlocks[Param]
  /\ Storing /\ ~Resetting => Len(todo) = 1
  /\ Resetting =>
       /\ Len(todo) <= Len(DefaultSeq) + 1
       /\ \A j \in 1 .. Len(todo) : todo[j] = DefaultJob[j + Place - 1]

(* Loops begin at the first block, and only what has no default is erased. *)
Control ==
  /\ phase \in {"idle", "set", "body", "written"} => slot = 1
  /\ phase \in {"idle", "body", "written"} => era = None
  /\ target \notin Defaults

(* A block is free, or the one valid copy of its key.                      *)
Same(s, t) == ee[s].id = ee[t].id /\ ee[s].n = ee[t].n
Alone(s) == \A t \in Slots : Same(s, t) => t = s
Proper(s) == ee[s].id = Empty \/ (Valid(ee[s]) /\ Alone(s))

(* The blocks that are not known to be proper.                             *)
Suspects ==
  CASE phase = "clean"   -> {era} \cup {s \in Slots : s >= slot}
    [] phase = "body"    -> {dst}
    [] phase = "written" -> {dst, old}
    [] OTHER          -> {era}

(* The others are, and the suspects are what the code takes them for.      *)
Tidy ==
  /\ \A s \in Slots \ Suspects : Proper(s)
  /\ era # None => ee[era].id = Torn
  /\ phase = "wipe" => \A s \in Slots : s < slot => s = era \/ ee[s].id = Empty
  /\ phase = "body" =>
       /\ ee[dst] = BodyOf(New) /\ dst # old
       /\ \A s \in Slots : ee[s].id = Param /\ ee[s].n = nb <=> s = old
  /\ phase = "written" =>
       /\ ee[dst] = New /\ dst # old
       /\ \A s \in Slots : ee[s].id = Param /\ ee[s].n = nb <=> s \in {dst, old} \ {None}

(* What was written of the parameter.                                      *)
WrittenSoFar ==
  Storing => \A m \in 0 .. nb - 1 :
               \E s \in Slots : ee[s].id = Param /\ ee[s].n = m /\ ee[s].val = Head(todo).val[m]

(* The version is stored once, and blocks that matter to it stay valid.    *)
Held(p, n) == \E s \in Slots : ee[s].id = p /\ ee[s].n = n
AllHeld(p) == \A n \in 0 .. NBlocks[p] - 1 : Held(p, n)
Seals(s) == ee[s].id = Version /\ ee[s].val \in {current, current - 1}

Sealed ==
  /\ \A s, t \in Slots : ee[s].id = Version /\ ee[t].id = Version => s = t
  /\ \A s \in Slots : ee[s].id = Version => ee[s].val \in 1 .. current
  /\ \A s \in Slots : ee[s].id \in Defaults \cup {Version} => Valid(ee[s])
  /\ ~wiping => \A s \in Slots : Seals(s) => phase # "wipe" /\ \A p \in Defaults : AllHeld(p)

(* While the defaults are written, nothing else is stored.                 *)
Zeroed(s) == ee[s].id \in Defaults /\ ee[s].val = Zero

Resets ==
  Resetting =>
    /\ era = None
    /\ \A j \in 1 .. Place - 1 : AllHeld(DefaultSeq[j])
    /\ \A s \in Slots :
         \/ ee[s].id = Empty \/ Zeroed(s)
         \/ phase = "body" /\ s = dst
         \/ Param = Version /\ ee[s].id = Version
    /\ phase = "body" \/ (phase = "set" /\ nb = 0) => \A s \in Slots : ee[s].id # Version
    /\ phase \in {"body", "written"} => old = None

Parts == Jobs /\ Control /\ Tidy /\ WrittenSoFar
IInv == StoreTypeOK /\ Parts /\ Sealed /\ Resets
-----------------------------------------------------------------------------
(* The operators.                                                          *)

LEMMA LeastIsIn ==
  ASSUME Assumptions, NEW S \in SUBSET Slots, S # {}
  PROVE  Least(S) \in S /\ \A t \in S : Least(S) <= t
<1>1. S \subseteq Nat
  BY DEF Slots
<1> DEFINE R == OpToRel(<, Nat)
<1>2. IsWellFoundedOn(R, Nat)
  BY NatLessThanWellFounded
<1>3. \A x, y \in Nat : x < y => <<x, y>> \in R
  BY DEF OpToRel
<1> HIDE DEF R
<1>5. PICK x \in S : \A y \in S : ~(<<y, x>> \in R)
  BY <1>1, <1>2, WFMin
<1>4. \A y \in S : x <= y
  <2> SUFFICES ASSUME NEW y \in S PROVE x <= y
    OBVIOUS
  <2>1. x \in Nat /\ y \in Nat /\ ~(y < x)
    BY <1>1, <1>3, <1>5
  <2> QED
    BY <2>1
<1> QED
  BY <1>4 DEF Least

LEMMA LeastIs ==
  ASSUME Assumptions, NEW S \in SUBSET Slots
  PROVE  /\ Least(S) = None <=> S = {}
         /\ S # {} => Least(S) \in S
         /\ Least(S) \in Slots \cup {None}
<1>1. None \notin Slots
  BY DEF Slots, None
<1>2. CASE S = {}
  BY <1>2 DEF Least
<1>3. CASE S # {}
  <2>1. Least(S) \in S
    BY <1>3, LeastIsIn
  <2> QED
    BY <1>1, <1>3, <2>1
<1> QED
  BY <1>2, <1>3

LEMMA DefaultJobIs ==
  ASSUME Assumptions, StoreTypeOK
  PROVE  /\ DefaultJob \in Seq(Write) /\ Len(DefaultJob) = Len(DefaultSeq) + 1
         /\ \A j \in 1 .. Len(DefaultSeq) :
              /\ DefaultSeq[j] \in Params \ {Version} /\ DefaultSeq[j] \in Defaults
              /\ DefaultJob[j] = [param |-> DefaultSeq[j], val |-> Zeroes(DefaultSeq[j])]
         /\ DefaultJob[Len(DefaultSeq) + 1] = VersionWrite
<1> DEFINE L == Len(DefaultSeq)
<1>1. L \in Nat /\ DefaultSeq \in [1 .. L -> Params \ {Version}]
  BY DEF Assumptions, ParamsAssumption
<1>2. \A j \in 1 .. L : [param |-> DefaultSeq[j], val |-> Zeroes(DefaultSeq[j])] \in Write
  <2> SUFFICES ASSUME NEW j \in 1 .. L
               PROVE  [param |-> DefaultSeq[j], val |-> Zeroes(DefaultSeq[j])] \in Write
    OBVIOUS
  <2>1. DefaultSeq[j] \in Params
    BY <1>1
  <2>2. Zeroes(DefaultSeq[j]) \in [0 .. NBlocks[DefaultSeq[j]] - 1 -> Values]
    BY DEF Zeroes, Values, Assumptions, StoreAssumption
  <2> QED
    BY <2>1, <2>2 DEF Write
<1>3. VersionWrite \in Write
  <2>1. [n \in {0} |-> current] \in [0 .. NBlocks[Version] - 1 -> Values]
    BY DEF StoreTypeOK, Values, Assumptions, ParamsAssumption
  <2> QED
    BY <2>1 DEF VersionWrite, Write, Assumptions, ParamsAssumption
<1>4. DefaultWrites \in Seq(Write) /\ Len(DefaultWrites) = L
  BY <1>1, <1>2 DEF DefaultWrites
<1>5. <<VersionWrite>> \in Seq(Write)
  BY <1>3
<1>6. \A j \in 1 .. L : DefaultWrites[j] = [param |-> DefaultSeq[j], val |-> Zeroes(DefaultSeq[j])]
  BY <1>1 DEF DefaultWrites
<1>7. /\ Len(DefaultJob) = L + 1 /\ DefaultJob \in Seq(Write)
      /\ \A j \in 1 .. L : DefaultJob[j] = DefaultWrites[j]
      /\ DefaultJob[L + 1] = VersionWrite
  BY <1>1, <1>4, <1>5 DEF DefaultJob
<1> QED
  BY <1>1, <1>6, <1>7 DEF Defaults

(* What is being written.                                                  *)
LEMMA WriteIs ==
  ASSUME NEW w \in Write
  PROVE  /\ w = [param |-> w.param, val |-> w.val]
         /\ w.param \in Params /\ w.val \in [0 .. NBlocks[w.param] - 1 -> Values]
  BY DEF Write

LEMMA HeadOfJob ==
  ASSUME Assumptions, StoreTypeOK, Jobs, Storing
  PROVE  /\ todo # << >> /\ Len(todo) \in Nat \ {0} /\ Head(todo) = todo[1] /\ Param \in Params
         /\ NBlocks[Param] \in Nat \ {0}
         /\ Head(todo).val \in [0 .. NBlocks[Param] - 1 -> Values]
         /\ nb < NBlocks[Param] => New \in Block /\ New.id = Param /\ New.n = nb /\ BodyOf(New) \in Block
<1>1. todo # << >> /\ todo \in Seq(Write)
  BY DEF StoreTypeOK, Jobs, Storing
<1>2. Len(todo) \in Nat \ {0} /\ Head(todo) = todo[1] /\ Head(todo) \in Write
  BY <1>1
<1>3. Param \in Params /\ Head(todo).val \in [0 .. NBlocks[Param] - 1 -> Values]
  BY <1>2, WriteIs DEF Param
<1>4. NBlocks[Param] \in Nat \ {0}
  BY <1>3 DEF Assumptions, ParamsAssumption
<1>5. ASSUME nb < NBlocks[Param]
      PROVE  New \in Block /\ New.id = Param /\ New.n = nb /\ BodyOf(New) \in Block
  <2>1. nb \in 0 .. NBlocks[Param] - 1 /\ nb \in Nat
    BY <1>4, <1>5 DEF StoreTypeOK
  <2>2. Head(todo).val[nb] \in Values /\ type[Param] \in Types
    BY <1>3, <2>1 DEF StoreTypeOK
  <2> QED
    BY <1>3, <2>1, <2>2 DEF New, BodyOf, Block
<1> QED
  BY <1>1, <1>2, <1>3, <1>4, <1>5

-----------------------------------------------------------------------------
(* Types.                                                                  *)

LEMMA EraseType ==
  ASSUME StoreTypeOK, NEW s \in Slots, StartErase(s)
  PROVE  ee' \in [Slots -> Block] /\ era' \in Slots
  BY DEF StoreTypeOK, StartErase, Block

LEMMA BlankType ==
  ASSUME Assumptions
  PROVE  BlankBlock \in Block
  BY DEF Assumptions, StoreAssumption, BlankBlock, Block, Values

LEMMA RestartType ==
  ASSUME Assumptions, StoreTypeOK, Restart, losses < MaxLosses,
         current' \in 1 .. MaxVersion, type' \in [Params -> Types]
  PROVE  StoreTypeOK'
<1>1. 1 \in 1 .. NSlots + 1 /\ losses + 1 \in 0 .. MaxLosses
  BY DEF Assumptions, StoreAssumption, StoreTypeOK
<1>2. Slots' = Slots /\ Block' = Block
  BY DEF Slots, Block
<1> QED
  BY <1>1, <1>2 DEF Restart, StoreTypeOK, Assumptions, ParamsAssumption

LEMMA TypeStep ==
  ASSUME Assumptions, StoreTypeOK, Jobs, [StoreNext]_storeVars
  PROVE  StoreTypeOK'
<1> USE DEF firmware
<1>0. NSlots \in Nat /\ \A s \in Slots : s \in Nat /\ After(s) \in 1 .. NSlots + 1
  BY DEF Assumptions, StoreAssumption, Slots, After
<1>1. CASE FinishErase
  BY <1>1, BlankType DEF StoreTypeOK, FinishErase, Param
<1>2. CASE CleanDuplicate
  <2>1. Twins(slot) \in SUBSET Slots /\ Twins(slot) # {}
    BY <1>2 DEF CleanDuplicate, Twins
  <2>2. Least(Twins(slot)) \in Slots
    BY <2>1, LeastIs
  <2> QED
    BY <1>2, <2>2, EraseType DEF StoreTypeOK, CleanDuplicate, Param
<1>3. CASE CleanInvalid
  BY <1>3, <1>0, EraseType DEF StoreTypeOK, CleanInvalid, Param
<1>4. CASE CleanNext
  BY <1>4, <1>0 DEF StoreTypeOK, CleanNext, Param
<1>5. CASE CheckVersion
  BY <1>5, <1>0 DEF StoreTypeOK, CheckVersion, Param
<1>6. CASE Wipe
  BY <1>6, <1>0, EraseType DEF StoreTypeOK, Wipe, Param
<1>7. CASE WriteDefaults
  <2>1. DefaultJob # << >>
    BY DefaultJobIs DEF Assumptions, ParamsAssumption
  <2>2. phase' = "set" /\ todo' # << >> /\ nb' \in Nat /\ slot' \in 1 .. NSlots + 1
    BY <1>7, <1>0, <2>1 DEF WriteDefaults
  <2>3. wiping' \in BOOLEAN
    BY <1>7 DEF WriteDefaults
  <2> QED
    BY <1>7, <2>2, <2>3 DEF StoreTypeOK, WriteDefaults
<1>8. CASE SetSame
  BY <1>8 DEF StoreTypeOK, SetSame
<1>9. CASE SetFull
  BY <1>9 DEF StoreTypeOK, SetFull, EndOfParam
<1>10. CASE SetBody
  <2>1. New \in Block /\ BodyOf(New) \in Block
    BY <1>10, HeadOfJob DEF SetBody, Storing
  <2>2. get_free_block \in Slots /\ seek_block(Param, nb) \in Slots \cup {None}
    BY <1>10, LeastIs DEF SetBody, get_free_block, seek_block, Holders
  <2>3. None \notin Slots
    BY DEF Slots, None
  <2> QED
    BY <1>10, <2>1, <2>2, <2>3 DEF StoreTypeOK, SetBody, Param
<1>11. CASE SetId
  <2>1. nb < NBlocks[Param]
    BY <1>11 DEF SetId, StoreTypeOK
  <2>2. New \in Block
    BY <1>11, <2>1, HeadOfJob DEF SetId, Storing
  <2> QED
    BY <1>11, <2>2 DEF StoreTypeOK, SetId, Param
<1>12. CASE SetOld
  BY <1>12, EraseType DEF StoreTypeOK, SetOld, Param
<1>13. CASE SetDone
  BY <1>13 DEF StoreTypeOK, SetDone, EndOfParam
<1>14. CASE EraseNext
  BY <1>14, <1>0, EraseType DEF StoreTypeOK, EraseNext, Param
<1>15. CASE EraseOver
  BY <1>15, <1>0 DEF StoreTypeOK, EraseOver, Param, Assumptions, ParamsAssumption
<1>16. ASSUME NEW p \in Settable, NEW v \in [0 .. NBlocks[p] - 1 -> Data], Set(p, v)
       PROVE  StoreTypeOK'
  BY <1>16 DEF StoreTypeOK, Set
<1>17. ASSUME NEW p \in Erasable, Erase(p)
       PROVE  StoreTypeOK'
  BY <1>17 DEF StoreTypeOK, Erase, Param, Assumptions, ParamsAssumption
<1>18. CASE ResetConfig
  BY <1>18 DEF StoreTypeOK, ResetConfig, Param
<1>19. CASE PowerLoss
  BY <1>19, RestartType DEF PowerLoss, StoreTypeOK
<1>20. CASE Upgrade
  <2>1. current' \in 1 .. MaxVersion
    BY <1>20 DEF Upgrade, StoreTypeOK, Assumptions, StoreAssumption
  <2> QED
    BY <1>20, <2>1, RestartType DEF Upgrade
<1>21. CASE UNCHANGED storeVars
  BY <1>21 DEF StoreTypeOK, storeVars, control, Param
<1> QED
  BY <1>1, <1>2, <1>3, <1>4, <1>5, <1>6, <1>7, <1>8, <1>9, <1>10, <1>11, <1>12, <1>13,
     <1>14, <1>15, <1>16, <1>17, <1>18, <1>19, <1>20, <1>21
     DEF StoreNext, Code, Boot, WriteParam, Calls

-----------------------------------------------------------------------------
(* What is left to write.                                                  *)

LEMMA JobKept ==
  ASSUME Jobs, UNCHANGED <<todo, current>>, Storing' => Storing,
         Storing' => nb' <= NBlocks[Param]
  PROVE  Jobs'
<1>1. Param' = Param /\ Place' = Place /\ DefaultJob' = DefaultJob /\ (Resetting' => Resetting)
  BY DEF Param, Place, DefaultJob, DefaultWrites, VersionWrite, Resetting
<1>2. Storing' /\ Resetting => Resetting'
  BY DEF Resetting
<1> QED
  BY <1>1, <1>2 DEF Jobs

LEMMA NothingPending ==
  ASSUME ~Storing', todo' \in Seq(Write)
  PROVE  Jobs'
  BY DEF Jobs, Resetting

(* A parameter is done.                                                    *)
LEMMA JobsGoOn ==
  ASSUME Assumptions, StoreTypeOK, Jobs, EndOfParam, phase = "set", UNCHANGED current
  PROVE  /\ Jobs'
         /\ Resetting' => Resetting /\ Place' = Place + 1
<1>1. /\ todo # << >> /\ todo \in Seq(Write) /\ Len(todo) \in Nat \ {0}
      /\ NBlocks \in [Params -> Nat \ {0}]
  BY HeadOfJob DEF Storing, Jobs, Assumptions, ParamsAssumption
<1>2. /\ todo' \in Seq(Write) /\ Len(todo') = Len(todo) - 1
      /\ \A j \in 1 .. Len(todo') : todo'[j] = todo[j + 1]
  BY <1>1 DEF EndOfParam
<1>3. CASE todo' = << >>
  BY <1>2, <1>3, NothingPending DEF EndOfParam, Storing, Resetting
<1>4. CASE todo' # << >>
  <2>1. phase' = "set" /\ nb' = 0 /\ Storing /\ Storing' /\ Len(todo') \in Nat \ {0}
    BY <1>2, <1>4 DEF EndOfParam, Storing
  <2>2. todo'[Len(todo')] = todo[Len(todo)]
    BY <1>1, <1>2, <2>1
  <2>3. Resetting' /\ Resetting
    BY <1>1, <1>2, <2>1, <2>2 DEF Jobs, Resetting
  <2>4. Place \in Int /\ Place' = Place + 1 /\ DefaultJob' = DefaultJob
    BY <1>1, <1>2 DEF Place, DefaultJob, DefaultWrites, VersionWrite, Assumptions, ParamsAssumption
  <2>5. \A j \in 1 .. Len(todo') : todo'[j] = DefaultJob[j + 1 + Place - 1]
    BY <1>1, <1>2, <2>3 DEF Jobs
  <2>6. \A j \in 1 .. Len(todo') : j + 1 + Place - 1 = j + Place' - 1
    BY <1>2, <2>4
  <2>7. \A j \in 1 .. Len(todo') : todo'[j] = DefaultJob'[j + Place' - 1]
    BY <2>4, <2>5, <2>6
  <2>8. Len(todo') <= Len(DefaultSeq) + 1
    BY <1>1, <1>2, <2>3 DEF Jobs, Assumptions, ParamsAssumption
  <2>9. todo'[1] \in Write
    BY <1>2, <2>1
  <2>10. Param' \in Params
    BY <1>2, <2>1, <2>9, WriteIs DEF Param
  <2>11. nb' <= NBlocks[Param']
    BY <1>1, <2>1, <2>10
  <2> QED
    BY <1>2, <2>1, <2>3, <2>4, <2>7, <2>8, <2>11 DEF Jobs
<1> QED
  BY <1>3, <1>4

LEMMA JobsStep ==
  ASSUME Assumptions, StoreTypeOK, Jobs, [StoreNext]_storeVars
  PROVE  Jobs'
<1> USE DEF firmware, Storing
<1>0. todo \in Seq(Write) /\ Len(todo) \in Nat /\ (Storing => nb \in Nat /\ NBlocks[Param] \in Nat /\ nb <= NBlocks[Param])
  BY HeadOfJob DEF Jobs, StoreTypeOK
<1>1. CASE FinishErase \/ CleanDuplicate \/ CleanInvalid \/ CleanNext \/ CheckVersion \/ Wipe
           \/ EraseNext \/ EraseOver \/ ResetConfig
  BY <1>0, <1>1, JobKept
     DEF FinishErase, CleanDuplicate, CleanInvalid, CleanNext, CheckVersion, Wipe, EraseNext, EraseOver, ResetConfig
<1>2. CASE WriteDefaults
  <2>1. /\ todo' = DefaultJob /\ nb' = 0 /\ Storing' /\ DefaultJob' = DefaultJob
        /\ Len(DefaultSeq) \in Nat
    BY <1>2 DEF WriteDefaults, DefaultJob, DefaultWrites, VersionWrite, Assumptions, ParamsAssumption
  <2>2. /\ Len(todo') = Len(DefaultSeq) + 1 /\ todo' \in Seq(Write) /\ Place' = 1
        /\ todo'[Len(todo')].param = Version
    BY <2>1, DefaultJobIs DEF Place, VersionWrite
  <2>3. Resetting' /\ \A j \in 1 .. Len(todo') : j + 1 - 1 = j
    BY <2>1, <2>2 DEF Resetting
  <2>4. todo'[1] \in Write
    BY <2>1, <2>2
  <2>5. Param' \in Params
    BY <2>2, <2>1, <2>4, WriteIs DEF Param
  <2>6. nb' <= NBlocks[Param']
    BY <2>1, <2>5 DEF Assumptions, ParamsAssumption
  <2> QED
    BY <2>1, <2>2, <2>3, <2>6 DEF Jobs
<1>3. CASE SetSame
  BY <1>0, <1>3, JobKept DEF SetSame
<1>4. CASE SetFull \/ SetDone
  BY <1>4, JobsGoOn DEF SetFull, SetDone
<1>5. CASE SetBody \/ SetId
  BY <1>0, <1>5, JobKept DEF SetBody, SetId
<1>6. CASE SetOld
  BY <1>0, <1>6, JobKept DEF SetOld, StoreTypeOK
<1>7. ASSUME NEW p \in Settable, NEW v \in [0 .. NBlocks[p] - 1 -> Data], Set(p, v)
      PROVE  Jobs'
  <2>1. p \in Params \ {Version} /\ v \in [0 .. NBlocks[p] - 1 -> Values]
    BY DEF Values, Assumptions, ParamsAssumption
  <2>2. [param |-> p, val |-> v] \in Write
    BY <2>1 DEF Write
  <2>3. todo' = <<[param |-> p, val |-> v]>> /\ nb' = 0
    BY <1>7 DEF Set
  <2>4. /\ todo' \in Seq(Write) /\ Len(todo') = 1 /\ Param' = p
        /\ todo'[Len(todo')].param = p
    BY <2>2, <2>3 DEF Param
  <2>5. 0 <= NBlocks[p]
    BY <2>1 DEF Assumptions, ParamsAssumption
  <2> QED
    BY <2>1, <2>3, <2>4, <2>5 DEF Jobs, Resetting
<1>8. ASSUME NEW p \in Erasable, Erase(p)
      PROVE  Jobs'
  BY <1>0, <1>8, JobKept DEF Erase
<1>9. CASE PowerLoss \/ Upgrade
  <2>1. todo' = << >> /\ phase' = "clean"
    BY <1>9 DEF PowerLoss, Upgrade, Restart
  <2> QED
    BY <2>1, NothingPending
<1>10. CASE UNCHANGED storeVars
  BY <1>0, <1>10, JobKept DEF storeVars, control
<1> QED
  BY <1>1, <1>2, <1>3, <1>4, <1>5, <1>6, <1>7, <1>8, <1>9, <1>10
     DEF StoreNext, Code, Boot, WriteParam, Calls

-----------------------------------------------------------------------------
(* The loops.                                                              *)

LEMMA ControlStep ==
  ASSUME Assumptions, StoreTypeOK, Control, [StoreNext]_storeVars
  PROVE  Control'
<1> USE DEF firmware, Control
<1>1. CASE FinishErase
  BY <1>1 DEF FinishErase, StoreTypeOK, None
<1>2. CASE CleanDuplicate \/ CleanInvalid \/ CleanNext
  BY <1>2 DEF CleanDuplicate, CleanInvalid, CleanNext
<1>3. CASE CheckVersion \/ Wipe \/ WriteDefaults
  BY <1>3 DEF CheckVersion, Wipe, WriteDefaults
<1>4. CASE SetSame \/ SetFull \/ SetBody \/ SetId \/ SetOld \/ SetDone
  BY <1>4 DEF SetSame, SetFull, SetBody, SetId, SetOld, SetDone, EndOfParam
<1>5. CASE EraseNext \/ EraseOver \/ ResetConfig
  BY <1>5, DefaultJobIs DEF EraseNext, EraseOver, ResetConfig, Defaults
<1>6. ASSUME NEW p \in Settable, NEW v \in [0 .. NBlocks[p] - 1 -> Data], Set(p, v)
      PROVE  Control'
  BY <1>6 DEF Set
<1>7. ASSUME NEW p \in Erasable, Erase(p)
      PROVE  Control'
  BY <1>7 DEF Erase, Assumptions, ParamsAssumption
<1>8. CASE PowerLoss \/ Upgrade
  BY <1>8, DefaultJobIs DEF PowerLoss, Upgrade, Restart, Defaults
<1>9. CASE UNCHANGED storeVars
  BY <1>9 DEF storeVars, control
<1> QED
  BY <1>1, <1>2, <1>3, <1>4, <1>5, <1>6, <1>7, <1>8, <1>9
     DEF StoreNext, Code, Boot, WriteParam, Calls

-----------------------------------------------------------------------------
(* Blocks are proper.                                                      *)

LEMMA NoTwins ==
  ASSUME NEW s \in Slots
  PROVE  Twins(s) = {} <=> Alone(s)
  BY DEF Twins, Alone, Same

(* A block that is being erased, or begun, is in nobody's way.             *)
LEMMA Fading ==
  ASSUME Assumptions, StoreTypeOK, UNCHANGED type,
         NEW s, \A t \in Slots \ {s} : ee'[t] = ee[t],
         s \in Slots => ee'[s].id \in {Empty, Torn},
         NEW r \in Slots \ {s}, Proper(r)
  PROVE  Proper(r)'
<1>1. ee'[r] = ee[r]
  OBVIOUS
<1>2. CASE ee[r].id = Empty
  BY <1>1, <1>2 DEF Proper
<1>3. CASE Valid(ee[r]) /\ Alone(r)
  <2>1. Valid(ee[r])' /\ ee[r].id \notin {Empty, Torn}
    BY <1>1, <1>3 DEF Valid, Assumptions, ParamsAssumption
  <2>2. ASSUME NEW t \in Slots, Same(r, t)' PROVE t = r
    <3>1. t # s
      BY <1>1, <2>1, <2>2 DEF Same
    <3> QED
      BY <1>1, <1>3, <2>2, <3>1 DEF Same, Alone
  <2> QED
    BY <2>1, <2>2 DEF Proper, Alone
<1> QED
  BY <1>2, <1>3 DEF Proper

LEMMA Erasing ==
  ASSUME StoreTypeOK, NEW s \in Slots, StartErase(s)
  PROVE  /\ \A t \in Slots \ {s} : ee'[t] = ee[t]
         /\ ee'[s].id = Torn /\ era' = s /\ ee'[s] = [ee[s] EXCEPT !.id = Torn]
  BY DEF StoreTypeOK, StartErase

LEMMA AllSame ==
  ASSUME UNCHANGED <<ee, type>>, NEW r, Proper(r)
  PROVE  Proper(r)'
  BY DEF Proper, Valid, Alone, Same

(* The key of a block that is replaced is in that block alone.             *)
LEMMA SeekFinds ==
  ASSUME Assumptions, StoreTypeOK, \A s \in Slots : Proper(s), NEW p \in Params, NEW n
  PROVE  /\ seek_block(p, n) \in Slots \cup {None}
         /\ \A s \in Slots : ee[s].id = p /\ ee[s].n = n <=> s = seek_block(p, n)
<1>1. Holders(p, n) \in SUBSET Slots /\ None \notin Slots
  BY DEF Holders, Slots, None
<1>2. /\ seek_block(p, n) = None <=> Holders(p, n) = {}
      /\ Holders(p, n) # {} => seek_block(p, n) \in Holders(p, n)
      /\ seek_block(p, n) \in Slots \cup {None}
  BY <1>1, LeastIs DEF seek_block
<1>3. ASSUME NEW s \in Slots, ee[s].id = p /\ ee[s].n = n PROVE s = seek_block(p, n)
  <2>1. s \in Holders(p, n)
    BY <1>3 DEF Holders
  <2>2. seek_block(p, n) \in Slots /\ Same(s, seek_block(p, n))
    BY <1>2, <1>3, <2>1 DEF Holders, Same
  <2>3. ee[s].id # Empty
    BY <1>3 DEF Assumptions, ParamsAssumption
  <2> QED
    BY <2>2, <2>3 DEF Proper, Alone
<1> QED
  BY <1>1, <1>2, <1>3 DEF Holders

LEMMA TidyStep ==
  ASSUME Assumptions, StoreTypeOK, Jobs, Control, Tidy, [StoreNext]_storeVars
  PROVE  Tidy'
<1> USE DEF firmware
<1>0. /\ NSlots \in Nat /\ None \notin Slots /\ slot \in Nat
      /\ \A s \in Slots : s \in Nat /\ 1 <= s /\ s <= NSlots
  BY DEF Slots, None, Assumptions, StoreAssumption, StoreTypeOK
<1>1. CASE FinishErase
  <2>1. /\ era \in Slots /\ phase \notin {"body", "written"} /\ era' = None /\ UNCHANGED <<phase, slot, type>>
        /\ \A t \in Slots \ {era} : ee'[t] = ee[t]
        /\ ee'[era].id = Empty
    BY <1>1 DEF FinishErase, StoreTypeOK, Control, BlankBlock
  <2>2. \A s \in Slots \ Suspects' : s # era => Proper(s)
    BY <2>1 DEF Suspects, Tidy
  <2>3. \A s \in Slots \ Suspects' : Proper(s)'
    BY <2>1, <2>2, Fading DEF Proper
  <2> QED
    BY <2>1, <2>3 DEF Tidy
<1>2. CASE CleanDuplicate
  <2> DEFINE t == Least(Twins(slot))
  <2>1. t \in Slots
    BY <1>2, LeastIs DEF CleanDuplicate, Twins
  <2>2. /\ \A r \in Slots \ {t} : ee'[r] = ee[r]
        /\ ee'[t].id = Torn /\ era' = t /\ phase' = "clean" /\ phase = "clean" /\ UNCHANGED <<slot, type>>
    BY <1>2, <2>1, Erasing DEF CleanDuplicate
  <2>3. \A s \in Slots \ Suspects' : s # t /\ Proper(s)
    BY <1>0, <1>2, <2>2 DEF Suspects, Tidy, CleanDuplicate
  <2> HIDE DEF t
  <2>4. \A s \in Slots \ Suspects' : Proper(s)'
    BY <2>2, <2>3, Fading
  <2> QED
    BY <2>2, <2>4 DEF Tidy
<1>3. CASE CleanInvalid
  <2>1. /\ slot \in Slots /\ \A r \in Slots \ {slot} : ee'[r] = ee[r]
        /\ ee'[slot].id = Torn /\ era' = slot /\ phase' = "clean" /\ phase = "clean" /\ slot' = slot + 1 /\ UNCHANGED type
        /\ era = None
    BY <1>3, Erasing DEF CleanInvalid, After
  <2>2. \A s \in Slots \ Suspects' : s # slot /\ Proper(s)
    BY <1>0, <2>1 DEF Suspects, Tidy
  <2>3. \A s \in Slots \ Suspects' : Proper(s)'
    BY <2>1, <2>2, Fading
  <2> QED
    BY <2>1, <2>3 DEF Tidy
<1>4. CASE CleanNext
  <2>1. /\ slot \in Slots /\ phase' = "clean" /\ phase = "clean" /\ slot' = slot + 1 /\ era = None /\ era' = None
        /\ UNCHANGED <<ee, type>>
    BY <1>4 DEF CleanNext, After
  <2>2. Proper(slot)
    BY <1>4, <2>1, NoTwins DEF CleanNext, Proper, Valid
  <2>3. \A s \in Slots \ Suspects' : s = slot \/ Proper(s)
    BY <1>0, <2>1 DEF Suspects, Tidy
  <2>4. \A s \in Slots \ Suspects' : Proper(s)'
    BY <2>1, <2>2, <2>3, AllSame
  <2> QED
    BY <2>1, <2>4 DEF Tidy
<1>5. CASE CheckVersion
  <2>1. /\ slot \notin Slots /\ phase' \in {"wipe", "idle"} /\ slot' = 1 /\ phase = "clean" /\ era = None /\ era' = None
        /\ UNCHANGED <<ee, type>>
    BY <1>5 DEF CheckVersion
  <2>2. \A s \in Slots : ~(s >= slot)
    BY <1>0, <2>1 DEF Slots, StoreTypeOK
  <2>3. \A s \in Slots : Proper(s)
    BY <1>0, <2>1, <2>2 DEF Suspects, Tidy
  <2>4. \A s \in Slots \ Suspects' : Proper(s)'
    BY <2>1, <2>3, AllSame
  <2> QED
    BY <1>0, <2>1, <2>4 DEF Tidy
<1>6. CASE Wipe
  <2>1. /\ slot \in Slots /\ phase' = "wipe" /\ phase = "wipe" /\ slot' = slot + 1 /\ era = None /\ UNCHANGED type
    BY <1>6 DEF Wipe, After
  <2>2. \A s \in Slots : Proper(s) /\ (s < slot => ee[s].id = Empty)
    BY <1>0, <2>1 DEF Suspects, Tidy
  <2>3. \A s \in Slots : s < slot' => s < slot \/ s = slot
    BY <1>0, <2>1
  <2>4. CASE ee[slot].id = Empty
    <3>1. UNCHANGED <<ee, era>>
      BY <1>6, <2>4 DEF Wipe
    <3>2. \A s \in Slots \ Suspects' : Proper(s)'
      BY <2>1, <2>2, <3>1, AllSame
    <3> QED
      BY <1>0, <2>1, <2>2, <2>3, <2>4, <3>1, <3>2 DEF Tidy
  <2>5. CASE ee[slot].id # Empty
    <3>1. /\ \A r \in Slots \ {slot} : ee'[r] = ee[r]
          /\ ee'[slot].id = Torn /\ era' = slot
      BY <1>6, <2>1, <2>5, Erasing DEF Wipe
    <3>2. \A s \in Slots \ Suspects' : s # slot
      BY <2>1, <3>1 DEF Suspects
    <3>3. \A s \in Slots \ Suspects' : Proper(s)'
      BY <2>1, <2>2, <3>1, <3>2, Fading
    <3>4. \A s \in Slots : s < slot' => s = era' \/ ee'[s].id = Empty
      BY <2>2, <2>3, <3>1
    <3> QED
      BY <2>1, <3>1, <3>3, <3>4 DEF Tidy
  <2> QED
    BY <2>4, <2>5
<1>7. CASE EraseNext
  <2>1. /\ slot \in Slots /\ phase' = "erase" /\ phase = "erase" /\ era = None /\ UNCHANGED type
    BY <1>7 DEF EraseNext
  <2>2. \A s \in Slots : Proper(s)
    BY <1>0, <2>1 DEF Suspects, Tidy
  <2>3. CASE ee[slot].id # target
    <3>1. UNCHANGED <<ee, era>>
      BY <1>7, <2>3 DEF EraseNext
    <3> QED
      BY <2>1, <2>2, <3>1, AllSame DEF Tidy
  <2>4. CASE ee[slot].id = target
    <3>1. /\ \A r \in Slots \ {slot} : ee'[r] = ee[r]
          /\ ee'[slot].id = Torn /\ era' = slot
      BY <1>7, <2>1, <2>4, Erasing DEF EraseNext
    <3>2. \A s \in Slots \ Suspects' : s # slot
      BY <2>1, <3>1 DEF Suspects
    <3>3. \A s \in Slots \ Suspects' : Proper(s)'
      BY <2>1, <2>2, <3>1, <3>2, Fading
    <3> QED
      BY <2>1, <3>1, <3>3 DEF Tidy
  <2> QED
    BY <2>3, <2>4
<1>8. ASSUME UNCHANGED <<ee, type>>, phase \in {"wipe", "set", "erase", "idle"}, era = None, era' = None,
             phase' \in {"set", "erase", "idle"} \/ (phase' = "wipe" /\ slot' = 1)
      PROVE  Tidy'
  <2>1. \A s \in Slots : Proper(s)
    BY <1>0, <1>8 DEF Suspects, Tidy
  <2>2. \A s \in Slots : Proper(s)'
    BY <1>8, <2>1, AllSame
  <2> QED
    BY <1>0, <1>8, <2>2 DEF Tidy
<1>9. CASE WriteDefaults \/ SetSame \/ SetFull \/ SetDone \/ EraseOver \/ ResetConfig
  BY <1>8, <1>9 DEF WriteDefaults, SetSame, SetFull, SetDone, EraseOver, ResetConfig, EndOfParam, Control
<1>10. ASSUME NEW p \in Settable, NEW v \in [0 .. NBlocks[p] - 1 -> Data], Set(p, v)
      PROVE  Tidy'
  BY <1>8, <1>10 DEF Set, Control
<1>11. ASSUME NEW p \in Erasable, Erase(p)
      PROVE  Tidy'
  BY <1>8, <1>11 DEF Erase, Control
<1>12. CASE SetBody
  <2>1. /\ phase = "set" /\ phase' = "body" /\ era = None /\ UNCHANGED <<era, todo, nb, type>>
        /\ old' = seek_block(Param, nb) /\ dst' = get_free_block /\ get_free_block # None
        /\ ee' = [ee EXCEPT ![dst'] = BodyOf(New)]
    BY <1>12 DEF SetBody
  <2>2. \A s \in Slots : Proper(s)
    BY <1>0, <2>1 DEF Suspects, Tidy
  <2>3. Param \in Params /\ Param \notin {Empty, Torn}
    BY <2>1, HeadOfJob DEF Storing, Assumptions, ParamsAssumption
  <2>4. /\ old' \in Slots \cup {None}
        /\ \A s \in Slots : ee[s].id = Param /\ ee[s].n = nb <=> s = old'
    BY <2>1, <2>2, <2>3, SeekFinds
  <2>5. dst' \in Slots /\ ee[dst'].id = Empty
    BY <2>1, LeastIs DEF get_free_block
  <2>6. dst' # old'
    BY <2>3, <2>4, <2>5
  <2>7. /\ ee'[dst'] = BodyOf(New) /\ \A s \in Slots \ {dst'} : ee'[s] = ee[s]
    BY <2>1, <2>5 DEF StoreTypeOK
  <2>8. Param' = Param /\ New' = New /\ BodyOf(New)' = BodyOf(New)
    BY <2>1 DEF Param, New, BodyOf
  <2>9. ee'[dst'].id = Torn
    BY <2>7 DEF BodyOf, New
  <2>10. \A s \in Slots : ee'[s].id = Param' /\ ee'[s].n = nb' <=> s = old'
    BY <2>1, <2>3, <2>4, <2>6, <2>7, <2>8, <2>9
  <2>11. \A s \in Slots \ {dst'} : Proper(s)'
    BY <2>1, <2>2, <2>7, <2>9, Fading
  <2>12. era' = None /\ Suspects' = {dst'}
    BY <2>1 DEF Suspects
  <2> QED
    BY <2>1, <2>6, <2>7, <2>8, <2>10, <2>11, <2>12 DEF Tidy
<1>13. CASE SetId
  <2>1. /\ phase = "body" /\ phase' = "written" /\ era = None /\ UNCHANGED <<era, todo, nb, type, old, dst>>
        /\ ee' = [ee EXCEPT ![dst] = New] /\ dst \in Slots /\ nb < NBlocks[Param]
    BY <1>13 DEF SetId, Control, StoreTypeOK
  <2>2. /\ ee'[dst] = New /\ \A s \in Slots \ {dst} : ee'[s] = ee[s]
    BY <2>1 DEF StoreTypeOK
  <2>3. /\ \A s \in Slots \ {dst} : Proper(s)
        /\ dst # old /\ \A s \in Slots : ee[s].id = Param /\ ee[s].n = nb <=> s = old
    BY <2>1 DEF Tidy, Suspects
  <2>4. Param' = Param /\ New' = New /\ New.id = Param /\ New.n = nb
    BY <2>1 DEF Param, New
  <2>5. \A s \in Slots : ee'[s].id = Param' /\ ee'[s].n = nb' <=> s \in {dst', old'} \ {None}
    BY <1>0, <2>1, <2>2, <2>3, <2>4
  <2>6. ASSUME NEW s \in Slots \ {dst, old} PROVE Proper(s)'
    <3>1. Proper(s) /\ ee'[s] = ee[s] /\ ~(ee[s].id = Param /\ ee[s].n = nb)
      BY <2>2, <2>3
    <3>2. CASE ee[s].id = Empty
      BY <3>1, <3>2 DEF Proper
    <3>3. CASE Valid(ee[s]) /\ Alone(s)
      <4>1. Valid(ee[s])'
        BY <2>1, <3>1, <3>3 DEF Valid
      <4>2. \A t \in Slots : Same(s, t)' => t # dst /\ Same(s, t)
        BY <2>2, <2>4, <3>1 DEF Same
      <4> QED
        BY <3>3, <4>1, <4>2 DEF Alone, Proper
    <3> QED
      BY <3>1, <3>2, <3>3 DEF Proper
  <2>7. Suspects' = {dst', old'}
    BY <2>1 DEF Suspects
  <2> QED
    BY <2>1, <2>2, <2>3, <2>4, <2>5, <2>6, <2>7 DEF Tidy
<1>14. CASE SetOld
  <2>1. /\ phase = "written" /\ phase' = "set" /\ era = None /\ UNCHANGED type /\ dst \in Slots /\ nb < NBlocks[Param]
        /\ old \in Slots \cup {None}
    BY <1>14 DEF SetOld, Control, StoreTypeOK
  <2>2. /\ ee[dst] = New /\ dst # old
        /\ \A s \in Slots : ee[s].id = Param /\ ee[s].n = nb <=> s \in {dst, old} \ {None}
        /\ \A s \in Slots \ {dst, old} : Proper(s)
    BY <2>1 DEF Tidy, Suspects
  <2>3. /\ Param \in Params /\ Param \notin {Empty, Torn} /\ ee[dst].id = Param /\ ee[dst].n = nb
        /\ Valid(ee[dst])
    BY <2>1, <2>2, HeadOfJob DEF Storing, New, Valid, Assumptions, ParamsAssumption
  <2>4. /\ \A s \in Slots \ {old} : ee'[s] = ee[s]
        /\ old \in Slots => ee'[old].id = Torn
        /\ era' = old
    BY <1>0, <1>14, <2>1, Erasing DEF SetOld
  <2> PICK d \in Slots : d = dst
    BY <2>1
  <2>5. Valid(ee[d])'
    BY <2>1, <2>2, <2>3, <2>4 DEF Valid
  <2>6. Alone(d)'
    BY <1>0, <2>2, <2>3, <2>4 DEF Alone, Same
  <2>7. \A s \in Slots \ {old} : Proper(s)'
    BY <2>1, <2>2, <2>4, <2>5, <2>6, Fading DEF Proper
  <2>8. Suspects' = {era'}
    BY <2>1 DEF Suspects
  <2> QED
    BY <2>1, <2>4, <2>7, <2>8, <1>0 DEF Tidy
<1>15. CASE PowerLoss \/ Upgrade
  <2>1. phase' = "clean" /\ slot' = 1 /\ era' = None
    BY <1>15 DEF PowerLoss, Upgrade, Restart
  <2>2. Slots \ Suspects' = {}
    BY <1>0, <2>1 DEF Suspects
  <2> QED
    BY <2>1, <2>2 DEF Tidy
<1>16. CASE UNCHANGED storeVars
  <2>1. UNCHANGED <<ee, type, phase, era, slot, todo, nb, old, dst>>
    BY <1>16 DEF storeVars, control
  <2>2. Suspects' = Suspects /\ New' = New /\ Param' = Param /\ BodyOf(New)' = BodyOf(New)
    BY <2>1 DEF Suspects, New, Param, BodyOf
  <2>3. \A s \in Slots \ Suspects : Proper(s)'
    BY <2>1, AllSame DEF Tidy
  <2> QED
    BY <2>1, <2>2, <2>3 DEF Tidy
<1> QED
  BY <1>1, <1>2, <1>3, <1>4, <1>5, <1>6, <1>7, <1>9, <1>10, <1>11, <1>12, <1>13, <1>14, <1>15, <1>16
     DEF StoreNext, Code, Boot, WriteParam, Calls

-----------------------------------------------------------------------------
(* What was written of the parameter is there.                             *)

(* A key stays where it is while another block changes.                    *)
LEMMA StaysHeld ==
  ASSUME NEW s, \A t \in Slots \ {s} : ee'[t] = ee[t],
         NEW p, NEW n, s \in Slots => ~(ee[s].id = p /\ ee[s].n = n), Held(p, n)
  PROVE  Held(p, n)'
  BY DEF Held

LEMMA WrittenStep ==
  ASSUME Assumptions, StoreTypeOK, Jobs, Control, Tidy, WrittenSoFar, [StoreNext]_storeVars
  PROVE  WrittenSoFar'
<1> USE DEF firmware
<1>0. /\ None \notin Slots
      /\ Storing => /\ nb \in Nat /\ Param \in Params /\ Param \notin {Empty, Torn}
                    /\ NBlocks[Param] \in Nat
  BY HeadOfJob DEF Slots, None, Assumptions, ParamsAssumption, StoreTypeOK
<1>1. ASSUME ~Storing' \/ nb' = 0
      PROVE  WrittenSoFar'
  BY <1>1 DEF WrittenSoFar
<1>2. ASSUME NEW s, \A t \in Slots \ {s} : ee'[t] = ee[t], s \in Slots => ee[s].id # Param,
             UNCHANGED <<todo, nb>>, Storing' => Storing
      PROVE  WrittenSoFar'
  <2> SUFFICES ASSUME Storing', NEW m \in 0 .. nb - 1
               PROVE  \E t \in Slots : ee'[t].id = Param' /\ ee'[t].n = m /\ ee'[t].val = Head(todo').val[m]
    BY <1>2 DEF WrittenSoFar
  <2>1. PICK t \in Slots : ee[t].id = Param /\ ee[t].n = m /\ ee[t].val = Head(todo).val[m]
    BY <1>2 DEF WrittenSoFar
  <2> QED
    BY <1>2, <2>1 DEF Param
<1>3. ASSUME Storing, NEW s, \A t \in Slots \ {s} : ee'[t] = ee[t],
             s \in Slots => ~(ee[s].id = Param /\ ee[s].n < nb),
             UNCHANGED todo, nb' = nb + 1,
             \E t \in Slots \ {s} : ee[t] = New
      PROVE  WrittenSoFar'
  <2> SUFFICES ASSUME NEW m \in 0 .. nb
               PROVE  \E t \in Slots : ee'[t].id = Param' /\ ee'[t].n = m /\ ee'[t].val = Head(todo').val[m]
    BY <1>0, <1>3 DEF WrittenSoFar
  <2>1. PICK t \in Slots \ {s} : ee[t].id = Param /\ ee[t].n = m /\ ee[t].val = Head(todo).val[m]
    <3>1. CASE m = nb
      BY <1>3, <3>1 DEF New
    <3>2. CASE m \in 0 .. nb - 1
      BY <1>0, <1>3, <3>2 DEF WrittenSoFar
    <3> QED
      BY <1>0, <1>3, <3>1, <3>2
  <2> QED
    BY <1>3, <2>1 DEF Param
<1>4. CASE FinishErase
  <2>1. era \in Slots /\ ee[era].id = Torn /\ UNCHANGED <<todo, nb, phase>>
    BY <1>4 DEF FinishErase, StoreTypeOK, Tidy
  <2>2. \A t \in Slots \ {era} : ee'[t] = ee[t]
    BY <1>4, <2>1 DEF FinishErase, StoreTypeOK
  <2>3. Storing' => Storing /\ ee[era].id # Param
    BY <1>0, <2>1 DEF Storing
  <2> QED
    BY <1>1, <1>2, <2>1, <2>2, <2>3
<1>5. CASE CleanDuplicate \/ CleanInvalid \/ CleanNext \/ CheckVersion \/ Wipe
           \/ EraseNext \/ EraseOver \/ ResetConfig \/ PowerLoss \/ Upgrade
  BY <1>1, <1>5 DEF CleanDuplicate, CleanInvalid, CleanNext, CheckVersion, Wipe,
     EraseNext, EraseOver, ResetConfig, PowerLoss, Upgrade, Restart, Storing
<1>6. CASE WriteDefaults \/ SetFull \/ SetDone
  BY <1>1, <1>6 DEF WriteDefaults, SetFull, SetDone, EndOfParam
<1>7. CASE SetSame
  <2>1. seek_block(Param, nb) \in Slots /\ ee[seek_block(Param, nb)] = New
    BY <1>0, <1>7, LeastIs DEF SetSame, AsOld, seek_block, Holders
  <2> QED
    BY <1>0, <1>3, <1>7, <2>1 DEF SetSame, Storing
<1>8. CASE SetBody
  <2>1. dst' \in Slots /\ ee[dst'].id = Empty
    BY <1>8, LeastIs DEF SetBody, get_free_block
  <2> QED
    BY <1>0, <1>2, <1>8, <2>1 DEF SetBody, StoreTypeOK, Storing
<1>9. CASE SetId
  <2>1. dst \in Slots /\ ee[dst].id = Torn
    BY <1>9 DEF SetId, StoreTypeOK, Tidy, BodyOf, New
  <2> QED
    BY <1>0, <1>2, <1>9, <2>1 DEF SetId, StoreTypeOK, Storing
<1>10. CASE SetOld
  <2>1. /\ phase = "written" /\ old \in Slots \cup {None} /\ dst \in Slots \ {old} /\ ee[dst] = New
        /\ nb' = nb + 1 /\ UNCHANGED todo
    BY <1>0, <1>10 DEF SetOld, StoreTypeOK, Tidy, Storing
  <2>2. /\ \A s \in Slots \ {old} : ee'[s] = ee[s]
    BY <1>0, <1>10, <2>1, Erasing DEF SetOld
  <2>3. old \in Slots => ~(ee[old].n < nb)
    BY <1>0, <2>1 DEF Tidy, Storing
  <2> QED
    BY <1>3, <2>1, <2>2, <2>3 DEF Storing
<1>11. ASSUME NEW p \in Settable, NEW v \in [0 .. NBlocks[p] - 1 -> Data], Set(p, v)
       PROVE  WrittenSoFar'
  BY <1>1, <1>11 DEF Set
<1>12. ASSUME NEW p \in Erasable, Erase(p)
       PROVE  WrittenSoFar'
  BY <1>1, <1>12 DEF Erase, Storing
<1>13. CASE UNCHANGED storeVars
  <2>1. UNCHANGED <<ee, phase, todo, nb>>
    BY <1>13 DEF storeVars, control
  <2> QED
    BY <2>1 DEF WrittenSoFar, Storing, Param
<1> QED
  BY <1>4, <1>5, <1>6, <1>7, <1>8, <1>9, <1>10, <1>11, <1>12, <1>13
     DEF StoreNext, Code, Boot, WriteParam, Calls

-----------------------------------------------------------------------------
(* The version seals the store.                                            *)

(* What is written while the defaults are.                                 *)
LEMMA WhileResetting ==
  ASSUME Assumptions, StoreTypeOK, Jobs, Storing
  PROVE  /\ Param = Version => Resetting
         /\ Resetting => Place \in 1 .. Len(DefaultSeq) + 1
         /\ Resetting /\ Param = Version =>
              Place = Len(DefaultSeq) + 1 /\ Head(todo).val[0] = current
         /\ Resetting /\ Param # Version =>
              /\ Place \in 1 .. Len(DefaultSeq) /\ Param = DefaultSeq[Place] /\ Param \in Defaults
              /\ \A n \in 0 .. NBlocks[Param] - 1 : Head(todo).val[n] = Zero
<1>1. Len(todo) \in Nat \ {0} /\ Head(todo) = todo[1] /\ Len(DefaultSeq) \in Nat
  BY HeadOfJob DEF Assumptions, ParamsAssumption
<1>2. ASSUME Param = Version PROVE Resetting
  BY <1>1, <1>2 DEF Jobs, Resetting, Param
<1>3. ASSUME Resetting
      PROVE  Place \in 1 .. Len(DefaultSeq) + 1 /\ Head(todo) = DefaultJob[Place]
  <2>1. Len(todo) <= Len(DefaultSeq) + 1 /\ todo[1] = DefaultJob[1 + Place - 1]
    BY <1>1, <1>3 DEF Jobs
  <2>2. Place \in 1 .. Len(DefaultSeq) + 1 /\ 1 + Place - 1 = Place
    BY <1>1, <2>1 DEF Place
  <2> QED
    BY <1>1, <2>1, <2>2
<1>4. ASSUME Resetting, Place \in 1 .. Len(DefaultSeq)
      PROVE  /\ Param = DefaultSeq[Place] /\ Param \in Defaults /\ Param # Version
             /\ \A n \in 0 .. NBlocks[Param] - 1 : Head(todo).val[n] = Zero
  <2>1. Head(todo) = [param |-> DefaultSeq[Place], val |-> Zeroes(DefaultSeq[Place])]
    BY <1>3, <1>4, DefaultJobIs
  <2>2. Param = DefaultSeq[Place] /\ Head(todo).val = Zeroes(Param)
    BY <2>1 DEF Param
  <2> QED
    BY <1>4, <2>2, DefaultJobIs DEF Zeroes
<1>5. ASSUME Resetting, Place = Len(DefaultSeq) + 1
      PROVE  Param = Version /\ Head(todo).val[0] = current
  BY <1>3, <1>5, DefaultJobIs DEF Param, VersionWrite
<1> QED
  BY <1>1, <1>2, <1>3, <1>4, <1>5

LEMMA DefaultsAre ==
  ASSUME Assumptions
  PROVE  /\ Defaults \subseteq Params \ {Version} /\ Version \in Params
         /\ Empty \notin Params /\ Torn \notin Params
         /\ \A p \in Defaults : \E j \in 1 .. Len(DefaultSeq) : p = DefaultSeq[j]
  BY DEF Assumptions, ParamsAssumption, Defaults

LEMMA SealedFades ==
  ASSUME Assumptions, StoreTypeOK, Sealed, UNCHANGED <<current, wiping>>,
         \A p \in Defaults \cup {Version} : type'[p] = type[p],
         NEW s, \A t \in Slots \ {s} : ee'[t] = ee[t],
         s \in Slots => ee'[s].id \in {Empty, Torn},
         phase' = "wipe" => phase = "wipe",
         phase = "wipe" \/ \A p \in Defaults : AllHeld(p) => AllHeld(p)'
  PROVE  Sealed'
<1>1. \A t \in Slots : ee'[t].id \in Params => ee'[t] = ee[t]
  BY DefaultsAre
<1>2. \A t \in Slots : Seals(t)' => Seals(t)
  BY <1>1, DefaultsAre DEF Seals
<1>3. \A t \in Slots : ee'[t].id \in Defaults \cup {Version} => Valid(ee[t])'
  BY <1>1, DefaultsAre DEF Sealed, Valid
<1>4. \A t, u \in Slots : ee'[t].id = Version /\ ee'[u].id = Version => t = u
  BY <1>1, DefaultsAre DEF Sealed
<1>5. \A t \in Slots : ee'[t].id = Version => ee'[t].val \in 1 .. current'
  BY <1>1, DefaultsAre DEF Sealed
<1>6. ~wiping' => \A t \in Slots : Seals(t)' => phase' # "wipe" /\ \A p \in Defaults : AllHeld(p)'
  BY <1>2 DEF Sealed
<1> QED
  BY <1>3, <1>4, <1>5, <1>6 DEF Sealed

LEMMA SealedStep ==
  ASSUME Assumptions, StoreTypeOK, Parts, Sealed, Resets, [StoreNext]_storeVars
  PROVE  Sealed'
<1> USE DEF firmware
<1>0. /\ None \notin Slots
      /\ Storing => /\ nb \in Nat /\ Param \in Params /\ Param \notin {Empty, Torn}
                    /\ NBlocks[Param] \in Nat
  BY HeadOfJob DEF Slots, None, Assumptions, ParamsAssumption, StoreTypeOK, Parts
<1>1. ASSUME UNCHANGED <<ee, type, current, wiping>>, phase' = "wipe" => phase = "wipe"
      PROVE  Sealed'
  <2>1. \A p : AllHeld(p) => AllHeld(p)'
    BY <1>1 DEF AllHeld, Held
  <2> QED
    BY <1>0, <1>1, <2>1, SealedFades
<1>2. CASE FinishErase
  <2>1. /\ era \in Slots /\ ee[era].id = Torn /\ ee'[era].id = Empty /\ UNCHANGED <<phase, type, current, wiping>>
        /\ \A t \in Slots \ {era} : ee'[t] = ee[t]
    BY <1>2 DEF FinishErase, StoreTypeOK, Parts, Tidy, BlankBlock
  <2>2. \A p \in Defaults : AllHeld(p) => AllHeld(p)'
    BY <2>1, StaysHeld, DefaultsAre DEF AllHeld
  <2> QED
    BY <2>1, <2>2, SealedFades
<1>3. CASE CleanDuplicate
  <2>1. PICK t \in Slots \ {slot} : StartErase(t) /\ Same(slot, t)
    BY <1>3, LeastIs DEF CleanDuplicate, Twins, Same
  <2>2. /\ \A r \in Slots \ {t} : ee'[r] = ee[r]
        /\ ee'[t].id = Torn /\ slot \in Slots /\ UNCHANGED <<phase, type, current, wiping>>
    BY <1>3, <2>1, Erasing DEF CleanDuplicate
  <2>3. \A p, n : Held(p, n) => Held(p, n)'
    BY <2>1, <2>2 DEF Held, Same
  <2> QED
    BY <2>2, <2>3, SealedFades DEF AllHeld
<1>4. CASE CleanInvalid
  <2>1. /\ \A r \in Slots \ {slot} : ee'[r] = ee[r]
        /\ ee'[slot].id = Torn /\ slot \in Slots /\ ~Valid(ee[slot]) /\ UNCHANGED <<phase, type, current, wiping>>
    BY <1>4, Erasing DEF CleanInvalid
  <2>2. ee[slot].id \notin Defaults
    BY <2>1 DEF Sealed
  <2>3. \A p \in Defaults : AllHeld(p) => AllHeld(p)'
    BY <2>1, <2>2, StaysHeld DEF AllHeld
  <2> QED
    BY <2>1, <2>3, SealedFades
<1>5. CASE CheckVersion
  <2>1. CASE ~Outdated
    BY <1>1, <1>5, <2>1 DEF CheckVersion
  <2>2. CASE Outdated
    <3>1. ASSUME NEW s \in Slots, Seals(s) PROVE FALSE
      <4>1. ee[s].id = Version /\ ee[s].n = 0
        BY <3>1 DEF Seals, Sealed, Valid, StoreTypeOK, Block, Assumptions, ParamsAssumption
      <4>2. s \in Holders(Version, 0)
        BY <4>1 DEF Holders
      <4>3. seek_block(Version, 0) = s
        BY <4>1, <4>2, LeastIs DEF seek_block, Sealed, Holders
      <4>4. IsStored(Version, 0) /\ ValueOf(Version, 0) = ee[s].val
        BY <1>0, <4>2, <4>3 DEF IsStored, ValueOf
      <4> QED
        BY <2>2, <3>1, <4>4 DEF Outdated, Seals
    <3>2. \A s \in Slots : ~Seals(s)'
      BY <1>5, <3>1 DEF CheckVersion, Seals
    <3> QED
      BY <1>5, <3>2 DEF CheckVersion, Sealed, Valid
  <2> QED
    BY <2>1, <2>2
<1>6. CASE Wipe
  <2>1. CASE ee[slot].id = Empty
    BY <1>1, <1>6, <2>1 DEF Wipe
  <2>2. CASE ee[slot].id # Empty
    <3>1. /\ \A r \in Slots \ {slot} : ee'[r] = ee[r]
          /\ ee'[slot].id = Torn /\ slot \in Slots /\ phase = "wipe" /\ UNCHANGED <<phase, type, current, wiping>>
      BY <1>6, <2>2, Erasing DEF Wipe
    <3> QED
      BY <3>1, SealedFades
  <2> QED
    BY <2>1, <2>2
<1>7. CASE WriteDefaults
  <2>1. \A s \in Slots : s < slot
    BY <1>7 DEF WriteDefaults, Slots, StoreTypeOK, Assumptions, StoreAssumption
  <2>2. \A s \in Slots : ee'[s].id = Empty
    BY <1>0, <1>7, <2>1 DEF WriteDefaults, Parts, Tidy
  <2> QED
    BY <2>2, DefaultsAre DEF Sealed, Seals
<1>8. CASE CleanNext \/ SetSame \/ SetFull \/ SetDone \/ EraseOver
  BY <1>1, <1>8 DEF CleanNext, SetSame, SetFull, SetDone, EraseOver, EndOfParam
<1>9. CASE SetBody
  <2>1. dst' \in Slots /\ ee[dst'].id = Empty
    BY <1>9, LeastIs DEF SetBody, get_free_block
  <2>2. /\ \A r \in Slots \ {dst'} : ee'[r] = ee[r]
        /\ ee'[dst'].id = Torn /\ phase' = "body" /\ UNCHANGED <<type, current, wiping>>
    BY <1>9, <2>1 DEF SetBody, StoreTypeOK, BodyOf, New
  <2>3. \A p \in Defaults : AllHeld(p) => AllHeld(p)'
    BY <2>1, <2>2, StaysHeld, DefaultsAre DEF AllHeld
  <2> QED
    BY <2>2, <2>3, SealedFades
<1>10. CASE SetId
  <2>1. /\ phase = "body" /\ phase' = "written" /\ Storing /\ dst \in Slots /\ nb < NBlocks[Param]
        /\ UNCHANGED <<type, current, wiping>>
        /\ ee'[dst] = New /\ \A r \in Slots \ {dst} : ee'[r] = ee[r]
    BY <1>10 DEF SetId, StoreTypeOK, Storing
  <2>2. ee[dst].id = Torn /\ New.id = Param /\ New.n = nb /\ New.val = Head(todo).val[nb]
    BY <2>1 DEF Parts, Tidy, BodyOf, New
  <2>3. \A p \in Defaults : AllHeld(p) => AllHeld(p)'
    BY <2>1, <2>2, StaysHeld, DefaultsAre DEF AllHeld
  <2> PICK d \in Slots : d = dst
    BY <2>1
  <2>4. Valid(ee[d])'
    BY <1>0, <2>1, <2>2 DEF Valid, New
  <2>5. \A s \in Slots : ee'[s].id \in Defaults \cup {Version} => Valid(ee[s])'
    BY <2>1, <2>4 DEF Sealed, Valid
  <2>6. CASE Param # Version
    <3>1. \A s \in Slots : ee'[s].id = Version => s # dst /\ ee'[s] = ee[s]
      BY <2>1, <2>2, <2>6
    <3>2. \A s \in Slots : Seals(s)' => Seals(s)
      BY <2>1, <3>1 DEF Seals
    <3>3. ~wiping' => \A s \in Slots : Seals(s)' => phase' # "wipe" /\ \A p \in Defaults : AllHeld(p)'
      BY <2>1, <2>3, <3>2 DEF Sealed
    <3>4. /\ \A s, t \in Slots : ee'[s].id = Version /\ ee'[t].id = Version => s = t
          /\ \A s \in Slots : ee'[s].id = Version => ee'[s].val \in 1 .. current'
      BY <2>1, <3>1 DEF Sealed
    <3> QED
      BY <2>5, <3>3, <3>4 DEF Sealed
  <2>7. CASE Param = Version
    <3>1. /\ Resetting /\ Place = Len(DefaultSeq) + 1 /\ Head(todo).val[0] = current
      BY <2>1, <2>7, WhileResetting DEF Parts
    <3>2. \A s \in Slots : ee[s].id # Version
      BY <2>1, <3>1 DEF Resets
    <3>3. nb = 0 /\ current \in 1 .. current
      BY <1>0, <2>1, <2>7 DEF Assumptions, ParamsAssumption, StoreTypeOK
    <3>4. \A p \in Defaults : AllHeld(p)
      <4>1. Len(DefaultSeq) + 1 - 1 = Len(DefaultSeq)
        BY DEF Assumptions, ParamsAssumption
      <4> QED
        BY <3>1, <4>1, DefaultsAre DEF Resets
    <3>5. \A s \in Slots : ee'[s].id = Version => s = dst
      BY <2>1, <3>2
    <3>6. ee'[dst].val \in 1 .. current'
      BY <2>1, <2>2, <3>1, <3>3
    <3> QED
      BY <2>1, <2>3, <2>5, <3>4, <3>5, <3>6 DEF Sealed
  <2> QED
    BY <2>6, <2>7
<1>11. CASE SetOld
  <2>1. /\ phase = "written" /\ phase' = "set" /\ Storing /\ dst \in Slots \ {old} /\ ee[dst] = New
        /\ old \in Slots => ee[old].id = Param /\ ee[old].n = nb
        /\ old \in Slots \cup {None} /\ UNCHANGED <<type, current, wiping>>
    BY <1>0, <1>11 DEF SetOld, StoreTypeOK, Parts, Tidy, Storing
  <2>2. /\ \A s \in Slots \ {old} : ee'[s] = ee[s]
        /\ old \in Slots => ee'[old].id = Torn
    BY <1>0, <1>11, <2>1, Erasing DEF SetOld
  <2>3. \A p, n : Held(p, n) => Held(p, n)'
    BY <2>1, <2>2 DEF Held, New
  <2> QED
    BY <2>1, <2>2, <2>3, SealedFades DEF AllHeld
<1>12. CASE EraseNext
  <2>1. CASE ee[slot].id # target
    BY <1>1, <1>12, <2>1 DEF EraseNext
  <2>2. CASE ee[slot].id = target
    <3>1. /\ \A r \in Slots \ {slot} : ee'[r] = ee[r]
          /\ ee'[slot].id = Torn /\ slot \in Slots /\ ee[slot].id \notin Defaults /\ UNCHANGED <<phase, type, current, wiping>>
      BY <1>12, <2>2, Erasing DEF EraseNext, Parts, Control
    <3>2. \A p \in Defaults : AllHeld(p) => AllHeld(p)'
      BY <3>1, StaysHeld DEF AllHeld
    <3> QED
      BY <3>1, <3>2, SealedFades
  <2> QED
    BY <2>1, <2>2
<1>13. CASE ResetConfig
  BY <1>13 DEF ResetConfig, Sealed, Valid
<1>14. ASSUME NEW p \in Settable, NEW v \in [0 .. NBlocks[p] - 1 -> Data], Set(p, v)
       PROVE  Sealed'
  BY <1>1, <1>14 DEF Set
<1>15. ASSUME NEW p \in Erasable, Erase(p)
       PROVE  Sealed'
  BY <1>1, <1>15 DEF Erase
<1>16. CASE PowerLoss
  BY <1>1, <1>16 DEF PowerLoss, Restart
<1>17. CASE Upgrade
  <2>1. /\ UNCHANGED <<ee, wiping>> /\ phase' = "clean" /\ current' = current + 1 /\ current \in Nat
        /\ \A p \in Defaults \cup {Version} : type'[p] = type[p]
    BY <1>17 DEF Upgrade, Restart, StoreTypeOK
  <2>2. \A s \in Slots : ee'[s].id = Version => ee'[s].val \in 1 .. current'
    BY <2>1 DEF Sealed
  <2>3. \A s \in Slots : Seals(s)' => Seals(s)
    BY <2>1 DEF Seals, Sealed
  <2>4. \A p \in Defaults : AllHeld(p) => AllHeld(p)'
    BY <2>1 DEF AllHeld, Held
  <2>5. \A s \in Slots : ee'[s].id \in Defaults \cup {Version} => Valid(ee[s])'
    BY <2>1 DEF Sealed, Valid
  <2> QED
    BY <2>1, <2>2, <2>3, <2>4, <2>5 DEF Sealed
<1>18. CASE UNCHANGED storeVars
  <2>1. UNCHANGED <<ee, type, current, wiping, phase>>
    BY <1>18 DEF storeVars, control
  <2> QED
    BY <1>1, <2>1
<1> QED
  BY <1>2, <1>3, <1>4, <1>5, <1>6, <1>7, <1>8, <1>9, <1>10, <1>11, <1>12, <1>13, <1>14, <1>15,
     <1>16, <1>17, <1>18 DEF StoreNext, Code, Boot, WriteParam, Calls

-----------------------------------------------------------------------------
(* While the defaults are written there is room for them.                  *)

LEMMA DefaultKeysFinite ==
  ASSUME Assumptions
  PROVE  IsFiniteSet(DefaultKeys) /\ \A p \in Defaults : \A n \in 0 .. NBlocks[p] - 1 : <<p, n>> \in DefaultKeys
<1>1. IsFiniteSet(Defaults)
  <2> DEFINE I == 1 .. Len(DefaultSeq)
             f == [j \in I |-> DefaultSeq[j]]
  <2>1. IsFiniteSet(I)
    BY FS_Interval DEF Assumptions, ParamsAssumption
  <2>2. f \in Surjection(I, Defaults)
    BY DEF Defaults, Surjection
  <2> HIDE DEF f, I
  <2> QED
    BY <2>1, <2>2, FS_Surjection
<1>2. ASSUME NEW p \in Defaults PROVE IsFiniteSet(KeysOf(p))
  <2> DEFINE I == 0 .. NBlocks[p] - 1
             f == [n \in I |-> <<p, n>>]
  <2>1. NBlocks[p] - 1 \in Int
    BY DefaultsAre DEF Assumptions, ParamsAssumption
  <2>3. IsFiniteSet(I)
    BY <2>1, FS_Interval
  <2>2. f \in Surjection(I, KeysOf(p))
    BY DEF KeysOf, Surjection
  <2> HIDE DEF f, I
  <2> QED
    BY <2>2, <2>3, FS_Surjection
<1> DEFINE S == {KeysOf(p) : p \in Defaults}
<1>3. IsFiniteSet(S)
  <2> DEFINE f == [p \in Defaults |-> KeysOf(p)]
  <2>1. f \in Surjection(Defaults, S)
    BY DEF Surjection
  <2> HIDE DEF S, f
  <2> QED
    BY <1>1, <2>1, FS_Surjection
<1>4. IsFiniteSet(DefaultKeys)
  <2>1. \A T \in S : IsFiniteSet(T)
    BY <1>2
  <2>2. DefaultKeys = UNION S
    BY DEF DefaultKeys
  <2> HIDE DEF S
  <2> QED
    BY <1>3, <2>1, <2>2, FS_UNION
<1>5. \A p \in Defaults : \A n \in 0 .. NBlocks[p] - 1 : <<p, n>> \in DefaultKeys
  BY DEF DefaultKeys, KeysOf
<1> QED
  BY <1>4, <1>5

(* The defaults and a block being written do not fill the EEPROM.          *)
LEMMA RoomWhileResetting ==
  ASSUME Assumptions, StoreTypeOK, Parts, Sealed, Resets, Resetting, phase = "set", nb < NBlocks[Param]
  PROVE  get_free_block # None
<1> SUFFICES ASSUME get_free_block = None PROVE FALSE
  OBVIOUS
<1>1. \A s \in Slots : ee[s].id # Empty
  <2>1. {s \in Slots : ee[s].id = Empty} = {}
    BY LeastIs DEF get_free_block
  <2> QED
    BY <2>1
<1>2. Storing /\ nb \in Nat /\ era = None
  BY DEF Storing, StoreTypeOK, Resets
<1>3. \A s \in Slots : Zeroed(s)
  <2>1. Param = Version => nb = 0
    BY <1>2 DEF Assumptions, ParamsAssumption
  <2> QED
    BY <1>1, <2>1 DEF Resets
<1>4. \A s \in Slots : Valid(ee[s]) /\ Alone(s)
  <2>1. Suspects = {None} /\ None \notin Slots
    BY <1>2 DEF Suspects, Slots, None
  <2> QED
    BY <1>1, <2>1 DEF Parts, Tidy, Proper
<1> DEFINE key == [s \in Slots |-> <<ee[s].id, ee[s].n>>]
<1>5. key \in [Slots -> DefaultKeys]
  <2> SUFFICES ASSUME NEW s \in Slots PROVE <<ee[s].id, ee[s].n>> \in DefaultKeys
    OBVIOUS
  <2>1. ee[s].id \in Defaults /\ ee[s].n < NBlocks[ee[s].id] /\ ee[s].n \in Nat
    BY <1>3, <1>4 DEF Zeroed, Valid, StoreTypeOK, Block
  <2>2. NBlocks[ee[s].id] \in Nat
    BY <2>1, DefaultsAre DEF Assumptions, ParamsAssumption
  <2>3. ee[s].n \in 0 .. NBlocks[ee[s].id] - 1
    BY <2>1, <2>2
  <2> QED
    BY <2>1, <2>3, DefaultKeysFinite
<1>6. IsFiniteSet(Slots) /\ Cardinality(Slots) = NSlots
  BY FS_Interval DEF Slots, Assumptions, StoreAssumption
<1>7. IsFiniteSet(DefaultKeys) /\ Cardinality(DefaultKeys) < Cardinality(Slots)
  BY <1>6, DefaultKeysFinite, FS_CardinalityType DEF Assumptions, StoreAssumption
<1>8. PICK x \in Slots, y \in Slots : x # y /\ key[x] = key[y]
  <2> HIDE DEF key
  <2> QED
    BY <1>5, <1>6, <1>7, FS_PigeonHole
<1>9. Same(x, y)
  BY <1>8 DEF Same
<1> QED
  BY <1>4, <1>8, <1>9 DEF Alone

LEMMA NotResetting ==
  ASSUME ~Storing'
  PROVE  Resets'
  BY DEF Resets, Resetting

LEMMA ResetsStep ==
  ASSUME Assumptions, StoreTypeOK, Parts, Sealed, Resets, [StoreNext]_storeVars, Jobs'
  PROVE  Resets'
<1> USE DEF firmware
<1>0. /\ None \notin Slots
      /\ Storing => /\ nb \in Nat /\ Param \in Params /\ Param \notin {Empty, Torn}
                    /\ NBlocks[Param] \in Nat /\ Len(todo) \in Nat \ {0} /\ Head(todo) = todo[1]
      /\ Len(DefaultSeq) \in Nat
  BY HeadOfJob DEF Slots, None, Assumptions, ParamsAssumption, StoreTypeOK, Parts
<1>1. CASE CleanDuplicate \/ CleanInvalid \/ CleanNext \/ CheckVersion \/ Wipe
           \/ EraseNext \/ EraseOver \/ ResetConfig \/ PowerLoss \/ Upgrade
  BY <1>1, NotResetting DEF CleanDuplicate, CleanInvalid, CleanNext, CheckVersion, Wipe,
     EraseNext, EraseOver, ResetConfig, PowerLoss, Upgrade, Restart, Storing
<1>2. CASE FinishErase
  BY <1>2 DEF FinishErase, Resets, Resetting, Storing
<1>3. CASE WriteDefaults
  <2>1. \A s \in Slots : s < slot
    BY <1>3 DEF WriteDefaults, Slots, StoreTypeOK, Assumptions, StoreAssumption
  <2>2. \A s \in Slots : ee'[s].id = Empty
    BY <1>0, <1>3, <2>1 DEF WriteDefaults, Parts, Tidy
  <2>3. Place' = 1 /\ era' = None /\ phase' = "set"
    BY <1>0, <1>3, DefaultJobIs DEF WriteDefaults, Place
  <2> QED
    BY <2>2, <2>3, DefaultsAre DEF Resets
<1>4. CASE SetSame
  <2>1. /\ Storing /\ phase = "set" /\ UNCHANGED <<ee, phase, era, todo, old, dst>> /\ nb' # 0
    BY <1>0, <1>4 DEF SetSame, Storing
  <2>2. /\ Resetting' => Resetting
        /\ Place' = Place /\ Param' = Param
    BY <2>1 DEF Resetting, Place, Param, Storing
  <2> QED
    BY <2>1, <2>2 DEF Resets, AllHeld, Held, Zeroed
<1>5. CASE SetFull
  <2>1. phase = "set" /\ nb < NBlocks[Param] /\ get_free_block = None /\ EndOfParam /\ UNCHANGED current
    BY <1>5 DEF SetFull
  <2>2. ~Resetting
    BY <2>1, RoomWhileResetting
  <2>3. ~Resetting'
    BY <2>1, <2>2, JobsGoOn DEF Parts
  <2> QED
    BY <2>3 DEF Resets
<1>6. CASE SetDone
  <2>1. /\ phase = "set" /\ nb = NBlocks[Param] /\ EndOfParam /\ UNCHANGED <<ee, current, era>> /\ Storing
        /\ nb' = 0 /\ era' = None /\ nb \in Nat
    BY <1>0, <1>6 DEF SetDone, EndOfParam, Storing
  <2> SUFFICES ASSUME Resetting'
               PROVE  Resets'
    BY DEF Resets
  <2>2. Resetting /\ Place' = Place + 1
    BY <2>1, JobsGoOn DEF Parts
  <2>3. /\ Storing' /\ phase' = "set" /\ Len(todo') \in Nat \ {0} /\ Place' = Len(DefaultSeq) + 2 - Len(todo')
    <3>1. Jobs
      BY DEF Parts
    <3>2. todo \in Seq(Write) /\ todo # << >>
      BY <2>1, <3>1, HeadOfJob DEF Jobs
    <3>3. Storing'
      BY DEF Resetting
    <3>4. phase' = "set" /\ todo' # << >> /\ todo' = Tail(todo)
      BY <2>1, <3>3 DEF EndOfParam, Storing
    <3>5. Len(todo') \in Nat \ {0}
      BY <3>2, <3>4
    <3>6. Place' = Len(DefaultSeq) + 2 - Len(todo')
      BY DEF Place
    <3> QED
      BY <3>3, <3>4, <3>5, <3>6
  <2>4. Place \in 1 .. Len(DefaultSeq) /\ Param = DefaultSeq[Place] /\ Param # Version
    BY <1>0, <2>1, <2>2, <2>3, WhileResetting DEF Parts
  <2>5. AllHeld(Param)
    BY <2>1 DEF AllHeld, Held, Parts, WrittenSoFar
  <2>6. \A j \in 1 .. Place' - 1 : AllHeld(DefaultSeq[j])
    <3>1. \A j \in 1 .. Place' - 1 : j \in 1 .. Place - 1 \/ j = Place
      BY <2>2, <2>4
    <3> QED
      BY <2>2, <2>4, <2>5, <3>1 DEF Resets
  <2>7. \A s \in Slots : ee[s].id = Empty \/ Zeroed(s)
    BY <2>1, <2>2, <2>4 DEF Resets
  <2>8. \A s \in Slots : ee'[s].id # Version
    BY <2>1, <2>7, DefaultsAre DEF Zeroed
  <2>9. (\A j \in 1 .. Place - 1 : AllHeld(DefaultSeq[j]))'
    BY <2>1, <2>6 DEF AllHeld, Held
  <2>10. \A s \in Slots : ee'[s].id = Empty \/ Zeroed(s)'
    BY <2>1, <2>7 DEF Zeroed
  <2> QED
    BY <2>1, <2>3, <2>8, <2>9, <2>10 DEF Resets
<1>7. CASE SetBody
  <2>1. /\ phase = "set" /\ phase' = "body" /\ Storing /\ nb < NBlocks[Param] /\ UNCHANGED <<era, todo, nb, type, current>>
        /\ old' = seek_block(Param, nb) /\ ~AsOld /\ era = None
        /\ ee' = [ee EXCEPT ![dst'] = BodyOf(New)]
        /\ dst' \in Slots /\ ee[dst'].id = Empty
    BY <1>7, LeastIs DEF SetBody, Storing, get_free_block
  <2>2. /\ \A s \in Slots \ {dst'} : ee'[s] = ee[s]
        /\ ee'[dst'].id = Torn
    BY <2>1 DEF StoreTypeOK, BodyOf, New
  <2>3. /\ Resetting' => Resetting
        /\ Place' = Place /\ Param' = Param
    BY <2>1 DEF Resetting, Place, Param, Storing
  <2> SUFFICES ASSUME Resetting, Resetting'
               PROVE  Resets'
    BY <2>3 DEF Resets
  <2>4. (\A j \in 1 .. Place - 1 : AllHeld(DefaultSeq[j]))'
    <3>0. \A j \in 1 .. Place - 1 : j \in 1 .. Len(DefaultSeq)
      BY <1>0, <2>1, WhileResetting DEF Parts
    <3>1. \A j \in 1 .. Place - 1 : DefaultSeq[j] \in Defaults /\ AllHeld(DefaultSeq[j])
      BY <3>0, DefaultJobIs DEF Resets
    <3>2. \A p \in Defaults : AllHeld(p) => AllHeld(p)'
      BY <2>1, <2>2, StaysHeld, DefaultsAre DEF AllHeld
    <3> QED
      BY <2>3, <3>1, <3>2
  <2>5. \A s \in Slots : ee[s].id = Empty \/ Zeroed(s) \/ (Param = Version /\ ee[s].id = Version)
    BY <2>1 DEF Resets
  <2>6. \A s \in Slots : ee[s].id # Version
    <3>1. Param = Version => nb = 0
      BY <1>0, <2>1 DEF Assumptions, ParamsAssumption
    <3>2. Param # Version => \A s \in Slots : ee[s].id # Version
      BY <2>5, DefaultsAre DEF Zeroed
    <3> QED
      BY <2>1, <3>1, <3>2 DEF Resets
  <2>7. old' = None
    <3> SUFFICES ASSUME old' # None
                 PROVE  FALSE
      OBVIOUS
    <3>0. Holders(Param, nb) \in SUBSET Slots /\ Least(Holders(Param, nb)) # None
      BY <2>1 DEF seek_block, Holders
    <3> PICK h \in Holders(Param, nb) : h = Least(Holders(Param, nb))
      BY <3>0, LeastIs
    <3> h \in Slots /\ h = seek_block(Param, nb) /\ ee[h].id = Param /\ ee[h].n = nb
      BY DEF seek_block, Holders
    <3>1. Param # Version /\ Zeroed(h)
      BY <1>0, <2>1, <2>5, <2>6
    <3>2. Head(todo).val[nb] = Zero
      BY <1>0, <2>1, <3>1, WhileResetting DEF Parts
    <3>3. Valid(ee[h])
      BY <2>1, <3>1 DEF Zeroed, Sealed
    <3>4. ee[h] = New
      BY <3>1, <3>2, <3>3 DEF Zeroed, Valid, New, StoreTypeOK, Block
    <3> QED
      BY <1>0, <2>1, <3>4 DEF AsOld
  <2>8. \A s \in Slots : ee'[s].id = Empty \/ Zeroed(s)' \/ s = dst'
    BY <2>2, <2>5, <2>6 DEF Zeroed
  <2>9. \A s \in Slots : ee'[s].id # Version
    BY <2>2, <2>6, DefaultsAre
  <2> QED
    BY <2>1, <2>4, <2>7, <2>8, <2>9 DEF Resets
<1>8. CASE SetId
  <2>1. /\ phase = "body" /\ phase' = "written" /\ Storing /\ nb < NBlocks[Param]
        /\ UNCHANGED <<era, todo, nb, type, current, old, dst>>
        /\ dst \in Slots /\ ee'[dst] = New /\ \A s \in Slots \ {dst} : ee'[s] = ee[s]
        /\ ee[dst].id = Torn
    BY <1>8 DEF SetId, StoreTypeOK, Storing, Parts, Tidy, BodyOf, New
  <2>2. /\ Resetting' => Resetting
        /\ Place' = Place /\ Param' = Param
    BY <2>1 DEF Resetting, Place, Param, Storing
  <2> SUFFICES ASSUME Resetting, Resetting'
               PROVE  Resets'
    BY <2>2 DEF Resets
  <2>3. (\A j \in 1 .. Place - 1 : AllHeld(DefaultSeq[j]))'
    <3>0. \A j \in 1 .. Place - 1 : j \in 1 .. Len(DefaultSeq)
      BY <1>0, <2>1, WhileResetting DEF Parts
    <3>1. \A j \in 1 .. Place - 1 : DefaultSeq[j] \in Defaults /\ AllHeld(DefaultSeq[j])
      BY <3>0, DefaultJobIs DEF Resets
    <3>2. \A p \in Defaults : AllHeld(p) => AllHeld(p)'
      BY <2>1, StaysHeld, DefaultsAre DEF AllHeld
    <3> QED
      BY <2>2, <3>1, <3>2
  <2> PICK d \in Slots : d = dst
    BY <2>1
  <2>4. CASE Param = Version
    <3>1. ee'[d].id = Version
      BY <2>1, <2>4 DEF New
    <3>2. \A s \in Slots : ee'[s].id = Empty \/ Zeroed(s)' \/ ee'[s].id = Version
      BY <2>1, <3>1 DEF Resets, Zeroed
    <3> QED
      BY <2>1, <2>2, <2>3, <2>4, <3>2 DEF Resets
  <2>5. CASE Param # Version
    <3>1. Param \in Defaults /\ Head(todo).val[nb] = Zero
      BY <1>0, <2>1, <2>5, WhileResetting DEF Parts
    <3>2. Zeroed(d)'
      BY <2>1, <3>1 DEF Zeroed, New
    <3>3. \A s \in Slots : ee'[s].id = Empty \/ Zeroed(s)'
      BY <2>1, <2>5, <3>2 DEF Resets, Zeroed
    <3> QED
      BY <2>1, <2>2, <2>3, <3>3 DEF Resets
  <2> QED
    BY <2>4, <2>5
<1>9. CASE SetOld
  <2>1. /\ phase = "written" /\ phase' = "set" /\ Storing /\ nb' = nb + 1 /\ nb \in Nat /\ UNCHANGED todo
    BY <1>0, <1>9 DEF SetOld, Storing, StoreTypeOK
  <2>2. /\ Resetting' => Resetting
        /\ Place' = Place /\ Param' = Param
    BY <2>1 DEF Resetting, Place, Param, Storing
  <2> SUFFICES ASSUME Resetting, Resetting'
               PROVE  Resets'
    BY <2>2 DEF Resets
  <2>3. UNCHANGED <<ee, era>>
    BY <1>9, <2>1 DEF SetOld, Resets
  <2> QED
    BY <2>1, <2>2, <2>3 DEF Resets, AllHeld, Held, Zeroed
<1>10. ASSUME NEW p \in Settable, NEW v \in [0 .. NBlocks[p] - 1 -> Data], Set(p, v)
       PROVE  Resets'
  <2>1. todo' = <<[param |-> p, val |-> v]>> /\ p # Version
    BY <1>10 DEF Set, Assumptions, ParamsAssumption
  <2> QED
    BY <2>1 DEF Resets, Resetting
<1>11. ASSUME NEW p \in Erasable, Erase(p)
       PROVE  Resets'
  BY <1>11, NotResetting DEF Erase, Storing
<1>12. CASE UNCHANGED storeVars
  <2>1. UNCHANGED <<ee, phase, era, todo, nb, old, dst>>
    BY <1>12 DEF storeVars, control
  <2>2. Resetting' = Resetting /\ Place' = Place /\ Param' = Param
    BY <2>1 DEF Resetting, Place, Param, Storing
  <2> QED
    BY <2>1, <2>2 DEF Resets, AllHeld, Held, Zeroed
<1> QED
  BY <1>1, <1>2, <1>3, <1>4, <1>5, <1>6, <1>7, <1>8, <1>9, <1>10, <1>11, <1>12
     DEF StoreNext, Code, Boot, WriteParam, Calls

-----------------------------------------------------------------------------
(* The theorems.                                                           *)

LEMMA InitHolds ==
  ASSUME Assumptions, StoreInit
  PROVE  IInv
<1>1. /\ 1 \in 1 .. NSlots + 1 /\ 1 \in 1 .. MaxVersion /\ 0 \in 0 .. MaxLosses /\ << >> \in Seq(Write)
      /\ ~Storing /\ ~Resetting /\ \A s \in Slots : s >= 1
  BY DEF Assumptions, StoreAssumption, StoreInit, Storing, Resetting, Slots
<1>2. StoreTypeOK
  BY <1>1, BlankType DEF StoreInit, StoreTypeOK, Assumptions, ParamsAssumption, StoreAssumption
<1>3. Jobs /\ Control /\ WrittenSoFar /\ Resets
  BY <1>1, DefaultsAre DEF StoreInit, Jobs, Control, WrittenSoFar, Resets
<1>4. Slots \ Suspects = {}
  BY <1>1 DEF StoreInit, Suspects
<1>5. Tidy
  BY <1>4 DEF StoreInit, Tidy
<1>6. \A s \in Slots : ee[s].id = Empty
  BY DEF StoreInit, BlankBlock
<1>7. Sealed
  BY <1>6, DefaultsAre DEF Sealed, Seals
<1> QED
  BY <1>2, <1>3, <1>5, <1>7 DEF IInv, Parts

LEMMA Invariance ==
  ASSUME Assumptions
  PROVE  StoreSpec => []IInv
<1>1. StoreInit => IInv
  BY InitHolds
<1>2. IInv /\ [StoreNext]_storeVars => IInv'
  <2> SUFFICES ASSUME IInv, [StoreNext]_storeVars
               PROVE  IInv'
    OBVIOUS
  <2>1. StoreTypeOK /\ Parts /\ Jobs /\ Control /\ Tidy /\ WrittenSoFar /\ Sealed /\ Resets
    BY DEF IInv, Parts
  <2>2. StoreTypeOK' /\ Jobs' /\ Control' /\ Tidy' /\ WrittenSoFar'
    BY <2>1, TypeStep, JobsStep, ControlStep, TidyStep, WrittenStep
  <2>3. Sealed' /\ Resets'
    BY <2>1, <2>2, SealedStep, ResetsStep
  <2> QED
    BY <2>2, <2>3 DEF IInv, Parts
<1> QED
  BY <1>1, <1>2, PTL DEF StoreSpec

(* Every variable keeps its type, whatever is called and whenever power is *)
(* lost.                                                                   *)
THEOREM StoreTypes ==
  ASSUME Assumptions
  PROVE  StoreSpec => []StoreTypeOK
<1>1. IInv => StoreTypeOK
  BY DEF IInv
<1> QED
  BY <1>1, Invariance, PTL

(* A store that is not being written has no duplicate and no invalid block *)
(* (clean_blocks, write_param), and the version is never there without the *)
(* defaults, which cfg_v_default_all writes before it.                     *)
THEOREM StoreSoundHolds ==
  ASSUME Assumptions
  PROVE  StoreSpec => []StoreSound
<1>1. IInv => CleanWhenIdle
  <2> SUFFICES ASSUME IInv, phase = "idle", NEW s \in Slots, ee[s].id # Empty
               PROVE  Valid(ee[s]) /\ Twins(s) = {}
    BY DEF CleanWhenIdle
  <2>1. Suspects = {None} /\ None \notin Slots
    BY DEF IInv, Parts, Control, Suspects, None, Slots
  <2>2. Valid(ee[s]) /\ Alone(s)
    BY <2>1 DEF IInv, Parts, Tidy, Proper
  <2> QED
    BY <2>2, NoTwins
<1>2. IInv => VersionSeals
  <2> SUFFICES ASSUME IInv, ~wiping, IsStored(Version, 0), ValueOf(Version, 0) \in {current, current - 1},
                      NEW p \in Defaults, NEW n \in 0 .. NBlocks[p] - 1
               PROVE  IsStored(p, n)
    BY DEF VersionSeals
  <2>1. PICK s \in Slots : s = seek_block(Version, 0) /\ ee[s].id = Version
    BY LeastIs DEF seek_block, IsStored, Holders
  <2>2. Seals(s)
    BY <2>1 DEF Seals, ValueOf, None, Slots
  <2>3. AllHeld(p)
    BY <2>2 DEF IInv, Sealed
  <2> QED
    BY <2>3 DEF AllHeld, Held, IsStored, Holders
<1> QED
  BY <1>1, <1>2, Invariance, PTL DEF StoreSound

-----------------------------------------------------------------------------
(* The store implements an atomic map.                                     *)

LEMMA KeyIs ==
  ASSUME NEW k
  PROVE  k \in Keys <=> \E p \in Params : \E n \in 0 .. NBlocks[p] - 1 : k = <<p, n>>
  BY DEF Keys, KeysOf

(* What is stored under a key, by the blocks that hold it.                 *)
LEMMA ContentsAre ==
  ASSUME Assumptions, NEW k \in Keys
  PROVE  /\ Holders(k[1], k[2]) = {} => Contents[k] = << >>
         /\ Holders(k[1], k[2]) # {} => Contents[k] = <<ee[Least(Holders(k[1], k[2]))].val>>
         /\ Holders(k[1], k[2]) \in SUBSET Slots
<1>1. Holders(k[1], k[2]) \in SUBSET Slots /\ None \notin Slots
  BY DEF Holders, Slots, None
<1>2. seek_block(k[1], k[2]) = None <=> Holders(k[1], k[2]) = {}
  BY <1>1, LeastIs DEF seek_block
<1> QED
  BY <1>1, <1>2 DEF Contents, IsStored, ValueOf, seek_block

LEMMA OneHolder ==
  ASSUME Assumptions, NEW k \in Keys, NEW s \in Slots, Holders(k[1], k[2]) = {s}
  PROVE  Contents[k] = <<ee[s].val>>
<1>1. Least(Holders(k[1], k[2])) = s
  BY LeastIsIn
<1> QED
  BY <1>1, ContentsAre

LEMMA SameContents ==
  ASSUME NEW k \in Keys, Holders(k[1], k[2])' = Holders(k[1], k[2]),
         \A s \in Holders(k[1], k[2]) : ee'[s].val = ee[s].val, Assumptions
  PROVE  Contents'[k] = Contents[k]
<1>1. Holders(k[1], k[2]) \in SUBSET Slots
  BY DEF Holders
<1>2. CASE Holders(k[1], k[2]) = {}
  BY <1>2 DEF Contents, IsStored
<1>3. CASE Holders(k[1], k[2]) # {}
  <2>1. Least(Holders(k[1], k[2])) \in Holders(k[1], k[2])
    BY <1>1, <1>3, LeastIsIn
  <2>2. None \notin Slots /\ seek_block(k[1], k[2])' = seek_block(k[1], k[2])
    BY DEF Slots, None, seek_block
  <2>3. ValueOf(k[1], k[2])' = ValueOf(k[1], k[2])
    BY <1>1, <2>1, <2>2 DEF ValueOf, seek_block
  <2> QED
    BY <2>3 DEF Contents, IsStored
<1> QED
  BY <1>2, <1>3

LEMMA ContentsEqual ==
  ASSUME \A k \in Keys : Contents'[k] = Contents[k]
  PROVE  Contents' = Contents
  BY DEF Contents

(* A block that is erased leaves the other keys as they are.               *)
LEMMA FadeContents ==
  ASSUME Assumptions, NEW s, \A t \in Slots \ {s} : ee'[t] = ee[t],
         s \in Slots => ee'[s].id \in {Empty, Torn},
         NEW k \in Keys, s \in Slots => ~(ee[s].id = k[1] /\ ee[s].n = k[2])
  PROVE  Holders(k[1], k[2])' = Holders(k[1], k[2]) /\ Contents'[k] = Contents[k]
<1>1. k[1] \in Params
  BY KeyIs
<1>2. Holders(k[1], k[2])' = Holders(k[1], k[2])
  BY <1>1, DefaultsAre DEF Holders
<1> QED
  BY <1>2, SameContents DEF Holders

(* ... and its own, if it was the only one, without a value.               *)
LEMMA DropContents ==
  ASSUME Assumptions, StoreTypeOK, NEW s \in Slots, Alone(s), NEW p \in Params, NEW n, n < NBlocks[p],
         ee[s].id = p, ee[s].n = n,
         \A t \in Slots \ {s} : ee'[t] = ee[t], ee'[s].id \in {Empty, Torn}
  PROVE  /\ <<p, n>> \in Keys /\ Holders(p, n)' = {}
         /\ Contents' = [Contents EXCEPT ![<<p, n>>] = << >>]
<1> DEFINE k == <<p, n>>
<1>1. k \in Keys
  <2>1. n \in 0 .. NBlocks[p] - 1
    BY DEF StoreTypeOK, Block, Assumptions, ParamsAssumption
  <2> QED
    BY <2>1, KeyIs
<1>2. Holders(p, n)' = {}
  BY DefaultsAre DEF Holders, Alone, Same
<1>3. Contents'[k] = << >>
  BY <1>1, <1>2 DEF Contents, IsStored
<1>4. \A j \in Keys : j # k => ~(p = j[1] /\ n = j[2])
  BY KeyIs
<1>5. \A j \in Keys : j # k => Contents'[j] = Contents[j]
  BY <1>4, FadeContents
<1>6. Contents' = [Contents EXCEPT ![k] = << >>]
  <2>1. Contents = [j \in Keys |-> Contents[j]] /\ Contents' = [j \in Keys |-> Contents'[j]]
    BY DEF Contents
  <2> HIDE DEF k
  <2> QED
    BY <1>1, <1>3, <1>5, <2>1
<1> QED
  BY <1>1, <1>2, <1>6

(* Is there a free block?                                                  *)
LEMMA RoomIs ==
  ASSUME Assumptions
  PROVE  Room <=> \E s \in Slots : ee[s].id = Empty
  BY LeastIs DEF Room, get_free_block

LEMMA RoomStays ==
  ASSUME Assumptions, NEW s, \A t \in Slots \ {s} : ee'[t] = ee[t],
         s \in Slots => ee[s].id # Empty /\ ee'[s].id # Empty
  PROVE  get_free_block' = get_free_block
<1>1. {t \in Slots : ee[t].id = Empty}' = {t \in Slots : ee[t].id = Empty}
  OBVIOUS
<1> QED
  BY <1>1 DEF get_free_block

(* Jobs.                                                                   *)
LEMMA PendingIs ==
  ASSUME Assumptions, StoreTypeOK, Jobs
  PROVE  /\ todo = << >> => Pending = Map!Nothing
         /\ Map!IsWrite(Pending)
         /\ Storing => Pending # Map!Nothing /\ PendingKeys = KeysOf(Param)
<1>1. CASE todo = << >>
  <2>1. PendingKeys = {} /\ ~Storing
    BY <1>1 DEF PendingKeys, StoreTypeOK, Storing
  <2>2. Pending = Map!Nothing
    BY <2>1 DEF Pending, Map!Nothing
  <2>3. Map!IsWrite(Pending)
    BY <2>1 DEF Pending, Map!IsWrite
  <2> QED
    BY <2>1, <2>2, <2>3
<1>2. CASE todo # << >>
  <2>1. Storing /\ Param \in Params /\ Head(todo).val \in [0 .. NBlocks[Param] - 1 -> Values]
        /\ NBlocks[Param] \in Nat \ {0}
    BY <1>2, HeadOfJob DEF StoreTypeOK, Storing
  <2>2. PendingKeys = KeysOf(Param) /\ KeysOf(Param) \subseteq Keys
    BY <1>2, <2>1 DEF PendingKeys, Keys, KeysOf
  <2>3. \A k \in PendingKeys : Head(todo).val[k[2]] \in Values
    BY <2>1, <2>2 DEF KeysOf
  <2>4. Map!IsWrite(Pending)
    BY <2>2, <2>3 DEF Pending, Map!IsWrite
  <2>5. <<Param, 0>> \in DOMAIN Pending
    BY <2>1, <2>2 DEF Pending, KeysOf
  <2>6. Pending # Map!Nothing
    BY <2>5 DEF Map!Nothing
  <2> QED
    BY <1>2, <2>1, <2>2, <2>4, <2>6
<1> QED
  BY <1>1, <1>2

LEMMA AsBefore ==
  ASSUME UNCHANGED <<Contents, Pending, Condemned, losses, Room, full>>
  PROVE  [Map!Next]_(Map!vars)
  BY DEF Map!vars

(* What PendingIs says of the next state.                                  *)
IsPending == Map!IsWrite(Pending) /\ (todo = << >> => Pending = Map!Nothing)

LEMMA AsRequest ==
  ASSUME Assumptions, StoreTypeOK, Jobs, IsPending', todo = << >>, UNCHANGED <<Contents, losses, Room, full>>
  PROVE  [Map!Next]_(Map!vars)
<1>1. Pending = Map!Nothing /\ Map!IsWrite(Pending)' /\ Condemned' \subseteq Keys
  <2>1. Map!IsWrite(Pending)' /\ Condemned' \subseteq Keys
    BY DEF IsPending, Condemned
  <2> QED
    BY <2>1, PendingIs
<1>2. Map!Request
  BY <1>1 DEF Map!Request, Map!IsWrite
<1> QED
  BY <1>2 DEF Map!Next

LEMMA PendingKept ==
  ASSUME UNCHANGED todo
  PROVE  Pending' = Pending /\ PendingKeys' = PendingKeys
  BY DEF Pending, PendingKeys, Param

LEMMA UnchangedStore ==
  ASSUME UNCHANGED ee
  PROVE  Contents' = Contents /\ Room' = Room
  BY DEF Contents, IsStored, ValueOf, seek_block, Holders, Room, get_free_block

(* A key is written, by a block that takes the place of another.           *)
LEMMA AsPut ==
  ASSUME Assumptions, StoreTypeOK, Jobs, Storing, nb < NBlocks[Param], UNCHANGED todo, Condemned' = Condemned,
         UNCHANGED <<losses, full>>, Room' = Room,
         Contents'[<<Param, nb>>] \in {Contents[<<Param, nb>>], <<Head(todo).val[nb]>>},
         \A k \in Keys : k # <<Param, nb>> => Contents'[k] = Contents[k]
  PROVE  [Map!Next]_(Map!vars)
<1> DEFINE k == <<Param, nb>>
<1>1. k \in Keys /\ k \in DOMAIN Pending /\ Pending[k] = <<Head(todo).val[nb]>>
  <2>1. nb \in 0 .. NBlocks[Param] - 1 /\ Param \in Params
    BY HeadOfJob DEF StoreTypeOK
  <2>2. k \in KeysOf(Param) /\ k \in Keys
    BY <2>1, KeyIs DEF KeysOf
  <2>3. k \in PendingKeys
    BY <2>2, PendingIs
  <2> QED
    BY <2>2, <2>3 DEF Pending
<1>2. Pending' = Pending
  BY PendingKept
<1>3. Contents = [j \in Keys |-> Contents[j]] /\ Contents' = [j \in Keys |-> Contents'[j]]
  BY DEF Contents
<1>6. \A j \in Keys : j # k => Contents'[j] = Contents[j]
  OBVIOUS
<1>4. CASE Contents'[k] = Contents[k]
  <2>1. Contents' = Contents
    BY <1>3, <1>4, <1>6
  <2> QED
    BY <1>2, <2>1, AsBefore
<1>5. CASE Contents'[k] = Pending[k]
  <2>1. Contents' = [Contents EXCEPT ![k] = Pending[k]]
    <3> HIDE DEF k
    <3> QED
      BY <1>1, <1>3, <1>5, <1>6
  <2>2. Map!Put(k)
    BY <1>1, <1>2, <2>1 DEF Map!Put
  <2> QED
    BY <1>1, <2>2 DEF Map!Next
<1> QED
  BY <1>1, <1>4, <1>5

(* A key is erased, with the only block that holds it.                     *)
LEMMA AsDrop ==
  ASSUME Assumptions, StoreTypeOK, NEW s \in Slots, Alone(s), NEW p \in Params, NEW n, n < NBlocks[p],
         ee[s].id = p, ee[s].n = n,
         \A t \in Slots \ {s} : ee'[t] = ee[t], ee'[s].id = Torn,
         UNCHANGED <<todo, losses, full>>,
         <<p, n>> \in Condemned, Condemned' \in {Condemned, Condemned \ {<<p, n>>}}
  PROVE  [Map!Next]_(Map!vars)
<1> DEFINE k == <<p, n>>
<1>1. k \in Keys /\ Contents' = [Contents EXCEPT ![k] = << >>]
  BY DropContents
<1>2. Room' = Room /\ Pending' = Pending
  <2>1. get_free_block' = get_free_block
    BY RoomStays, DefaultsAre DEF Empty, Torn
  <2> QED
    BY <2>1, PendingKept DEF Room
<1>3. Map!Drop(k)
  BY <1>1, <1>2 DEF Map!Drop
<1> QED
  BY <1>1, <1>3 DEF Map!Next

LEMMA MapInit ==
  ASSUME Assumptions, StoreInit
  PROVE  Map!Init
<1>1. \A s \in Slots : ee[s].id = Empty
  BY DEF StoreInit, BlankBlock
<1>2. Contents = [k \in Keys |-> << >>]
  <2>1. \A k \in Keys : Holders(k[1], k[2]) = {}
    BY <1>1, KeyIs, DefaultsAre DEF Holders
  <2> QED
    BY <2>1 DEF Contents, IsStored
<1>3. Pending = Map!Nothing
  BY DEF StoreInit, Pending, PendingKeys, Map!Nothing
<1>4. Condemned = {}
  BY <1>1, KeyIs, DefaultsAre DEF StoreInit, Condemned, Holders
<1>5. Room
  <2>1. 1 \in Slots
    <3>1. Cardinality(DefaultKeys) \in Nat
      BY DefaultKeysFinite, FS_CardinalityType
    <3> QED
      BY <3>1 DEF Slots, Assumptions, StoreAssumption
  <2> QED
    BY <1>1, <2>1, RoomIs
<1> QED
  BY <1>2, <1>3, <1>4, <1>5 DEF StoreInit, Map!Init

LEMMA MapStep ==
  ASSUME Assumptions, StoreTypeOK, Parts, IsPending', [StoreNext]_storeVars
  PROVE  [Map!Next]_(Map!vars)
<1> USE DEF firmware
<1>0. /\ None \notin Slots /\ StoreTypeOK /\ Jobs
      /\ Storing => /\ nb \in Nat /\ Param \in Params /\ Param \notin {Empty, Torn}
                    /\ NBlocks[Param] \in Nat
  BY HeadOfJob DEF Slots, None, Assumptions, ParamsAssumption, StoreTypeOK, Parts
<1>1. CASE CleanNext \/ CheckVersion \/ WriteDefaults \/ EraseOver \/ ResetConfig
           \/ (\E p \in Settable : \E v \in [0 .. NBlocks[p] - 1 -> Data] : Set(p, v))
           \/ (\E p \in Erasable : Erase(p))
  <2>1. UNCHANGED <<ee, losses, full>> /\ todo = << >>
    BY <1>1 DEF CleanNext, CheckVersion, WriteDefaults, EraseOver, ResetConfig, Set, Erase, StoreTypeOK
  <2> QED
    BY <1>0, <2>1, UnchangedStore, AsRequest
<1>2. CASE FinishErase
  <2>1. /\ era \in Slots /\ ee[era].id = Torn /\ ee'[era].id = Empty
        /\ UNCHANGED <<phase, type, todo, target, losses, full>>
        /\ \A t \in Slots \ {era} : ee'[t] = ee[t]
    BY <1>2 DEF FinishErase, StoreTypeOK, Parts, Tidy, BlankBlock
  <2>2. \A k \in Keys : ~(ee[era].id = k[1] /\ ee[era].n = k[2])
    BY <2>1, KeyIs, DefaultsAre
  <2>3. \A k \in Keys : Holders(k[1], k[2])' = Holders(k[1], k[2]) /\ Contents'[k] = Contents[k]
    BY <2>1, <2>2, FadeContents
  <2>4. Contents' = Contents
    BY <2>3, ContentsEqual
  <2>5. \A k \in Keys : \A s \in Holders(k[1], k[2]) : Valid(ee[s])' <=> Valid(ee[s])
    BY <2>1, <2>2 DEF Valid, Holders
  <2>6. Condemned' = Condemned
    BY <2>1, <2>3, <2>5 DEF Condemned
  <2>7. Pending' = Pending
    BY <2>1, PendingKept
  <2>8. Room'
    <3>1. {s \in Slots : ee'[s].id = Empty} # {}
      BY <2>1
    <3>2. Least({s \in Slots : ee'[s].id = Empty}) # None
      BY <3>1, LeastIs
    <3> QED
      BY <3>2 DEF Room, get_free_block
  <2>9. CASE Room
    <3>1. Room' = Room
      BY <2>8, <2>9 DEF Room
    <3> QED
      BY <2>1, <2>4, <2>6, <2>7, <3>1, AsBefore
  <2>10. CASE ~Room
    <3>1. Room' = ~Room
      BY <2>8, <2>10 DEF Room
    <3> QED
      BY <2>1, <2>4, <2>6, <2>7, <3>1 DEF Map!Next, Map!Space
  <2> QED
    BY <2>9, <2>10
<1>3. CASE CleanDuplicate
  <2> DEFINE t == Least(Twins(slot))
  <2>1. phase = "clean" /\ slot \in Slots /\ ee[slot].id \in Params /\ UNCHANGED <<losses, full>> /\ todo = << >>
    BY <1>3 DEF CleanDuplicate, StoreTypeOK
  <2>2. t \in Slots \ {slot} /\ Same(t, slot) /\ StartErase(t)
    BY <1>3, LeastIs DEF CleanDuplicate, Twins, Same
  <2> HIDE DEF t
  <2> PICK u \in Slots \ {slot} : u = t
    BY <2>2
  <2>3. /\ \A r \in Slots \ {u} : ee'[r] = ee[r]
        /\ ee'[u].id = Torn
    BY <2>2, Erasing
  <2>4. \A r \in Slots : Same(r, slot) => slot <= r
    <3> SUFFICES ASSUME NEW r \in Slots, Same(r, slot), r < slot
                 PROVE  FALSE
      BY <2>1 DEF Slots
    <3>1. r \notin Suspects
      BY <1>3, <2>1, <1>0 DEF Suspects, CleanDuplicate, Slots
    <3>2. Alone(r)
      BY <2>1, <3>1, DefaultsAre DEF Parts, Tidy, Proper, Same
    <3> QED
      BY <2>1, <3>2 DEF Alone, Same, Slots
  <2>5. \A k \in Keys : Contents'[k] = Contents[k]
    <3> SUFFICES ASSUME NEW k \in Keys
                 PROVE  Contents'[k] = Contents[k]
      OBVIOUS
    <3>1. CASE ~(ee[u].id = k[1] /\ ee[u].n = k[2])
      BY <2>3, <3>1, FadeContents
    <3>2. CASE ee[u].id = k[1] /\ ee[u].n = k[2]
      <4> PICK c \in Slots : c = slot
        BY <2>1
      <4>1. Holders(k[1], k[2]) \in SUBSET Slots /\ Holders(k[1], k[2])' \in SUBSET Slots
        BY DEF Holders
      <4>2. /\ c \in Holders(k[1], k[2]) /\ c \in Holders(k[1], k[2])'
            /\ \A r \in Holders(k[1], k[2]) : Same(r, slot)
        BY <2>2, <2>3, <3>2 DEF Holders, Same
      <4>3. \A r \in Holders(k[1], k[2])' : r \in Holders(k[1], k[2])
        BY <2>1, <2>2, <2>3, <3>2, DefaultsAre DEF Holders, Same
      <4>4. \A r \in Holders(k[1], k[2]) : c <= r
        BY <2>4, <4>1, <4>2
      <4>5. Least(Holders(k[1], k[2])) = c
        BY <4>1, <4>2, <4>4, LeastIsIn DEF Slots
      <4>6. Least(Holders(k[1], k[2])') = c
        BY <4>1, <4>2, <4>3, <4>4, LeastIsIn DEF Slots
      <4>7. /\ seek_block(k[1], k[2]) = c /\ seek_block(k[1], k[2])' = c /\ c # None
            /\ IsStored(k[1], k[2]) /\ IsStored(k[1], k[2])'
        BY <1>0, <4>2, <4>5, <4>6 DEF seek_block, IsStored
      <4>8. ValueOf(k[1], k[2]) = ee[c].val /\ ValueOf(k[1], k[2])' = ee'[c].val
        BY <4>7 DEF ValueOf
      <4> QED
        BY <2>3, <4>7, <4>8 DEF Contents
    <3> QED
      BY <3>1, <3>2
  <2>6. Contents' = Contents
    BY <2>5, ContentsEqual
  <2>7. Room' = Room
    <3>1. get_free_block' = get_free_block
      BY <2>1, <2>2, <2>3, RoomStays, DefaultsAre DEF Same, Empty, Torn
    <3> QED
      BY <3>1 DEF Room
  <2> QED
    BY <1>0, <2>1, <2>6, <2>7, AsRequest
<1>4. CASE CleanInvalid
  <2> PICK s \in Slots : s = slot
    BY <1>4 DEF CleanInvalid
  <2>1. /\ phase = "clean" /\ phase' = "clean" /\ era = None /\ ~Valid(ee[s]) /\ ee[s].id # Empty
        /\ UNCHANGED <<type, todo, losses, full>> /\ todo = << >>
        /\ \A t \in Slots \ {s} : ee'[t] = ee[t]
        /\ ee'[s].id = Torn
    BY <1>4, Erasing DEF CleanInvalid, StoreTypeOK
  <2>2. ee[s].id \in Params => Alone(s)
    BY <1>4, NoTwins DEF CleanInvalid
  <2>3. CASE ee[s].id \in Params /\ ee[s].n < NBlocks[ee[s].id]
    <3> PICK p \in Params, n \in Nat : p = ee[s].id /\ n = ee[s].n /\ n < NBlocks[p]
      BY <2>3 DEF StoreTypeOK, Block
    <3>1. <<p, n>> \in Keys /\ Holders(p, n)' = {}
      BY <2>1, <2>2, DropContents
    <3>2. <<p, n>> \in Condemned
      BY <2>1, <3>1 DEF Condemned, Holders
    <3>3. \A k \in Keys : k # <<p, n>> => ~(ee[s].id = k[1] /\ ee[s].n = k[2])
      BY KeyIs
    <3>4. \A k \in Keys : k # <<p, n>> =>
            /\ Holders(k[1], k[2])' = Holders(k[1], k[2])
            /\ \A t \in Holders(k[1], k[2]) : ee'[t] = ee[t]
      BY <2>1, <3>3, FadeContents DEF Holders
    <3>5. Condemned' = Condemned \ {<<p, n>>}
      BY <2>1, <3>1, <3>4 DEF Condemned, Valid
    <3> QED
      BY <2>1, <2>2, <3>2, <3>5, AsDrop
  <2>4. CASE ~(ee[s].id \in Params /\ ee[s].n < NBlocks[ee[s].id])
    <3>1. \A k \in Keys : ~(ee[s].id = k[1] /\ ee[s].n = k[2])
      BY <2>4, KeyIs DEF Assumptions, ParamsAssumption
    <3>2. Contents' = Contents
      BY <2>1, <3>1, FadeContents, ContentsEqual
    <3>3. Room' = Room
      <4>1. get_free_block' = get_free_block
        BY <2>1, RoomStays DEF Empty, Torn
      <4> QED
        BY <4>1 DEF Room
    <3> QED
      BY <1>0, <2>1, <3>2, <3>3, AsRequest
  <2> QED
    BY <2>3, <2>4
<1>5. CASE Wipe \/ EraseNext
  <2> PICK s \in Slots : s = slot
    BY <1>5 DEF Wipe, EraseNext
  <2>1. /\ phase \in {"wipe", "erase"} /\ phase' = phase /\ era = None
        /\ UNCHANGED <<target, todo, losses, full>> /\ todo = << >>
    BY <1>5 DEF Wipe, EraseNext, StoreTypeOK
  <2>2. CASE UNCHANGED ee
    BY <1>0, <2>1, <2>2, UnchangedStore, AsRequest
  <2>3. CASE StartErase(s) /\ ee[s].id # Empty /\ (phase = "erase" => ee[s].id = target)
    <3>1. Valid(ee[s]) /\ Alone(s)
      BY <1>0, <2>1, <2>3 DEF Parts, Tidy, Suspects, Proper
    <3> PICK p \in Params, n \in Nat : p = ee[s].id /\ n = ee[s].n /\ n < NBlocks[p]
      BY <3>1 DEF Valid, StoreTypeOK, Block
    <3>2. /\ \A t \in Slots \ {s} : ee'[t] = ee[t]
          /\ ee'[s].id = Torn
      BY <2>3, Erasing
    <3>3. <<p, n>> \in Keys
      BY <3>1, <3>2, DropContents
    <3>4. <<p, n>> \in Condemned /\ Condemned' = Condemned
      BY <2>1, <2>3, <3>3 DEF Condemned
    <3> QED
      BY <2>1, <3>1, <3>2, <3>4, AsDrop
  <2> QED
    BY <1>5, <2>2, <2>3, DefaultsAre DEF Wipe, EraseNext, StoreTypeOK
<1>6. CASE SetSame
  <2>1. UNCHANGED <<ee, todo, losses, full>> /\ Condemned = {} /\ Condemned' = {}
    BY <1>6 DEF SetSame, Condemned
  <2> QED
    BY <2>1, UnchangedStore, PendingKept, AsBefore
<1>7. CASE SetFull
  <2>1. /\ UNCHANGED <<ee, losses>> /\ full' = TRUE /\ ~Room /\ phase = "set" /\ phase' \in {"set", "idle"}
    BY <1>7 DEF SetFull, Room, EndOfParam
  <2>2. Condemned = {} /\ Condemned' = {}
    BY <2>1 DEF Condemned
  <2>3. Pending # Map!Nothing
    BY <1>0, <2>1, PendingIs DEF Storing
  <2>4. Map!IsWrite(Pending)'
    BY DEF IsPending
  <2>5. Map!EndWrite
    BY <2>1, <2>2, <2>3, <2>4, UnchangedStore DEF Map!EndWrite, Map!IsWrite
  <2> QED
    BY <2>5 DEF Map!Next
<1>8. CASE SetDone
  <2>1. /\ UNCHANGED <<ee, losses, full>> /\ phase = "set" /\ phase' \in {"set", "idle"} /\ era = None
        /\ nb = NBlocks[Param] /\ Storing
    BY <1>8 DEF SetDone, EndOfParam, Storing
  <2>2. Condemned = {} /\ Condemned' = {}
    BY <2>1 DEF Condemned
  <2>3. Pending # Map!Nothing /\ PendingKeys = KeysOf(Param)
    BY <1>0, <2>1, PendingIs
  <2>4. Map!IsWrite(Pending)'
    BY DEF IsPending
  <2>5. ASSUME NEW k \in DOMAIN Pending
        PROVE  Contents[k] = Pending[k]
    <3>1. k \in KeysOf(Param) /\ Pending[k] = <<Head(todo).val[k[2]]>>
      BY <2>3 DEF Pending
    <3>2. k \in Keys /\ k[1] = Param /\ k[2] \in 0 .. nb - 1
      BY <1>0, <2>1, <3>1 DEF KeysOf, Keys
    <3>3. PICK s \in Slots : ee[s].id = Param /\ ee[s].n = k[2] /\ ee[s].val = Head(todo).val[k[2]]
      BY <2>1, <3>2 DEF Parts, WrittenSoFar
    <3>4. Alone(s)
      BY <1>0, <2>1, <3>3 DEF Parts, Tidy, Suspects, Proper
    <3>5. Holders(k[1], k[2]) = {s}
      BY <3>2, <3>3, <3>4 DEF Holders, Alone, Same
    <3> QED
      BY <3>1, <3>2, <3>3, <3>5, OneHolder
  <2>6. Map!EndWrite
    BY <2>1, <2>2, <2>3, <2>4, <2>5, UnchangedStore DEF Map!EndWrite, Map!IsWrite
  <2> QED
    BY <2>6 DEF Map!Next
<1>9. CASE SetBody
  <2>1. /\ UNCHANGED <<todo, losses, full>> /\ phase = "set" /\ phase' = "body"
        /\ dst' \in Slots /\ ee[dst'].id = Empty /\ ee' = [ee EXCEPT ![dst'] = BodyOf(New)]
    BY <1>9, LeastIs DEF SetBody, get_free_block
  <2> PICK d \in Slots : d = dst'
    BY <2>1
  <2>2. /\ \A s \in Slots \ {d} : ee'[s] = ee[s]
        /\ ee'[d].id = Torn
    BY <2>1 DEF StoreTypeOK, BodyOf, New
  <2>3. \A k \in Keys : ~(ee[d].id = k[1] /\ ee[d].n = k[2])
    BY <2>1, KeyIs, DefaultsAre
  <2>4. Contents' = Contents
    BY <2>2, <2>3, FadeContents, ContentsEqual
  <2>5. Condemned = {} /\ Condemned' = {} /\ Pending' = Pending
    BY <2>1, PendingKept DEF Condemned
  <2>6. CASE Room' = Room
    BY <2>1, <2>4, <2>5, <2>6, AsBefore
  <2>7. CASE Room' # Room
    <3>1. Room' = ~Room
      BY <2>7 DEF Room
    <3> QED
      BY <2>1, <2>4, <2>5, <3>1 DEF Map!Next, Map!Space
  <2> QED
    BY <2>6, <2>7
<1>10. CASE SetId
  <2>1. /\ phase = "body" /\ phase' = "written" /\ Storing /\ nb < NBlocks[Param]
        /\ UNCHANGED <<todo, losses, full>> /\ dst \in Slots
        /\ ee'[dst] = New /\ \A s \in Slots \ {dst} : ee'[s] = ee[s]
    BY <1>10 DEF SetId, StoreTypeOK, Storing
  <2>2. /\ ee[dst].id = Torn /\ dst # old
        /\ \A s \in Slots : ee[s].id = Param /\ ee[s].n = nb <=> s = old
    BY <2>1 DEF Parts, Tidy, BodyOf, New
  <2> PICK d \in Slots : d = dst
    BY <2>1
  <2> PICK p \in Params, n \in Nat : p = Param /\ n = nb
    BY <1>0, <2>1
  <2> PICK o : o = old
    OBVIOUS
  <2>3. New.id = p /\ New.n = n /\ New.val = Head(todo).val[n]
    BY DEF New
  <2>4. <<p, n>> \in Keys
    BY <1>0, <2>1, KeyIs
  <2>5. ASSUME NEW k \in Keys, k # <<p, n>>
        PROVE  Contents'[k] = Contents[k]
    <3>1. k[1] \in Params /\ ~(p = k[1] /\ n = k[2])
      BY <2>5, KeyIs
    <3>2. Holders(k[1], k[2])' = Holders(k[1], k[2])
      BY <2>1, <2>2, <2>3, <3>1, DefaultsAre DEF Holders
    <3>3. \A s \in Holders(k[1], k[2]) : ee'[s].val = ee[s].val
      BY <2>1, <2>2, <3>1, DefaultsAre DEF Holders
    <3> QED
      BY <3>2, <3>3, SameContents
  <2>6. Contents'[<<p, n>>] \in {Contents[<<p, n>>], <<Head(todo).val[n]>>}
    <3>1. Holders(p, n)' = {d} \cup Holders(p, n) /\ Holders(p, n) = {o} \cap Slots
      BY <2>1, <2>2, <2>3 DEF Holders
    <3> DEFINE l == Least(Holders(p, n)')
    <3>2. Holders(p, n)' \in SUBSET Slots /\ Holders(p, n)' # {}
      BY <3>1
    <3>3. l \in Holders(p, n)'
      BY <3>2, LeastIsIn
    <3>4. Contents'[<<p, n>>] = <<ee'[l].val>>
      <4>1. seek_block(p, n)' = l /\ IsStored(p, n)' /\ l # None
        BY <1>0, <3>2, <3>3 DEF seek_block, IsStored
      <4>2. ValueOf(p, n)' = ee'[l].val
        BY <4>1 DEF ValueOf
      <4> HIDE DEF l
      <4> QED
        BY <2>4, <4>1, <4>2 DEF Contents
    <3>5. CASE l = d
      BY <2>1, <2>3, <3>4, <3>5
    <3>6. CASE l # d
      <4>1. l = o /\ l \in Slots /\ Holders(p, n) = {l}
        BY <3>1, <3>3, <3>6
      <4>2. Contents[<<p, n>>] = <<ee[l].val>>
        <5> PICK m \in Slots : m = l
          BY <4>1
        <5> QED
          BY <2>4, <4>1, OneHolder
      <4>3. ee'[l] = ee[l]
        BY <2>1, <3>6, <4>1
      <4> QED
        BY <3>4, <4>2, <4>3
    <3> QED
      BY <3>5, <3>6
  <2>7. Room' = Room
    <3>1. get_free_block' = get_free_block
      BY <2>1, <2>2, <2>3, RoomStays, DefaultsAre DEF Empty, Torn
    <3> QED
      BY <3>1 DEF Room
  <2>8. Condemned = {} /\ Condemned' = Condemned
    BY <2>1 DEF Condemned
  <2> QED
    BY <1>0, <2>1, <2>5, <2>6, <2>7, <2>8, AsPut
<1>11. CASE SetOld
  <2>1. /\ phase = "written" /\ phase' = "set" /\ Storing /\ nb < NBlocks[Param]
        /\ UNCHANGED <<todo, losses, full>> /\ dst \in Slots \ {old} /\ old \in Slots \cup {None}
        /\ ee[dst] = New
        /\ \A s \in Slots : ee[s].id = Param /\ ee[s].n = nb <=> s \in {dst, old} \ {None}
    BY <1>11 DEF SetOld, StoreTypeOK, Storing, Parts, Tidy
  <2>2. Condemned = {} /\ Condemned' = Condemned
    BY <2>1 DEF Condemned
  <2>3. CASE old = None
    <3>1. UNCHANGED ee
      BY <1>11, <2>3 DEF SetOld
    <3> QED
      BY <2>1, <2>2, <3>1, UnchangedStore, PendingKept, AsBefore
  <2>4. CASE old # None
    <3> PICK d \in Slots, o \in Slots, p \in Params, n \in Nat : d = dst /\ o = old /\ p = Param /\ n = nb
      BY <1>0, <2>1, <2>4
    <3>1. /\ \A s \in Slots \ {o} : ee'[s] = ee[s]
          /\ ee'[o].id = Torn
      BY <1>11, <2>4, Erasing DEF SetOld
    <3>2. <<p, n>> \in Keys /\ ee[o].id = p /\ ee[o].n = n
      BY <1>0, <2>1, KeyIs
    <3>3. \A k \in Keys : k # <<p, n>> => Contents'[k] = Contents[k]
      <4>1. \A k \in Keys : k # <<p, n>> => ~(ee[o].id = k[1] /\ ee[o].n = k[2])
        BY <3>2, KeyIs
      <4> QED
        BY <3>1, <4>1, FadeContents
    <3>4. Contents'[<<p, n>>] = <<Head(todo).val[n]>>
      <4>1. Holders(p, n)' = {d}
        BY <1>0, <2>1, <3>1, <3>2, DefaultsAre DEF Holders
      <4>2. Least({d}) = d
        BY LeastIsIn
      <4>3. seek_block(p, n)' = d /\ IsStored(p, n)'
        BY <4>1, <4>2 DEF seek_block, IsStored
      <4>4. ValueOf(p, n)' = ee'[d].val
        BY <1>0, <4>3 DEF ValueOf
      <4>5. ee'[d].val = Head(todo).val[n]
        BY <2>1, <3>1 DEF New
      <4> QED
        BY <3>2, <4>3, <4>4, <4>5 DEF Contents
    <3>5. Room' = Room
      <4>1. get_free_block' = get_free_block
        BY <3>1, <3>2, RoomStays, DefaultsAre DEF Empty, Torn
      <4> QED
        BY <4>1 DEF Room
    <3> QED
      BY <1>0, <2>1, <2>2, <3>3, <3>4, <3>5, AsPut
  <2> QED
    BY <2>3, <2>4
<1>12. CASE PowerLoss \/ Upgrade
  <2>1. UNCHANGED ee /\ losses' = losses + 1 /\ full' = FALSE /\ todo' = << >>
    BY <1>12 DEF PowerLoss, Upgrade, Restart
  <2>2. Pending' = Map!Nothing /\ Condemned' \subseteq Keys
    <3>1. (todo = << >> => Pending = Map!Nothing)' /\ Condemned' \subseteq Keys
      BY DEF IsPending, Condemned
    <3> QED
      BY <2>1, <3>1 DEF Map!Nothing
  <2>3. Map!PowerLoss
    BY <2>1, <2>2, UnchangedStore DEF Map!PowerLoss
  <2> QED
    BY <2>3 DEF Map!Next
<1>13. CASE UNCHANGED storeVars
  <2>1. UNCHANGED <<ee, type, phase, target, todo, losses, full>>
    BY <1>13 DEF storeVars, control
  <2>2. Condemned' = Condemned
    BY <2>1 DEF Condemned, Holders, Valid
  <2> QED
    BY <2>1, <2>2, UnchangedStore, PendingKept, AsBefore
<1> QED
  BY <1>1, <1>2, <1>3, <1>4, <1>5, <1>6, <1>7, <1>8, <1>9, <1>10, <1>11, <1>12, <1>13
     DEF StoreNext, Code, Boot, WriteParam, Calls

(* config.c is an atomic map: every byte written to the EEPROM changes the *)
(* value of one key from old to new, drops a condemned one, or is not seen *)
(* by a lookup, and a loss of power changes no value.                      *)
THEOREM ImplementsMap ==
  ASSUME Assumptions
  PROVE  StoreSpec => ImplementsStore
<1>1. StoreInit => Map!Init
  BY MapInit
<1>2. IInv => IsPending
  BY PendingIs DEF IInv, Parts, IsPending
<1>3. IInv /\ IsPending' /\ [StoreNext]_storeVars => [Map!Next]_(Map!vars)
  BY MapStep DEF IInv
<1> QED
  BY <1>1, <1>2, <1>3, Invariance, PTL DEF StoreSpec, ImplementsStore, Map!Spec

=============================================================================

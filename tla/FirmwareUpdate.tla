--------------------------- MODULE FirmwareUpdate ---------------------------
(***************************************************************************)
(* Firmware updates: the boot loader (loader_xmega128a4u), the firmware    *)
(* partitions of the external flash (sapphireos/ffs_fw.c), the command the *)
(* application leaves for the loader (sapphireos/system.c) and the         *)
(* recovery firmware that keeps a copy of itself (chromatron_recovery).    *)
(*                                                                         *)
(* Firmware is in three areas of flash: the program memory the processor   *)
(* runs from, and two partitions of the external flash.  An area is a      *)
(* sequence of words, some of which form a page.  A word is blank, or      *)
(* holds that word of an image, or junk.  The last word of an image is its *)
(* CRC, and one word, Header, tells its length.  The system may be reset,  *)
(* with or without a loss of power, between any two writes and in the      *)
(* middle of one.                                                          *)
(***************************************************************************)
EXTENDS Naturals

CONSTANTS
  Images,       \* firmware images
  Recovery,     \* the image that keeps itself in the recovery partition
  Length,       \* words of an image, with its CRC
  Size,         \* words of an area
  PageSize,     \* words of a page
  Header,       \* the word that holds the length
  Tries,        \* how often the loader tries to repair the program memory
  MaxResets,    \* bound on the resets
  MaxFaults,    \* bound on the writes that fail
  Blank, Junk   \* erased; neither erased nor part of an image

ASSUME ImagesAssumption ==
  /\ Recovery \in Images /\ Blank \notin Images /\ Junk \notin Images /\ Blank # Junk
  /\ Size \in Nat \ {0} /\ PageSize \in Nat \ {0}
  /\ Length \in [Images -> 2 .. Size]
  /\ \A v \in Images : Header + 1 < Length[v]
  /\ Header \in Nat /\ Tries \in Nat \ {0}
  /\ MaxResets \in Nat /\ MaxFaults \in Nat

Words == 0 .. Size - 1
Areas == {"internal", "fw", "rec"}
Content == Images \cup {Blank, Junk}
Page(w) == w \div PageSize
Pages == {Page(w) : w \in Words}

VARIABLES
  flash,     \* the areas
  at,        \* what the loader or the application is doing
  job,       \* the area being replaced, its source, and what comes next
  i,         \* page or word of the job
  tries,     \* attempts at a repair
  command,   \* boot_data.loader_command
  status,    \* boot_data.loader_status
  fw_size,   \* size of the firmware file, a word for 1; 0 if erased
  asked,     \* history: was another firmware asked for since one started?
  resets,
  faults     \* writes that failed

vars == <<flash, at, job, i, tries, command, status, fw_size, asked, resets, faults>>

NoJob == [to |-> "internal", from |-> "none", then |-> "none"]

-----------------------------------------------------------------------------
(* Whole images.                                                           *)

(* The words of an image, with and without its CRC.                        *)
Whole(v) == 0 .. Length[v] - 1
Body(v) == 0 .. Length[v] - 2

(* The CRC of an area, over the length in its header, is that of an image. *)
Bug_HeaderOnly(a) == flash[a][Header] \in Images
CrcOK(a) ==
  /\ flash[a][Header] \in Images
  /\ \A w \in Whole(flash[a][Header]) : flash[a][w] = flash[a][Header]

(* The recovery firmware's comparison of its partition with itself, which  *)
(* leaves out the CRC.                                                     *)
SameBody(a, b) ==
  /\ flash[a][Header] = flash[b][Header]
  /\ \A w \in Body(flash[b][Header]) : flash[a][w] = flash[b][w]

-----------------------------------------------------------------------------
(* Erasing an area, page by page, and copying another to it: the loader    *)
(* copies pages, the application words.                                    *)

Start(to, from, then) ==
  /\ at' = "erase" /\ i' = 0
  /\ job' = [to |-> to, from |-> from, then |-> then]

OnPage(p) == {w \in Words : Page(w) = p}

InCopy(p, v) == p <= Page(Length[v])

Chunk ==
  IF at = "erase" \/ (at = "copy" /\ job.to = "internal") THEN OnPage(i)
  ELSE IF at = "copy" THEN {i} ELSE {}

Bug_LastPageKept == i + 1 \in Pages
MoreToErase == i \in Pages
MoreToCopy ==
  LET v == flash[job.from][Header]
  IN  IF job.to = "internal" THEN i \in Pages /\ InCopy(i, v) ELSE i < Length[v]

Damaged ==
  [flash EXCEPT ![job.to] = [w \in Words |-> IF w \in Chunk THEN Junk ELSE @[w]]]

EraseStep ==
  /\ at = "erase" /\ MoreToErase
  /\ flash' = [flash EXCEPT ![job.to] = [w \in Words |-> IF w \in Chunk THEN Blank ELSE @[w]]]
  /\ i' = i + 1
  /\ UNCHANGED <<at, job, tries, command, status, fw_size, asked, resets, faults>>

EraseDone ==
  /\ at = "erase" /\ ~MoreToErase
  /\ i' = 0
  /\ IF job.from = "none" THEN at' = job.then ELSE at' = "copy"
  /\ UNCHANGED <<flash, job, tries, command, status, fw_size, asked, resets, faults>>

CopyStep ==
  /\ at = "copy" /\ MoreToCopy
  /\ flash' = [flash EXCEPT ![job.to] =
                 [w \in Words |-> IF w \in Chunk THEN flash[job.from][w] ELSE @[w]]]
  /\ i' = i + 1
  /\ UNCHANGED <<at, job, tries, command, status, fw_size, asked, resets, faults>>

(* The flash does not take what is written.                                *)
CopyFault ==
  /\ at = "copy" /\ MoreToCopy /\ faults < MaxFaults
  /\ flash' = Damaged
  /\ i' = i + 1 /\ faults' = faults + 1
  /\ UNCHANGED <<at, job, tries, command, status, fw_size, asked, resets>>

CopyDone ==
  /\ at = "copy" /\ ~MoreToCopy
  /\ at' = job.then /\ i' = 0 /\ job' = NoJob
  /\ UNCHANGED <<flash, tries, command, status, fw_size, asked, resets, faults>>

-----------------------------------------------------------------------------
(* The loader.                                                             *)

Bug_KeepCommand == command
Done == "none"

RunApp(s) ==
  /\ at' = "init" /\ command' = Done /\ status' = s /\ asked' = FALSE
  /\ UNCHANGED <<flash, job, i, tries, fw_size, resets, faults>>

(* The recovery firmware is asked for, by a command or with the button.    *)
TryRecovery ==
  /\ at = "start"
  /\ asked' = TRUE
  /\ IF CrcOK("rec") THEN Start("internal", "rec", "recovery")
                     ELSE at' = "check" /\ UNCHANGED <<job, i>>
  /\ UNCHANGED <<flash, tries, command, status, fw_size, resets, faults>>

NoRecovery ==
  /\ at = "start" /\ command # "recovery"
  /\ at' = "check"
  /\ UNCHANGED <<flash, job, i, tries, command, status, fw_size, asked, resets, faults>>

RunRecovery == at \in {"recovery", "rescue"} /\ CrcOK("internal") /\ RunApp("recovery")

RecoveryFailed ==
  /\ at \in {"recovery", "rescue"} /\ ~CrcOK("internal")
  /\ at' = (IF at = "recovery" THEN "check" ELSE "dead")
  /\ UNCHANGED <<flash, job, i, tries, command, status, fw_size, asked, resets, faults>>

Repair ==
  /\ at = "check" /\ ~CrcOK("internal") /\ tries < Tries
  /\ tries' = tries + 1
  /\ IF CrcOK("fw") THEN Start("internal", "fw", "check") /\ status' = "recovered"
                    ELSE UNCHANGED <<at, job, i, status>>
  /\ UNCHANGED <<flash, command, fw_size, asked, resets, faults>>

Checked ==
  /\ at = "check"
  /\ \/ CrcOK("internal") /\ at' = "command"
     \/ ~CrcOK("internal") /\ tries = Tries /\ at' = "fatal"
  /\ UNCHANGED <<flash, job, i, tries, command, status, fw_size, asked, resets, faults>>

Bug_Unchecked == TRUE
MayLoad == CrcOK("fw")

LoadFw ==
  /\ at = "command" /\ command = "load_fw" /\ MayLoad
  /\ Start("internal", "fw", "loaded")
  /\ UNCHANGED <<flash, tries, command, status, fw_size, asked, resets, faults>>

CannotLoadFw == at = "command" /\ command = "load_fw" /\ ~MayLoad /\ RunApp("partition_bad")
NoCommand == at = "command" /\ command # "load_fw" /\ RunApp(status)

RunLoaded == at = "loaded" /\ CrcOK("internal") /\ RunApp("new_fw")

LoadFailed ==
  /\ at = "loaded" /\ ~CrcOK("internal")
  /\ at' = "fatal" /\ status' = "new_fw"
  /\ UNCHANGED <<flash, job, i, tries, command, fw_size, asked, resets, faults>>

Fatal ==
  /\ at = "fatal"
  /\ IF CrcOK("rec") THEN Start("internal", "rec", "rescue")
                     ELSE at' = "dead" /\ UNCHANGED <<job, i>>
  /\ UNCHANGED <<flash, tries, command, status, fw_size, asked, resets, faults>>

Hang == at = "dead" /\ UNCHANGED vars

-----------------------------------------------------------------------------
(* The application.                                                        *)

SizeOf(a) == IF flash[a][Header] \in Images THEN Length[flash[a][Header]] ELSE 1
AfterInit == IF flash["internal"][Header] = Recovery THEN "self" ELSE "app"

(* ffs_fw_i8_init: a bad partition is replaced by the running firmware.    *)
InitFw ==
  /\ at = "init"
  /\ IF CrcOK("fw") THEN at' = AfterInit /\ fw_size' = SizeOf("fw") /\ UNCHANGED <<job, i>>
                    ELSE Start("fw", "internal", "stored") /\ UNCHANGED fw_size
  /\ UNCHANGED <<flash, tries, command, status, asked, resets, faults>>

Stored ==
  /\ at = "stored"
  /\ at' = AfterInit /\ fw_size' = IF CrcOK("fw") THEN SizeOf("internal") ELSE 0
  /\ UNCHANGED <<flash, job, i, tries, command, status, asked, resets, faults>>

(* app_v_init of the recovery firmware.                                    *)
Self ==
  /\ at = "self"
  /\ IF SameBody("rec", "internal") THEN at' = "app" /\ UNCHANGED <<job, i>>
                                    ELSE Start("rec", "internal", "app")
  /\ UNCHANGED <<flash, tries, command, status, fw_size, asked, resets, faults>>

(* ffs_fw_v_erase.                                                         *)
EraseFw ==
  /\ at = "app" /\ fw_size # 0
  /\ Start("fw", "none", "erased")
  /\ UNCHANGED <<flash, tries, command, status, fw_size, asked, resets, faults>>

ErasedFw ==
  /\ at = "erased"
  /\ at' = "app" /\ fw_size' = 0 /\ job' = NoJob
  /\ UNCHANGED <<flash, i, tries, command, status, asked, resets, faults>>

(* ffs_fw_i32_write: it does not check that the word is erased.            *)
WriteFw(w, v) ==
  /\ at = "app"
  /\ flash' = [flash EXCEPT !["fw"][w] = IF @ \in {Blank, v} THEN v ELSE Junk]
  /\ fw_size' = w + 1
  /\ UNCHANGED <<at, job, i, tries, command, status, asked, resets, faults>>

(* sys_v_load_fw, sys_v_load_recovery; the reset comes later.              *)
Ask(c) ==
  /\ at = "app"
  /\ command' = c /\ asked' = TRUE
  /\ UNCHANGED <<flash, at, job, i, tries, status, fw_size, resets, faults>>

-----------------------------------------------------------------------------
(* A reset, by a loss of power or not, which may cut a write short.        *)
Reset(cold) ==
  /\ resets < MaxResets /\ resets' = resets + 1
  /\ \/ UNCHANGED flash
     \/ Chunk # {} /\ flash' = Damaged
  /\ command' = IF cold THEN "none" ELSE command
  /\ at' = "start" /\ status' = "normal"
  /\ job' = NoJob /\ i' = 0 /\ tries' = 0 /\ fw_size' = 0
  /\ UNCHANGED <<asked, faults>>

Init ==
  /\ \E v \in Images : flash = [a \in Areas |-> [w \in Words |->
                         IF a = "internal" /\ w \in Whole(v) THEN v ELSE Blank]]
  /\ at = "start" /\ job = NoJob /\ i = 0 /\ tries = 0
  /\ command = "none" /\ status = "normal" /\ fw_size = 0 /\ asked = FALSE
  /\ resets = 0 /\ faults = 0

Loader ==
  \/ NoRecovery \/ RunRecovery \/ RecoveryFailed \/ Repair \/ Checked
  \/ LoadFw \/ CannotLoadFw \/ NoCommand \/ RunLoaded \/ LoadFailed \/ Fatal \/ Hang
Writing == EraseStep \/ EraseDone \/ CopyStep \/ CopyFault \/ CopyDone
Starting == InitFw \/ Stored \/ Self \/ ErasedFw

Next ==
  \/ TryRecovery \/ Loader \/ Writing \/ Starting
  \/ EraseFw \/ \E w \in Words, v \in Images : WriteFw(w, v)
  \/ \E c \in {"load_fw", "recovery"} : Ask(c)
  \/ \E cold \in BOOLEAN : Reset(cold)

(* The processor runs.                                                     *)
Fairness == WF_vars(TryRecovery \/ Loader \/ Writing \/ Starting)

Spec == Init /\ [][Next]_vars /\ Fairness
-----------------------------------------------------------------------------
(* Properties.                                                             *)

TypeOK ==
  /\ flash \in [Areas -> [Words -> Content]]
  /\ at \in {"start", "recovery", "rescue", "check", "command", "loaded", "fatal", "dead",
             "erase", "copy", "init", "stored", "self", "app", "erased"}
  /\ job \in [to: Areas, from: Areas \cup {"none"},
              then: {"none", "recovery", "rescue", "check", "loaded", "stored", "app", "erased"}]
  /\ i \in Nat /\ tries \in 0 .. Tries
  /\ command \in {"none", "load_fw", "recovery"}
  /\ status \in {"normal", "recovered", "new_fw", "partition_bad", "recovery"}
  /\ fw_size \in 0 .. Size /\ asked \in BOOLEAN /\ resets \in 0 .. MaxResets
  /\ faults \in 0 .. MaxFaults

Complete(a) == \E v \in Images : \A w \in Whole(v) : flash[a][w] = v

(* Whenever the system is reset, there is a complete image in some area.   *)
(* The loader gives up only after a write has failed.                      *)
NeverBricked ==
  /\ \E a \in Areas : Complete(a)
  /\ at = "dead" => faults > 0

(* The application runs from a complete image only.                        *)
AppIntact == at \in {"init", "stored", "self", "app", "erased"} => Complete("internal")

(* ffs_fw_v_erase does nothing if the file's size is 0, which it takes for *)
(* "already erased": then it is, unless a write failed.                    *)
ErasedIsBlank ==
  at = "app" /\ fw_size = 0 /\ faults = 0 => \A w \in Words : flash["fw"][w] = Blank

(* The program memory changes only if another firmware was asked for since *)
(* one last started, however the change is interrupted and taken up again. *)
OnlyWhenAsked == [][flash'["internal"] # flash["internal"] => asked]_vars

(* The recovery firmware, once started, has itself in its partition: it    *)
(* reports "Recovery partition CRC OK", or that it stored it.              *)
RecoveryKept ==
  at = "app" /\ flash["internal"][Header] = Recovery /\ faults = 0 => Complete("rec")
=============================================================================

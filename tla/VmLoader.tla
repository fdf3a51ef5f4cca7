------------------------------ MODULE VmLoader ------------------------------
(***************************************************************************)
(* The loader of programs: the thread of the main processor that sends a   *)
(* program over the link and watches it (vm_loader in lib_chromatron/vm.c) *)
(* and the runner on the wifi processor (chromatron_wifi/vm_runner.cpp),   *)
(* which puts the program together, checks it, runs it, and reports on it  *)
(* every second and whenever it returns anything but 0.                    *)
(*                                                                         *)
(* A program is sent in one go: no other thread of the main processor runs *)
(* meanwhile, so that a report that is on its way is taken for one on the  *)
(* new program.  Messages of the link may be lost, with or without the     *)
(* sender noticing.                                                        *)
(***************************************************************************)
EXTENDS Integers, Sequences, SequencesExt, FiniteSets

CONSTANTS
  Parts,       \* messages that a program takes
  Slab,        \* messages that the memory of the runner holds
  FileSets,    \* the files that may be there: of each program, its state
  MaxFailures, \* bound on lost messages, and programs that fail or halt
  MaxRequests  \* bound on what is asked of the loader

Programs == {"startup", "main", "shutdown"}

(* A file is missing, good, fails its hash or its header, or fails after   *)
(* it was sent: no names of keys, or a key that programs may not write.    *)
States == {"none", "good", "bad", "late"}

LoaderAssumption ==
  /\ Parts \in Nat \ {0} /\ Slab \in Nat /\ Parts <= Slab
  /\ FileSets \subseteq [Programs -> States]
  /\ MaxFailures \in Nat /\ MaxRequests \in Nat

VARIABLES
  stage,             \* where vm_loader is
  vmMode, vmRun, vmReset,  \* vm_mode, vm_run, vm_reset
  info,              \* vm_info on the main processor
  running,           \* vm_running: the program is told to run, frame by frame
  loaded,            \* the program that was loaded last
  files,
  slab, vm,          \* of the runner: vm_slab, and vm_info
  report,            \* a report on its way
  vmFaults, requests

loader == <<stage, vmMode, vmRun, vmReset, running, loaded>>
runner == <<slab, vm>>
loaderVars == <<loader, info, files, runner, report, vmFaults, requests>>

Ok      == 0
Halted  == 1
Failed  == -1
Unknown == -127
Fresh   == [status |-> Unknown, code |-> Unknown]

-----------------------------------------------------------------------------
(* The runner: vm_v_reset and vm_i8_load.                                  *)

Image(p) == [n \in 1 .. Parts |-> <<p, n>>]
Whole(s) == \E p \in Programs : s = Image(p)

Bug_NoCrc(s) == s # << >>
CrcOK(s) == Whole(s)

Bug_StatusKept(v) == v
StatusReset(v) == Fresh   \* "reset status codes"

(* What the messages tell, besides the parts of the program.               *)
Clear == <<"reset", 0>>
End   == <<"end", 0>>

(* The runner after a message; the first run of the program returns c.     *)
Received(r, m, c) ==
  CASE m = Clear   -> [slab |-> << >>, vm |-> Fresh]
    [] m = End     -> [slab |-> r.slab, vm |-> IF CrcOK(r.slab) THEN [status |-> Ok, code |-> c]
                                               ELSE [status |-> Failed, code |-> Unknown]]
    [] OTHER       -> IF Len(r.slab) >= Slab THEN [slab |-> r.slab, vm |-> [Fresh EXCEPT !.status = Failed]]
                      ELSE [slab |-> Append(r.slab, m), vm |-> StatusReset(r.vm)]

Now == [slab |-> slab, vm |-> vm]

(* What load_vm_wifi sends.                                                *)
Messages(p) == <<Clear>> \o (IF files[p] = "bad" THEN << >> ELSE Image(p) \o <<End>>)

(* After the messages up to the n-th, but for those that are lost.         *)
After(p, n, lost, c) ==
  LET r[k \in 0 .. n] == IF k = 0 THEN Now
                         ELSE IF k \in lost THEN r[k - 1] ELSE Received(r[k - 1], Messages(p)[k], c)
  IN  r[n]

-----------------------------------------------------------------------------
(* load_vm_wifi.  It fails when the file is missing or not good, or when a *)
(* message cannot be sent; a message that is lost goes unnoticed.          *)

Costs(n) == vmFaults + n <= MaxFailures /\ vmFaults' = vmFaults + n

(* The messages up to the n-th, of which some are lost.                    *)
Send(p, n, lost, c) ==
  /\ n \in 1 .. Len(Messages(p)) /\ lost \subseteq 1 .. n
  /\ Costs(Cardinality(lost) + IF c = Ok THEN 0 ELSE 1)
  /\ slab' = After(p, n, lost, c).slab /\ vm' = After(p, n, lost, c).vm

Succeeds(p, c) ==
  /\ files[p] = "good"
  /\ \E lost \in SUBSET (1 .. Parts + 2) : Send(p, Parts + 2, lost, c)
  /\ stage' = "check" /\ running' = TRUE /\ loaded' = p /\ info' = Fresh
  /\ UNCHANGED vmRun

(* The main program is tried next if this was the one for the start; a     *)
(* file that is bad stops the loader.                                      *)
Fails(p, c) ==
  /\ stage' = IF stage = "settle" /\ vmMode = "startup" THEN "second" ELSE "error"
  /\ \/ files[p] = "none" /\ c = Ok /\ UNCHANGED <<vmRun, runner, vmFaults>>
     \/ /\ files[p] \in {"bad", "late"}
        /\ \E lost \in SUBSET (1 .. Parts + 2) : Send(p, Len(Messages(p)), lost, c)
        /\ vmRun' = IF files[p] = "bad" THEN FALSE ELSE vmRun
     \/ /\ files[p] # "none"
        /\ \E n \in 1 .. Parts + 2 : \E lost \in SUBSET (1 .. n) : n \in lost /\ Send(p, n, lost, c)
        /\ UNCHANGED vmRun
  /\ UNCHANGED <<running, loaded, info>>

Load(p) ==
  /\ \E c \in {Ok, Halted, Failed} : Succeeds(p, c) \/ Fails(p, c)
  /\ UNCHANGED <<vmMode, vmReset, files, report, requests>>

(* vm_loader: 100 ms after there is something to run.                      *)
StartLoad == stage = "settle" /\ Load(CASE vmMode = "startup" -> "startup"
                                        [] vmMode = "running" -> "main"
                                        [] OTHER              -> "shutdown")
LoadSecond == stage = "second" /\ Load("main")

Wakes ==
  /\ stage = "idle" /\ vmRun /\ vmMode # "finished" /\ stage' = "settle"
  /\ UNCHANGED <<vmMode, vmRun, vmReset, running, loaded, info, files, runner, report, vmFaults, requests>>

(* A second after the program was sent; what is asked meanwhile is         *)
(* forgotten.                                                              *)
Good(i) == i.status >= 0 /\ i.code >= 0

CheckPassed ==
  /\ stage = "check" /\ Good(info)
  /\ stage' = "watch" /\ vmReset' = FALSE
  /\ UNCHANGED <<vmMode, vmRun, running, loaded, info, files, runner, report, vmFaults, requests>>

CheckFailed ==
  /\ stage = "check" /\ ~Good(info)
  /\ stage' = "error"
  /\ UNCHANGED <<vmMode, vmRun, vmReset, running, loaded, info, files, runner, report, vmFaults, requests>>

NextMode(m) ==
  CASE m = "startup"   -> "running"
    [] m = "running"   -> "running"
    [] m = "requested" -> "shutdown"
    [] OTHER           -> "finished"

(* The program is stopped, by a message that may be lost.                  *)
Stopped ==
  \/ slab' = << >> /\ vm' = Fresh /\ UNCHANGED vmFaults
  \/ Costs(1) /\ UNCHANGED runner

WatchOver ==
  /\ stage = "watch" /\ (vmReset \/ ~vmRun \/ info.status # Ok \/ info.code # Ok)
  /\ Stopped
  /\ IF info.code < 0 THEN stage' = "error" /\ UNCHANGED <<vmMode, vmRun, running>>
     ELSE /\ stage' = "idle" /\ running' = FALSE
          /\ vmRun' = (vmRun /\ info.code # Halted)
          /\ vmMode' = IF info.code = Halted THEN "finished" ELSE NextMode(vmMode)
  /\ UNCHANGED <<vmReset, loaded, info, files, report, requests>>

(* A second after an error.                                                *)
ErrorOver ==
  /\ stage = "error" /\ stage' = "idle" /\ running' = FALSE
  /\ UNCHANGED <<vmMode, vmRun, vmReset, loaded, info, files, runner, report, vmFaults, requests>>

-----------------------------------------------------------------------------
(* The runner runs a frame, which may change its data and thereby what is  *)
(* in memory; what the program returns is told at once.                    *)

Changed == [n \in 1 .. Parts |-> <<"changed", n>>]

RunFrame(c) ==
  /\ running /\ vm.status >= 0 /\ vm.code # Halted
  /\ Costs(IF c = Ok THEN 0 ELSE 1)
  /\ vm' = [vm EXCEPT !.code = c]
  /\ slab' \in {slab, Changed}
  /\ report' = IF c # Ok THEN <<vm'>> ELSE report
  /\ UNCHANGED <<loader, info, files, requests>>

Report ==
  /\ report = << >> /\ report' = <<vm>>
  /\ UNCHANGED <<loader, info, files, runner, vmFaults, requests>>

(* vm_v_received_info.                                                     *)
ReportArrives ==
  /\ report # << >> /\ report' = << >> /\ stage # "second"
  /\ \/ info' = Head(report) /\ UNCHANGED vmFaults
     \/ Costs(1) /\ UNCHANGED info
  /\ UNCHANGED <<loader, files, runner, requests>>

-----------------------------------------------------------------------------
(* What is asked, by keys or calls: vm_run, vm_reset and vm_shutdown.      *)

Asked == stage # "second" /\ requests < MaxRequests /\ requests' = requests + 1

SetRun(b) ==
  /\ Asked /\ vmRun' = b
  /\ UNCHANGED <<stage, vmMode, vmReset, running, loaded, info, files, runner, report, vmFaults>>

ResetKey(b) ==
  /\ Asked /\ vmReset' = b /\ vmMode' = "startup"
  /\ UNCHANGED <<stage, vmRun, running, loaded, info, files, runner, report, vmFaults>>

Shutdown ==
  /\ Asked /\ vmReset' = TRUE /\ vmMode' = "requested"
  /\ UNCHANGED <<stage, vmRun, running, loaded, info, files, runner, report, vmFaults>>

LoaderInit ==
  /\ stage = "idle" /\ vmMode = "startup" /\ vmRun \in BOOLEAN /\ vmReset = FALSE
  /\ info = [status |-> Ok, code |-> Ok] /\ running = FALSE /\ loaded = "none"
  /\ files \in FileSets
  /\ slab = << >> /\ vm = Fresh /\ report = << >>
  /\ vmFaults = 0 /\ requests = 0

Loader == Wakes \/ StartLoad \/ LoadSecond \/ CheckPassed \/ CheckFailed \/ WatchOver \/ ErrorOver

LoaderNext ==
  \/ Loader \/ Report \/ ReportArrives
  \/ \E c \in {Ok, Halted, Failed} : RunFrame(c)
  \/ \E b \in BOOLEAN : SetRun(b) \/ ResetKey(b)
  \/ Shutdown

(* Reports are made every second, and the loader waits for a second: now   *)
(* and then one is made, and comes, in time.                               *)
InTime(A) == stage = "check" /\ A
LoaderSpec ==
  /\ LoaderInit /\ [][LoaderNext]_loaderVars
  /\ WF_loaderVars(Loader) /\ WF_loaderVars(Report) /\ WF_loaderVars(ReportArrives)
  /\ SF_loaderVars(InTime(Report)) /\ SF_loaderVars(InTime(ReportArrives)) /\ SF_loaderVars(CheckPassed)
-----------------------------------------------------------------------------
(* Properties.                                                             *)

LoaderTypeOK ==
  /\ stage \in {"idle", "settle", "second", "check", "watch", "error"}
  /\ vmMode \in {"startup", "running", "requested", "shutdown", "finished"}
  /\ info.status \in {Unknown, Failed, Ok} /\ vm.status \in {Unknown, Failed, Ok}
  /\ Len(slab) <= Slab /\ vmFaults \in 0 .. MaxFailures

(* What runs is a whole program, whatever messages were lost: also the     *)
(* message that should have cleared the memory before.  If none was lost   *)
(* it is the program that was loaded last.                                 *)
ProgramWhole ==
  /\ vm.status = Ok => Whole(slab) \/ slab = Changed
  /\ vmFaults = 0 /\ stage \in {"check", "watch"} => slab \in {Image(loaded), Changed}

(* Once nobody asks for anything any more, a program runs, is watched and  *)
(* is the one for the mode of the loader, unless the loader has finished,  *)
(* was told not to run, or has only files that do not load.                *)
Runs == stage = "watch" /\ vm.status = Ok /\ (slab = Changed \/ slab = Image(loaded))
ProgramRuns ==
  \/ <>[](~vmRun \/ vmMode = "finished") \/ <>[]Runs
  \/ \E p \in Programs : files[p] \in {"none", "late"}
=============================================================================

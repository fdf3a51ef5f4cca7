----------------------------- MODULE Scheduler -----------------------------
(***************************************************************************)
(* The cooperative scheduler of SapphireOS (sapphireos/threading.c, pt.h). *)
(*                                                                         *)
(* Threads are protothreads on a list.  A pass of thread_start walks the   *)
(* list and runs each thread whose alarm is due or that is ready; after    *)
(* each element it runs the threads that wait for a signal, in a walk of   *)
(* their own.  Between its resumption and its return a thread may create,  *)
(* kill and restart threads, set its alarm and raise signals, so the list  *)
(* changes under both walks.  Interrupts raise signals at any time and the *)
(* millisecond clock, a wrapping counter, advances at any time.            *)
(*                                                                         *)
(* What a thread does is nondeterministic; what it may do is what the      *)
(* program's threads do (see the assumptions of the README).               *)
(***************************************************************************)
EXTENDS DList, FiniteSets

CONSTANTS
  Signals,      \* signal numbers
  Main,         \* the thread that exists when thread_start is called
  ClockMod,     \* 2^32: the range of the millisecond clock
  Delays,       \* delays passed to thread_v_set_alarm
  PassTime,     \* a pass takes at most this many milliseconds
  MaxSpawns,    \* a pass creates at most this many threads
  SignalRunsRemove  \* may a thread run for a signal end, or kill a thread?

Half   == ClockMod \div 2
Flags  == {"WAITING", "YIELDED", "SLEEPING", "SIGNAL", "ALARM"}
Points == {"start", "yield", "wait", "sleep"}   \* and a signal, in THREAD_WAIT_SIGNAL

ASSUME ClockAssumption ==
  /\ ClockMod \in Nat \ {0} /\ PassTime \in Nat /\ Delays \subseteq Nat
  /\ \A d \in Delays : d < Half
  /\ 2 * PassTime <= Half
ASSUME ThreadsAssumption ==
  /\ Main \in Nodes /\ MaxSpawns \in Nat /\ SignalRunsRemove \in BOOLEAN
  /\ Signals \cap Points = {}

VARIABLES
  list,       \* thread_list and the links of every node
  live,       \* the nodes that are allocated
  flags, alarm,
  resume,     \* pt: where each thread continues
  signals, runCause, clock,
  ln, sig,    \* cursors of thread_start and of process_signalled_threads
  at, ctx,    \* the scheduler's control point, and which walk it is in
  \* history:
  age,        \* milliseconds since each alarm was set, less its delay
  lag,        \* milliseconds since the pass began
  due,        \* threads that were there when the pass began and await their turn
  spawned     \* threads created in this pass

threads == <<list, live, flags, alarm, resume>>
control == <<ln, sig, at, ctx, runCause>>
history == <<age, lag, due, spawned>>
vars == <<threads, signals, clock, control, history>>

Cursor == IF ctx = "main" THEN ln ELSE sig

Init ==
  /\ list = InsertTail(EmptyList, Main) /\ live = {Main}
  /\ flags = [n \in Nodes |-> IF n = Main THEN {"YIELDED"} ELSE {}]
  /\ alarm = [n \in Nodes |-> 0]
  /\ resume = [n \in Nodes |-> "start"]
  /\ signals = {} /\ runCause = {} /\ clock = 0
  /\ ln = None /\ sig = None /\ at = "pass" /\ ctx = "main"
  /\ age = [n \in Nodes |-> 0] /\ lag = 0 /\ due = {} /\ spawned = 0

-----------------------------------------------------------------------------
(* The environment: the clock and the interrupts.                          *)

Tick ==
  /\ lag < PassTime
  /\ clock' = (clock + 1) % ClockMod
  /\ lag' = lag + 1
  /\ age' = [n \in Nodes |-> IF n \in live /\ "ALARM" \in flags[n] THEN age[n] + 1 ELSE age[n]]
  /\ UNCHANGED <<threads, signals, control, due, spawned>>

Interrupt(s) ==
  /\ signals' = signals \cup {s}
  /\ UNCHANGED <<threads, clock, control, history>>

-----------------------------------------------------------------------------
(* The walks.                                                              *)

StartPass ==
  /\ at = "pass"
  /\ ln' = list.head /\ at' = "visit" /\ ctx' = "main"
  /\ lag' = 0 /\ due' = live /\ spawned' = 0
  /\ UNCHANGED <<threads, signals, clock, sig, runCause, age>>

(* Every thread has had its turn; the garbage collector runs here, and the *)
(* links of removed nodes are lost.                                        *)
Kept(links) == [n \in Nodes |-> IF n \in live THEN links[n] ELSE None]
EndPass ==
  /\ at = "visit" /\ ctx = "main" /\ ln = None
  /\ at' = "pass"
  /\ list' = [list EXCEPT !.next = Kept(@), !.prev = Kept(@)]
  /\ UNCHANGED <<live, flags, alarm, resume, signals, clock, ln, sig, ctx, runCause, history>>

(* tmr_i8_compare_time: the sign of the 32-bit difference.                 *)
Bug_PlainCompare(n) == alarm[n] < clock
Past(n) == (alarm[n] - clock) % ClockMod >= Half

Enter(n, cause, cleared) ==
  /\ flags' = [flags EXCEPT ![n] = @ \ cleared]
  /\ runCause' = cause
  /\ at' = "enter"
  /\ due' = due \ {n}

AlarmDue(n) == "ALARM" \in flags[n] /\ Past(n)
Ready(n)    == flags[n] \cap {"WAITING", "YIELDED"} # {}

VisitAlarm ==
  /\ at = "visit" /\ ctx = "main" /\ ln # None
  /\ AlarmDue(ln)
  /\ Enter(ln, {"ALARM"}, {"ALARM", "SLEEPING", "WAITING", "YIELDED"})
  /\ UNCHANGED <<list, live, alarm, resume, signals, clock, ln, sig, ctx,
                 age, lag, spawned>>

VisitReady ==
  /\ at = "visit" /\ ctx = "main" /\ ln # None
  /\ ~AlarmDue(ln) /\ Ready(ln)
  /\ Enter(ln, runCause, {"WAITING", "YIELDED", "SLEEPING"})
  /\ UNCHANGED <<list, live, alarm, resume, signals, clock, ln, sig, ctx,
                 age, lag, spawned>>

VisitIdle ==
  /\ at = "visit" /\ ctx = "main" /\ ln # None
  /\ ~AlarmDue(ln) /\ ~Ready(ln)
  /\ at' = "next" /\ due' = due \ {ln}
  /\ UNCHANGED <<threads, signals, clock, ln, sig, ctx, runCause, age, lag, spawned>>

(* The walk of the threads that wait for a signal.                         *)
VisitSignalled ==
  /\ at = "visit" /\ ctx = "signals" /\ sig # None
  /\ IF "SIGNAL" \in flags[sig]
       THEN Enter(sig, {"SIGNAL"}, {"WAITING", "YIELDED"})
       ELSE at' = "next" /\ UNCHANGED <<flags, runCause, due>>
  /\ UNCHANGED <<list, live, alarm, resume, signals, clock, ln, sig, ctx,
                 age, lag, spawned>>

SignalsDone ==
  /\ at = "visit" /\ ctx = "signals" /\ sig = None
  /\ ctx' = "main"
  /\ UNCHANGED <<threads, signals, clock, ln, sig, at, runCause, history>>

(* The element just visited may be off the list: its links still lead on.  *)
(* In thread_start, process_signalled_threads follows.                     *)
Bug_StopAtRemoved(n) == IF n \in live THEN list.next[n] ELSE None
NextOf(n) == list.next[n]

Advance ==
  /\ at = "next" /\ at' = "visit"
  /\ IF ctx = "main"
       THEN /\ ln' = NextOf(ln)
            /\ IF signals = {} THEN UNCHANGED <<sig, ctx>>
                               ELSE sig' = list.head /\ ctx' = "signals"
       ELSE sig' = NextOf(sig) /\ UNCHANGED <<ln, ctx>>
  /\ UNCHANGED <<threads, signals, clock, runCause, history>>

-----------------------------------------------------------------------------
(* A thread, from its resumption to its return (run_thread).  The thread   *)
(* that runs is Cursor.                                                    *)

(* thread_v_active, at every point where a thread goes on: clears the      *)
(* thread's alarm.                                                         *)
Active ==
  /\ flags' = [flags EXCEPT ![Cursor] = @ \ {"ALARM"}]
  /\ alarm' = [alarm EXCEPT ![Cursor] = 0]

(* The end of THREAD_WAIT_SIGNAL.                                          *)
Signalled(s) ==
  /\ flags' = [flags EXCEPT ![Cursor] = @ \ {"ALARM", "SIGNAL"}]
  /\ alarm' = [alarm EXCEPT ![Cursor] = 0]
  /\ signals' = signals \ {s}

Bug_NotWaiting(fl) == fl
Waiting(fl) == fl \cup {"WAITING"}

(* (history) An alarm that is not set any more has no age.                 *)
AlarmOver == age' = [age EXCEPT ![Cursor] = IF "ALARM" \in flags[Cursor] THEN @ ELSE 0]

(* run_cause once the thread has returned.                                 *)
NoCause == {}

(* Resumption.  A thread in THREAD_WAIT_WHILE or THREAD_WAIT_SIGNAL tests  *)
(* its condition first and returns at once if it must wait on.             *)
WaitOn ==
  /\ at = "enter"
  /\ \/ resume[Cursor] = "wait"
     \/ resume[Cursor] \in Signals \ signals
  /\ flags' = [flags EXCEPT ![Cursor] = Waiting(@)]
  /\ runCause' = NoCause /\ at' = "next"
  /\ AlarmOver
  /\ UNCHANGED <<list, live, alarm, resume, signals, clock, ln, sig, ctx, lag, due, spawned>>

GoOn ==
  /\ at = "enter"
  /\ resume[Cursor] \notin Signals \ signals
  /\ at' = "body"
  /\ IF resume[Cursor] = "start" THEN UNCHANGED <<flags, alarm, signals>>
     ELSE IF resume[Cursor] \in Signals THEN Signalled(resume[Cursor])
     ELSE Active /\ UNCHANGED signals
  /\ UNCHANGED <<list, live, resume, clock, ln, sig, ctx, runCause, history>>

(* Calls a thread makes while it runs.                                     *)
Create(n) ==
  /\ at = "body" /\ spawned < MaxSpawns
  /\ n \notin live
  /\ live' = live \cup {n}
  /\ list' = InsertTail(CreateNode(list, n), n)
  /\ flags' = [flags EXCEPT ![n] = {"YIELDED"}]
  /\ alarm' = [alarm EXCEPT ![n] = 0]
  /\ resume' = [resume EXCEPT ![n] = "start"]
  /\ spawned' = spawned + 1
  /\ UNCHANGED <<signals, clock, control, age, lag, due>>

(* Removal from the list; the block is freed, but its links stay readable  *)
(* until the collector runs.                                               *)
Unlink(n) ==
  /\ live' = live \ {n} /\ list' = Remove(list, n)
  /\ flags' = [flags EXCEPT ![n] = {}]
  /\ alarm' = [alarm EXCEPT ![n] = 0] /\ age' = [age EXCEPT ![n] = 0]
  /\ resume' = [resume EXCEPT ![n] = "start"]

Kill(n) ==
  /\ at = "body" /\ (ctx = "main" \/ SignalRunsRemove)
  /\ n \in live /\ n # Cursor
  /\ Unlink(n)
  /\ due' = due \ {n}
  /\ UNCHANGED <<signals, clock, control, lag, spawned>>

Restart(n) ==
  /\ at = "body"
  /\ n \in live /\ n # Cursor
  /\ flags' = [flags EXCEPT ![n] = {"YIELDED"}]
  /\ resume' = [resume EXCEPT ![n] = "start"]
  /\ age' = [age EXCEPT ![n] = 0]
  /\ UNCHANGED <<list, live, alarm, signals, clock, control, lag, due, spawned>>

Raise(s) ==
  /\ at = "body"
  /\ signals' = signals \cup {s}
  /\ UNCHANGED <<threads, clock, control, history>>

DueAt(d) == (clock + d) % ClockMod

SetAlarm(d) ==
  /\ alarm' = [alarm EXCEPT ![Cursor] = DueAt(d)]
  /\ age' = [age EXCEPT ![Cursor] = -d]

(* Returns: the flag that run_thread sets is the status returned.          *)
Return(newFlags, point) ==
  /\ at = "body" /\ at' = "next"
  /\ flags' = [flags EXCEPT ![Cursor] = @ \cup newFlags]
  /\ resume' = [resume EXCEPT ![Cursor] = point]
  /\ runCause' = NoCause
  /\ UNCHANGED <<list, live, clock, ln, sig, ctx, lag, due, spawned>>

Yield == Return({"YIELDED"}, "yield") /\ AlarmOver /\ UNCHANGED <<alarm, signals>>
Wait  == Return({"WAITING"}, "wait")  /\ AlarmOver /\ UNCHANGED <<alarm, signals>>
(* A wait with a timeout: thread_v_set_alarm, then THREAD_WAIT_WHILE.      *)
WaitTimeout(d) ==
  Return({"WAITING", "ALARM"}, "wait") /\ SetAlarm(d) /\ UNCHANGED <<signals>>
(* TMR_WAIT.                                                               *)
Sleep(d) ==
  Return({"SLEEPING", "ALARM"}, "sleep") /\ SetAlarm(d) /\ UNCHANGED <<signals>>
(* THREAD_WAIT_SIGNAL, when the signal is not there yet.                   *)
WaitSignal(s) ==
  /\ Return({"WAITING", "SIGNAL"}, s)
  /\ s \notin signals
  /\ AlarmOver /\ UNCHANGED <<alarm, signals>>
(* ... and when it is: the thread goes on.                                 *)
TakeSignal(s) ==
  /\ at = "body" /\ s \in signals
  /\ Signalled(s)
  /\ UNCHANGED <<list, live, resume, clock, control, history>>

(* THREAD_RESTART.                                                         *)
StartOver == Return({"WAITING"}, "start") /\ AlarmOver /\ UNCHANGED <<alarm, signals>>

End ==
  /\ at = "body" /\ (ctx = "main" \/ SignalRunsRemove)
  /\ Unlink(Cursor)
  /\ runCause' = NoCause /\ at' = "next"
  /\ UNCHANGED <<signals, clock, ln, sig, ctx, lag, due, spawned>>

-----------------------------------------------------------------------------
Calls ==
  \/ \E n \in Nodes : Create(n) \/ Kill(n) \/ Restart(n)
  \/ \E s \in Signals : Raise(s) \/ TakeSignal(s)

Returns ==
  \/ WaitOn \/ Yield \/ Wait \/ StartOver \/ End
  \/ \E d \in Delays : WaitTimeout(d) \/ Sleep(d)
  \/ \E s \in Signals : WaitSignal(s)

Walks ==
  \/ StartPass \/ EndPass
  \/ VisitAlarm \/ VisitReady \/ VisitIdle \/ VisitSignalled \/ SignalsDone
  \/ Advance \/ GoOn

Next == Walks \/ Calls \/ Returns \/ Tick \/ \E s \in Signals : Interrupt(s)

(* The processor runs the scheduler, every thread returns, time goes on.   *)
Fairness == WF_vars(Walks) /\ WF_vars(Returns) /\ WF_vars(Tick)

Spec == Init /\ [][Next]_vars /\ Fairness
-----------------------------------------------------------------------------
(* Properties.                                                             *)

TypeOK ==
  /\ list \in Lists /\ live \subseteq Nodes
  /\ flags \in [Nodes -> SUBSET Flags]
  /\ alarm \in [Nodes -> 0 .. ClockMod - 1]
  /\ resume \in [Nodes -> Points \cup Signals]
  /\ signals \subseteq Signals /\ runCause \subseteq {"ALARM", "SIGNAL"}
  /\ clock \in 0 .. ClockMod - 1
  /\ ln \in Links /\ sig \in Links
  /\ at \in {"pass", "visit", "enter", "body", "next"} /\ ctx \in {"main", "signals"}
  /\ age \in [Nodes -> Int] /\ lag \in Nat /\ due \subseteq Nodes /\ spawned \in Nat

(* After any sequence of creations and removals, whatever walk they happen *)
(* in, following next from the head meets exactly the allocated threads,   *)
(* and prev and tail agree.                                                *)
ListOK ==
  LET s == Walk(list, Cardinality(Nodes) + 1)
  IN Encodes(list, s) /\ {s[i] : i \in 1 .. Len(s)} = live

(* The walks never follow a handle that has been freed: mem2_vp_get_ptr_fast*)
(* does not verify it, and would return the address of handle table entry 0*)
(* or of somebody else's block.                                            *)
CursorLive ==
  /\ at = "visit" => Cursor \in live \cup {None}
  /\ at \in {"enter", "body"} => Cursor \in live
  /\ ctx = "signals" => ln \in live \cup {None}

(* A pass passes nobody over: every thread that was there when it began    *)
(* and is still there has been visited, however the list changed meanwhile.*)
NoneSkipped == (at = "visit" /\ ctx = "main" /\ ln = None) => due = {}

(* The wrapping comparison of an alarm with the clock is right for every   *)
(* pending alarm: it is past exactly when its delay has elapsed.           *)
AlarmExact ==
  \A n \in live : "ALARM" \in flags[n] => (Past(n) <=> age[n] > 0)

(* A thread told that its alarm woke it (thread_b_alarm) has had an alarm  *)
(* of its own that has expired; nobody else's timeout is seen as one's own.*)
CauseTrue ==
  at \in {"enter", "body"} /\ "ALARM" \in runCause => age[Cursor] > 0

(* Alarms tell the truth, both when a walk tests them and to the thread    *)
(* they wake.                                                              *)
AlarmsTrue == AlarmExact /\ CauseTrue

(* No live thread is left with no way to be run again: neither ready nor   *)
(* with an alarm.                                                          *)
NoneStranded ==
  \A n \in live : (at \in {"enter", "body"} /\ n = Cursor) \/ Ready(n) \/ "ALARM" \in flags[n]

(* Every thread runs again and again until it is killed: no thread starves,*)
(* no alarm is forgotten, whatever the others create, kill and signal.     *)
EveryThreadRuns ==
  \A n \in Nodes : (n \in live) ~> (n \notin live \/ (at = "enter" /\ Cursor = n))
=============================================================================

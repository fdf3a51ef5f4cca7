----------------------------- MODULE PixelDriver -----------------------------
(***************************************************************************)
(* The pixel driver of the main processor (lib_chromatron/pixel.c).  Two   *)
(* channels of the DMA take turns: while one sends its buffer, the other's *)
(* interrupt fills its own with the next pixels.  When there are no more,  *)
(* a timer is set, whose interrupt starts the next frame; while a frame is *)
(* sent the timer is a watchdog.  The settings of the driver are changed   *)
(* by the main program, between any two interrupts: in memory first, and   *)
(* by their handler after that.                                            *)
(*                                                                         *)
(* The clock ticks once for every pixel that the line takes.               *)
(***************************************************************************)
EXTENDS Integers, Sequences, SequencesExt

CONSTANTS
  MaxPixels,  \* MAX_PIXELS
  Word,       \* 2^16
  Modes,      \* pix_mode, but for "off"
  PerBuf,     \* of each mode, the pixels that a buffer holds
  Counts,     \* what pix_count is set to
  Gap,        \* PWM_FADE_TIMER_VALUE
  Watchdog,   \* PWM_FADE_TIMER_WATCHDOG_VALUE
  MaxChanges  \* bound on the changes of the settings

DriverAssumption ==
  /\ MaxPixels \in Nat \ {0} /\ Word \in Nat /\ MaxPixels < Word /\ Counts \subseteq 0 .. Word - 1
  /\ PerBuf \in [Modes -> Nat \ {0}] /\ MaxChanges \in Nat
  /\ Gap \in Nat /\ Watchdog \in Nat /\ MaxPixels + Gap < Watchdog

(* A buffer is sent before the timer that is set when it is the last goes  *)
(* off.  The code does not see to it: it depends on pix_clock.             *)
BuffersFit == \A m \in Modes : PerBuf[m] < Gap

Channels == {"A", "B"}
Other(c) == IF c = "A" THEN "B" ELSE "A"

VARIABLES
  mode, count,  \* pix_mode and pix_count, in memory
  setting,      \* the handler that has not run yet
  perBuf,       \* pixels_per_buf
  current,      \* current_pixel
  trailer,      \* apa102_trailer
  channel,      \* of each channel, what it has still to send
  sending,      \* the channel that sends
  double,       \* double buffering
  irq,          \* the channels whose interrupts wait
  timer,        \* ticks until it goes off; it is off when negative
  clean,        \* history: did the frame begin with settings that are whole?
  frame,        \* history: what was sent of it
  cut,          \* history: was such a frame ever cut short?
  changes

driver == <<perBuf, current, trailer, channel, sending, double, irq, timer>>
driverVars == <<mode, count, setting, driver, clean, frame, cut, changes>>

TimerOff == -1
Quiet   == "none"
Header  == -1
Trailer == -2

(* What a frame consists of.                                               *)
Expected ==
  LET all == [i \in 1 .. count |-> i - 1]
  IN  IF mode = "apa102" THEN <<Header>> \o all \o <<Trailer>> ELSE all

-----------------------------------------------------------------------------
(* setup_pixel_buffer, from pixel p: the number of pixels is a byte, and   *)
(* what remains of them is a word, which wraps when the pixels have become *)
(* fewer.                                                                  *)

Bug_OneTooMany(p) == (count + 1 - p) % Word
Remaining(p) == (count - p) % Word
Fill(p) ==
  LET n == IF perBuf > Remaining(p) THEN Remaining(p) ELSE perBuf
  IN  [k \in 1 .. n |-> p + k - 1]

(* pixel_v_start_frame.                                                    *)
Idle == mode = "off" \/ count = 0

TrailerReset == FALSE

StartFrame ==
  /\ trailer' = TrailerReset
  /\ LET first == IF mode = "apa102" THEN <<Header>> ELSE Fill(0)
         next  == IF mode = "apa102" THEN 0 ELSE Len(first)
     IN  /\ channel' = [A |-> first, B |-> Fill(next)]
         /\ current' = next + Len(channel'["B"])
         /\ double' = (double \/ channel'["B"] # << >>)
  /\ sending' = "A"
  /\ clean' = (setting = Quiet /\ ~double) /\ frame' = << >>
  /\ cut' = (cut \/ (clean /\ frame # Expected))

(* The timer: a frame, and the watchdog, which goes off when there was no  *)
(* frame, too.                                                             *)
Bug_NoWatchdog == IF Idle THEN TimerOff ELSE Watchdog
Rearmed == Watchdog

TimerIsr ==
  /\ timer = 0 /\ irq = {}
  /\ timer' = Rearmed
  /\ IF Idle THEN UNCHANGED <<trailer, channel, current, double, sending, clean, frame, cut>> ELSE StartFrame
  /\ UNCHANGED <<mode, count, setting, perBuf, irq, changes>>

(* PIXEL_DMA_CH_A_vect and PIXEL_DMA_CH_B_vect.                            *)
NeedsTrailer == mode = "apa102" /\ ~trailer

DmaIsr(c) ==
  /\ c \in irq /\ irq' = irq \ {c}
  /\ LET more == Fill(current) IN
       /\ current' = (current + Len(more)) % Word
       /\ channel' = [channel EXCEPT ![c] = IF more # << >> THEN more
                                    ELSE IF NeedsTrailer THEN <<Trailer>> ELSE << >>]
       /\ trailer' = (trailer \/ (more = << >> /\ NeedsTrailer))
       /\ IF channel'[c] # << >> THEN UNCHANGED <<double, timer>>
                             ELSE double' = FALSE /\ timer' = Gap
  /\ UNCHANGED <<mode, count, setting, perBuf, sending, clean, frame, cut, changes>>

-----------------------------------------------------------------------------
(* The line, the DMA controller and the timer.  An interrupt may be late,  *)
(* but is served before the other channel needs its buffer.                *)

Urgent == irq # {} /\ (sending = "none" \/ Len(channel[sending]) <= 1)

SendNext ==
  IF sending = "none" THEN UNCHANGED <<channel, sending, irq, frame>>
  ELSE /\ channel' = [channel EXCEPT ![sending] = Tail(@)]
       /\ frame' = IF clean THEN Append(frame, Head(channel[sending])) ELSE frame
       /\ IF Len(channel[sending]) > 1 THEN UNCHANGED <<sending, irq>>
          ELSE /\ irq' = irq \cup {sending}
               /\ sending' = IF double /\ channel[Other(sending)] # << >> THEN Other(sending) ELSE "none"

Tick ==
  /\ ~Urgent /\ timer # 0
  /\ sending # "none" \/ timer > 0
  /\ timer' = IF timer > 0 THEN timer - 1 ELSE timer
  /\ SendNext
  /\ UNCHANGED <<mode, count, setting, perBuf, current, trailer, double, clean, cut, changes>>

-----------------------------------------------------------------------------
(* The settings.  kv_i8_set has copied the value to where the interrupts   *)
(* read it before the handler runs.                                        *)

Change == setting = Quiet /\ changes < MaxChanges /\ changes' = changes + 1 /\ clean' = FALSE

SetMode(m) ==
  /\ Change /\ mode' = m /\ setting' = "mode"
  /\ UNCHANGED <<count, driver, frame, cut>>

SetCount(n) ==
  /\ Change /\ count' = n /\ setting' = "count"
  /\ UNCHANGED <<mode, driver, frame, cut>>

(* gfx_i8_kv_handler: param_error_check.                                   *)
CheckCount ==
  /\ setting = "count" /\ setting' = Quiet
  /\ count' = IF count > MaxPixels THEN MaxPixels ELSE IF count = 0 THEN 1 ELSE count
  /\ clean' = FALSE
  /\ UNCHANGED <<mode, driver, frame, cut, changes>>

(* pix_i8_kv_handler: pixel_v_init stops the timer and the channels.  It   *)
(* leaves double buffering as it is.                                       *)
Reset(m) ==
  /\ channel' = [c \in Channels |-> << >>] /\ sending' = "none" /\ irq' = {}
  /\ IF m = "off" THEN timer' = TimerOff /\ UNCHANGED perBuf
                  ELSE timer' = Gap /\ perBuf' = PerBuf[m]

InitDriver ==
  /\ setting = "mode" /\ setting' = Quiet
  /\ Reset(mode) /\ clean' = FALSE
  /\ UNCHANGED <<mode, count, current, trailer, double, frame, cut, changes>>

DriverInit ==
  /\ mode \in Modes /\ count = MaxPixels /\ setting = Quiet
  /\ perBuf = PerBuf[mode] /\ current = 0 /\ trailer = FALSE
  /\ channel = [c \in Channels |-> << >>] /\ sending = "none" /\ double = FALSE
  /\ irq = {} /\ timer = Gap
  /\ clean = FALSE /\ frame = << >> /\ cut = FALSE /\ changes = 0

Handler   == InitDriver \/ CheckCount
Interrupt == TimerIsr \/ \E c \in Channels : DmaIsr(c)

DriverNext ==
  \/ Tick \/ Interrupt \/ Handler
  \/ \E m \in Modes \cup {"off"} : SetMode(m)
  \/ \E n \in Counts : SetCount(n)

(* The clock, and a processor that serves its interrupts.                  *)
DriverSpec == DriverInit /\ [][DriverNext]_driverVars /\ WF_driverVars(Tick) /\ WF_driverVars(Interrupt) /\ WF_driverVars(Handler)
-----------------------------------------------------------------------------
(* Properties.                                                             *)

DriverTypeOK ==
  /\ mode \in Modes \cup {"off"} /\ count \in 0 .. Word - 1 /\ current \in 0 .. Word - 1
  /\ setting \in {Quiet, "mode", "count"} /\ sending \in Channels \cup {"none"}
  /\ irq \subseteq Channels /\ timer \in TimerOff .. Watchdog
  /\ perBuf \in {PerBuf[m] : m \in Modes}

(* A frame that was begun with settings that are whole, after one that was *)
(* not cut off, sends each pixel once and in order, with its header and    *)
(* trailer, however late the interrupts are; and it is sent to the end     *)
(* before the next begins.                                                 *)
FramesWhole == ~cut /\ (clean => IsPrefix(frame, Expected))

(* pixel.c:42: "Pixie needs at least 1 ms between frames".  The timer that *)
(* is to see to it is set when one channel has run dry, and the other may  *)
(* still have a whole buffer to send.                                      *)
FramesApart == ~cut

(* Once nobody changes the settings any more, whole frames are sent again  *)
(* and again, unless the driver is off.                                    *)
FramesGoOn == []<>(mode = "off") \/ []<>(clean /\ frame = Expected)
==============================================================================

------------------------------ MODULE RtcClock ------------------------------
(***************************************************************************)
(* 008.rtc(count): alarm, which doubles the delay of its alarm, set_time,  *)
(* which prints the time of day, and alarm_2, which does both, with a      *)
(* delay that stays.  The unit of time is a second.                        *)
(*                                                                         *)
(* External: the counter, which starts again at 0 after Span seconds       *)
(* (24 bits at 32768 Hz: 512), and the driver, which takes no alarm beyond *)
(* that and calls the handler at once when one is due.  The loop sleeps a  *)
(* second; with printing it takes at most Late.  A counter that is not     *)
(* ready ends main and is left out.                                        *)
(***************************************************************************)
EXTENDS Integers

CONSTANTS Span, Late,
          Minute, Hour, \* seconds of a minute, minutes of an hour
          Noon          \* hours on the face of the clock

ASSUME RtcAssumption ==
  /\ Span \in Nat /\ Span > 4
  /\ Minute \in Nat /\ Minute < Span /\ Hour \in Nat \ {0} /\ Noon \in Nat \ {0}
  /\ Late \in Nat \ {0} /\ Late < Minute

\* The face has 60 minutes, and the counter starts again 32 s into a minute.
ASSUME FaceAssumption == Hour > 1 /\ (Span % Minute = 0 \/ Span % Minute >= Late)

VARIABLES
  sample, \* which of the three programs
  now,    \* the counter
  ticks,  \* alarm_cfg.ticks
  armed,  \* the channel has an alarm,
  away,   \* and it is so far away
  hours, minutes, remaining_seconds,
  slept   \* since the time was printed

alarm == <<ticks, armed, away>>
clock == <<hours, minutes, remaining_seconds, slept>>
rtc == <<sample, now, alarm, clock>>

\* main, up to its loop.  The time of day to begin with is written in the source.
RtcInit ==
  /\ sample \in {"alarm", "alarm_2", "set_time"}
  /\ now = 0
  /\ ticks = (CASE sample = "alarm" -> 2 [] sample = "alarm_2" -> 4 [] sample = "set_time" -> 0)
  /\ armed = (sample # "set_time") /\ away = ticks
  /\ hours \in 1 .. Noon + 2 /\ minutes \in 0 .. Hour - 1
  /\ remaining_seconds = 0 /\ slept = 1

-----------------------------------------------------------------------------
Due == armed /\ away = 0

Second ==
  /\ ~Due /\ (sample = "alarm" \/ slept < Late)
  /\ now' = (now + 1) % Span
  /\ away' = IF armed THEN away - 1 ELSE away
  /\ slept' = IF sample = "alarm" THEN slept ELSE slept + 1
  /\ UNCHANGED <<sample, ticks, armed, hours, minutes, remaining_seconds>>

\* counter_set_channel_alarm
Set(delay) == /\ ticks' = delay
              /\ armed' = (delay < Span)
              /\ away' = IF armed' THEN delay ELSE 0

test_counter_interrupt_fn ==
  /\ Due
  /\ Set(IF sample = "alarm" THEN ticks * 2 ELSE ticks)
  /\ UNCHANGED <<sample, now, clock>>

\* An alarm that fires is gone, and the handler does not set the next one.
CounterFails ==
  /\ Due /\ armed' = FALSE
  /\ UNCHANGED <<sample, now, ticks, away, clock>>

-----------------------------------------------------------------------------
(* What print_date_time makes of hours and minutes when second 0 is read.  *)

\* Time of day after the minute that begins.
Carry(h, m) == IF m > Hour - 1 THEN <<h + 1, 0>> ELSE <<h, m>>
Face(h) == IF h >= Noon + 1 THEN 1 ELSE h

\* print_date_time that looks for the full hour before it counts the minute.
CarryFirst ==
  LET second == now % Minute
      time == Carry(hours, minutes)
  IN  /\ sample # "alarm" /\ ~Due /\ slept > 0 /\ slept' = 0
      /\ remaining_seconds' = second
      /\ minutes' = IF second = 0 THEN time[2] + 1 ELSE time[2]
      /\ hours' = Face(time[1])
      /\ UNCHANGED <<sample, now, alarm>>

print_date_time ==
  LET second == now % Minute
      time == Carry(hours, IF second = 0 THEN minutes + 1 ELSE minutes)
  IN  /\ sample # "alarm" /\ ~Due /\ slept > 0 /\ slept' = 0
      /\ remaining_seconds' = second
      /\ minutes' = time[2]
      /\ hours' = Face(time[1])
      /\ UNCHANGED <<sample, now, alarm>>

RtcNext == Second \/ test_counter_interrupt_fn \/ CounterFails \/ print_date_time
RtcSpec == RtcInit /\ [][RtcNext]_rtc

-----------------------------------------------------------------------------
RtcTypeOK ==
  /\ now \in 0 .. Span - 1 /\ armed \in BOOLEAN
  /\ ticks \in 0 .. 2 * Span /\ away \in 0 .. Span - 1
  /\ hours \in 1 .. Noon + 2 /\ minutes \in 0 .. Hour - 1
  /\ remaining_seconds \in 0 .. Minute - 1 /\ slept \in 0 .. Late

TimeOfDay == ((hours % Noon) * Hour + minutes) * Minute + remaining_seconds
Advance == (TimeOfDay' - TimeOfDay) % (Noon * Hour * Minute)

\* Second 0 passed between two readings.
Skipped == now % Minute # 0 /\ now % Minute < slept

(***************************************************************************)
(* The clock of set_time and alarm_2 is never late: from one time it       *)
(* prints to the next it moves by what passed or more (it jumps ahead when *)
(* the counter wraps in the middle of a minute), never by more than a      *)
(* minute, through full minutes, hours and noon, unless second 0 passed    *)
(* between two readings of the counter.  What it prints is a time of a     *)
(* 12-hour clock.                                                          *)
(***************************************************************************)
ClockForward ==
  [][slept' < slept /\ hours <= Noon /\ ~Skipped =>
       /\ Advance \in slept .. Minute
       /\ hours' \in 1 .. Noon /\ minutes' < Hour]_rtc

(***************************************************************************)
(* README of the sample alarm: at each expiry a new alarm is configured    *)
(* with twice the delay, endlessly.                                        *)
(***************************************************************************)
ExpiryRearms == [][ticks' = 2 * ticks /\ ticks # 0 => armed']_rtc
=============================================================================

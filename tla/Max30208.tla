------------------------------ MODULE Max30208 ------------------------------
(***************************************************************************)
(* max30208_zephyr_nordic: the driver of a temperature sensor that keeps   *)
(* its measurements in a FIFO.                                             *)
(*                                                                         *)
(* A call is a script of register accesses.  read_register and             *)
(* write_register return their -1 as a uint8_t, so 255: most callers test  *)
(* an int for ret < 0, never see it and go on; Noticed has the others.     *)
(* main triggers a conversion, sleeps 100 ms, reads, and gives up at the   *)
(* first error it sees; the other calls of max30208.h may come in any      *)
(* order.  One thread calls the driver.                                    *)
(*                                                                         *)
(* External: the chip, which converts once per request, stops storing when *)
(* its FIFO is full, and loses nothing when the processor is reset.  A     *)
(* transfer that fails may have reached it.  The registers of alarms,      *)
(* interrupts and GPIO are left out: no call depends on what they hold.    *)
(***************************************************************************)
EXTENDS Integers, Sequences

CONSTANT Depth  \* entries of the FIFO

ASSUME DepthAssumption == Depth \in Nat \ {0}

VARIABLES
  status,     \* main: "off", "ready" after max30208_init, "over" when it has returned
  routine,    \* the call that runs, or "none"
  place,      \* its next access
  left,       \* no_of_samples in MAX30208_GetRawData
  value,      \* the value it took from the FIFO last: "none", "old" or "new"
  code,       \* what the last call returned: "ok" or "error"
  fifo,       \* the chip: its FIFO, oldest first,
  overflow,   \* its overflow counter is not 0,
  converting, \* and a conversion runs
  missed,     \* history: a transfer of the call failed
  answered,   \* history: one succeeded
  triggered,  \* history: the last call was a trigger without a failed transfer
  due         \* history: a new value waited when a read began or counted

mainMax == <<status, routine, place, left, value, code>>
chipMax == <<fifo, overflow, converting>>
pastMax == <<missed, answered, triggered, due>>
max30208 == <<mainMax, chipMax, pastMax>>

Max30208Init ==
  /\ status = "off" /\ routine = "none" /\ place = 1 /\ left = 0
  /\ value = "none" /\ code = "error"
  /\ fifo = <<>> /\ overflow = FALSE /\ converting = FALSE
  /\ missed = FALSE /\ answered = FALSE /\ triggered = FALSE /\ due = FALSE

-----------------------------------------------------------------------------
(* The scripts.                                                            *)

StartUp == <<"ID", "RESET", "CONFIG1", "SET", "CONFIG1">>  \* after read_part_id
Measurement == <<"TEMP", "CONVERT", "TEMP">>
Alarm == <<"GET", "SET", "SET", "GET">>
Pins == <<"GET", "SET", "GET">>
Interrupts == <<"GET", "SET">>
ScriptsThat(flush) ==
  [init |-> StartUp, trigger |-> <<flush>> \o Measurement, measure |-> Measurement,
   read |-> <<"FIFO">>, raw |-> <<"STATUS", "OVERFLOW", "COUNTER", "FIFO">>,
   status |-> <<"STATUS">>, reset |-> <<"RESET">>, high |-> Alarm, low |-> Alarm,
   gpio |-> Pins, interrupts |-> Interrupts, mode |-> <<"SET">>]

\* Scripts without the flush.
NoFlush == ScriptsThat("SET")
Scripts == ScriptsThat("FLUSH")

\* Noticed with an int32_t in max30208_get_AlarmLow, as in max30208_get_AlarmHigh.
WideAlarm == {<<"init", 1>>, <<"init", 3>>, <<"init", 5>>, <<"trigger", 2>>,
              <<"measure", 1>>, <<"read", 1>>, <<"status", 1>>}

\* The accesses whose error ends the call: tested for ret # 0, or kept in an int8_t.
Noticed == {<<"init", 1>>, <<"init", 3>>, <<"init", 5>>, <<"trigger", 2>>,
            <<"measure", 1>>, <<"read", 1>>, <<"status", 1>>, <<"low", 1>>, <<"low", 4>>}

\* The calls that notice no error at all.
Deaf == {"raw", "reset", "high", "gpio", "interrupts", "mode"}

Access30208 == Scripts[routine][place]

\* All that is in the FIFO becomes old, but for the last entry if newest.
Aged(newest) == [i \in DOMAIN fifo |-> IF newest /\ i = Len(fifo) THEN "new" ELSE "old"]

Call30208(r) ==
  /\ routine = "none" /\ status = IF r = "init" THEN "off" ELSE "ready"
  /\ routine' = r /\ value' = "none" /\ missed' = FALSE /\ answered' = FALSE
  /\ fifo' = IF r = "trigger" THEN Aged(FALSE) ELSE fifo
  /\ due' = (r = "read" /\ triggered /\ ~converting)
  /\ UNCHANGED <<status, place, left, code, overflow, converting, triggered>>

Return30208(r) ==
  /\ routine' = "none" /\ place' = 1 /\ left' = 0 /\ code' = r
  /\ status' = IF r = "error" /\ routine \in {"init", "trigger", "read"} THEN "over" ELSE "ready"
  /\ triggered' = (routine = "trigger" /\ r = "ok" /\ ~missed')

GoTo30208(p) == place' = p /\ UNCHANGED <<status, routine, code, triggered>>

Served == answered' = TRUE /\ UNCHANGED missed
Missed == missed' = TRUE /\ UNCHANGED answered

-----------------------------------------------------------------------------
(* What an access does to the chip.                                        *)

Pop == /\ fifo' = IF fifo = <<>> THEN fifo ELSE Tail(fifo)
       /\ overflow' = FALSE /\ UNCHANGED converting

Empties(running) == fifo' = <<>> /\ overflow' = FALSE /\ converting' = running

Reaches ==
  \/ Access30208 = "RESET" /\ Empties(FALSE)
  \/ Access30208 = "FLUSH" /\ Empties(converting)
  \/ Access30208 = "CONVERT" /\ converting' = TRUE /\ UNCHANGED <<fifo, overflow>>
  \/ Access30208 = "FIFO" /\ Pop
  \/ Access30208 \notin {"RESET", "FLUSH", "CONVERT", "FIFO"} /\ UNCHANGED chipMax

\* An empty FIFO yields some value, which is not a measurement.
Oldest == IF fifo = <<>> THEN "none" ELSE Head(fifo)

-----------------------------------------------------------------------------
(* Every call but MAX30208_GetRawData.                                     *)

Ahead30208 == IF place = Len(Scripts[routine]) THEN Return30208("ok")
              ELSE GoTo30208(place + 1) /\ UNCHANGED left

Succeed ==
  /\ routine \notin {"none", "raw"}
  /\ Reaches /\ Served /\ Ahead30208
  /\ value' = IF Access30208 = "FIFO" THEN Oldest ELSE value
  /\ UNCHANGED due

\* read_part_id fails too when the id is another chip's.
Fail30208 ==
  /\ routine \notin {"none", "raw"}
  /\ Reaches \/ UNCHANGED chipMax
  /\ Missed
  /\ IF <<routine, place>> \in Noticed THEN Return30208("error") ELSE Ahead30208
  /\ UNCHANGED <<value, due>>

-----------------------------------------------------------------------------
(* MAX30208_GetRawData.  no_of_samples and overflow are 0 if their         *)
(* registers cannot be read.                                               *)

max30208_get_Status ==
  /\ routine = "raw" /\ place = 1
  /\ Served \/ Missed
  /\ GoTo30208(2) /\ UNCHANGED <<left, value, chipMax, due>>

\* Count that leaves one entry in a FIFO that overflowed.
CountAll(n) ==
  /\ left' = IF n = Depth THEN n - 1 ELSE n
  /\ fifo' = Aged(TRUE) /\ due' = (fifo # <<>>)
  /\ UNCHANGED <<value, overflow, converting>>

Count(n) ==
  /\ left' = n
  /\ fifo' = Aged(TRUE) /\ due' = (fifo # <<>>)
  /\ UNCHANGED <<value, overflow, converting>>

max30208_get_Overflow ==
  /\ routine = "raw" /\ place = 2
  /\ \/ overflow /\ Served /\ Count(Depth) /\ GoTo30208(4)
     \/ /\ (~overflow /\ Served) \/ Missed
        /\ GoTo30208(3) /\ UNCHANGED <<left, value, chipMax, due>>

max30208_get_DataCounter ==
  /\ routine = "raw" /\ place = 3
  /\ \/ fifo # <<>> /\ Served /\ Count(Len(fifo)) /\ GoTo30208(4)
     \/ /\ (fifo = <<>> /\ Served) \/ Missed
        /\ Return30208("ok") /\ UNCHANGED <<value, chipMax, due>>

\* A failed read keeps the last value.
max30208_get_FifoData ==
  /\ routine = "raw" /\ place = 4
  /\ \/ Pop /\ Served /\ value' = Oldest
     \/ (Pop \/ UNCHANGED chipMax) /\ Missed /\ UNCHANGED value
  /\ IF left = 1 THEN Return30208("ok") ELSE left' = left - 1 /\ GoTo30208(4)
  /\ UNCHANGED due

MAX30208_GetRawData == \/ max30208_get_Status \/ max30208_get_Overflow
                       \/ max30208_get_DataCounter \/ max30208_get_FifoData

-----------------------------------------------------------------------------
(* The chip, and a reset of the processor.                                 *)

Converted ==
  /\ converting /\ converting' = FALSE
  /\ IF Len(fifo) < Depth THEN fifo' = Append(fifo, "new") /\ UNCHANGED overflow
     ELSE overflow' = TRUE /\ UNCHANGED fifo
  /\ UNCHANGED <<mainMax, pastMax>>

Restarted ==
  /\ status' = "off" /\ routine' = "none" /\ place' = 1 /\ left' = 0
  /\ value' = "none" /\ code' = "error"
  /\ missed' = FALSE /\ answered' = FALSE /\ triggered' = FALSE /\ due' = FALSE
  /\ UNCHANGED chipMax

Max30208Next == \/ \E r \in DOMAIN Scripts : Call30208(r)
                \/ Succeed \/ Fail30208 \/ MAX30208_GetRawData \/ Converted \/ Restarted

Max30208Spec == Max30208Init /\ [][Max30208Next]_max30208

-----------------------------------------------------------------------------
Max30208TypeOK ==
  /\ status \in {"off", "ready", "over"} /\ code \in {"ok", "error"}
  /\ routine \in {"none"} \cup DOMAIN Scripts
  /\ place \in 1 .. 5 /\ left \in 0 .. Depth /\ value \in {"none", "old", "new"}
  /\ fifo \in Seq({"old", "new"}) /\ Len(fifo) <= Depth
  /\ overflow \in BOOLEAN /\ converting \in BOOLEAN
  /\ missed \in BOOLEAN /\ answered \in BOOLEAN /\ triggered \in BOOLEAN /\ due \in BOOLEAN

(***************************************************************************)
(* What main prints is a measurement that ended after main asked for it,   *)
(* whatever earlier calls, failed transfers and resets left in the FIFO    *)
(* or still converting, if none of the transfers of this one turn failed   *)
(* and the conversion took no longer than the 100 ms main sleeps.          *)
(***************************************************************************)
FreshReading ==
  [][routine = "read" /\ routine' = "none" /\ code' = "ok" /\ due => value' = "new"]_max30208

(***************************************************************************)
(* MAX30208_GetRawData gives the newest of the samples that waited when it *)
(* counted them, or a later one, also after an overflow and while a        *)
(* conversion ends between its reads, if no transfer of it failed.         *)
(***************************************************************************)
NewestSample ==
  [][routine = "raw" /\ routine' = "none" /\ code' = "ok" /\ due /\ ~missed' => value' = "new"]_max30208

(***************************************************************************)
(* A chip that does not answer is noticed by every call but the deaf ones: *)
(* none of them, and so no turn of main, returns 0 when all its transfers  *)
(* failed.                                                                 *)
(***************************************************************************)
AbsentChipNoticed ==
  [][routine \notin Deaf \cup {"none"} /\ routine' = "none" /\ code' = "ok" => answered']_max30208
=============================================================================

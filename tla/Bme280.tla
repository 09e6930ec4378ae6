------------------------------- MODULE Bme280 -------------------------------
(***************************************************************************)
(* 007.i2c/sensor/bme280: start-up, power management and sampling of one   *)
(* sensor, a BME280 or a BMP280 without humidity.                          *)
(*                                                                         *)
(* A call of the driver is a script of register accesses.  On I2C a block  *)
(* of registers is one transfer, on SPI the driver reads byte by byte.     *)
(* One thread calls the driver.                                            *)
(*                                                                         *)
(* External: the chip and the kernel's power management, which remembers a *)
(* suspension or a resumption that succeeded and nothing of a failed one.  *)
(* A write that fails may have reached the chip.                           *)
(***************************************************************************)
EXTENDS Integers, Sequences

CONSTANTS Measured, \* names of measurements
          Nothing   \* the output registers after a reset

ASSUME MeasuredAssumption == Nothing \notin Measured

VARIABLES
  burst,       \* the bus is I2C
  forced,      \* CONFIG_BME280_MODE_FORCED
  humid,       \* chip_id = BME280_CHIP_ID
  state,       \* "off", "ready" or "failed": what chip_init returned at boot
  suspended,   \* PM_DEVICE_STATE_SUSPENDED
  task,        \* the call that runs: "none", "init", "resume", "suspend" or "fetch"
  turn,        \* its place in the script
  buf,         \* in bme280_sample_fetch: the measurements its bytes come from ...
  byte,        \* ... and the byte that is read next
  dig,         \* the compensation parameters: "none", "read" or "garbage"
  comp,        \* the measurements that the compensated values come from
  mode,        \* the chip: "sleep", "forced" or "normal",
  busy,        \* measuring,
  copying,     \* copying its parameters after a reset,
  out,         \* and its output registers
  failedSleep, \* history: a suspension failed since the chip was set up
  old          \* history: the output registers when the running fetch began

build == <<burst, forced, humid>>
control == <<state, suspended, task, turn>>
data == <<buf, byte, dig, comp>>
sensor == <<mode, busy, copying, out>>
past == <<failedSleep, old>>
bme280 == <<build, control, data, sensor, past>>

Bme280Init ==
  /\ burst \in BOOLEAN /\ forced \in BOOLEAN /\ humid \in BOOLEAN
  /\ state = "off" /\ suspended = FALSE /\ task = "none" /\ turn = 1
  /\ buf = {} /\ byte = 0 /\ dig = "none" /\ comp = {}
  /\ mode = "sleep" /\ busy = FALSE /\ copying \in BOOLEAN /\ out = Nothing
  /\ failedSleep = FALSE /\ old = Nothing

-----------------------------------------------------------------------------
(* The scripts.                                                            *)

\* bme280_chip_init that reads the parameters at once.
NoNvmWait == <<"ID", "RESET", "COMP", "CTRL_HUM", "CTRL_MEAS", "CONFIG">>

ChipInit == IF humid
            THEN <<"ID", "RESET", "STATUS", "COMP", "CTRL_HUM", "CTRL_MEAS", "CONFIG">>
            ELSE <<"ID", "RESET", "STATUS", "COMP", "CTRL_MEAS", "CONFIG">>

\* Fetch that relies on the measurement of the last one.
FetchNoTrigger == <<"STATUS", "PRESS_MSB">>

Fetch == IF forced THEN <<"CTRL_MEAS", "STATUS", "PRESS_MSB">> ELSE <<"STATUS", "PRESS_MSB">>

Calls == IF task \in {"init", "resume"} THEN ChipInit
         ELSE IF task = "suspend" THEN <<"OFF">> ELSE Fetch
Register == Calls[turn]

Begin(t) ==
  /\ task = "none" /\ task' = t /\ turn' = 1
  /\ UNCHANGED <<build, state, suspended, dig, comp, sensor>>

bme280_chip_init ==
  /\ state = "off" /\ Begin("init") /\ UNCHANGED <<buf, byte, past>>

bme280_sample_fetch ==
  /\ state = "ready" /\ ~suspended /\ Begin("fetch")
  /\ buf' = {} /\ byte' = 0 /\ old' = out
  /\ UNCHANGED failedSleep

bme280_pm_action ==
  /\ state = "ready"
  /\ Begin(IF suspended THEN "resume" ELSE "suspend")
  /\ UNCHANGED <<buf, byte, past>>

-----------------------------------------------------------------------------
(* The end of a register access.                                           *)

\* PM_DEVICE_STATE changes with an action that succeeded.
End(ok) ==
  /\ task' = "none" /\ turn' = 1
  /\ state' = IF task # "init" THEN state ELSE IF ok THEN "ready" ELSE "failed"
  /\ suspended' = IF ok /\ task \in {"resume", "suspend"} THEN task = "suspend" ELSE suspended
  /\ failedSleep' = IF task = "suspend" THEN ~ok
                    ELSE IF ok /\ task \in {"init", "resume"} THEN FALSE ELSE failedSleep
  /\ UNCHANGED <<build, old>>

Ahead == IF turn = Len(Calls) THEN End(TRUE)
         ELSE turn' = turn + 1 /\ UNCHANGED <<build, state, suspended, task, past>>

ReadId == /\ Register = "ID" /\ Ahead /\ UNCHANGED <<data, sensor>>

ResetChip == mode' = "sleep" /\ busy' = FALSE /\ copying' = TRUE /\ out' = Nothing

\* That the reset failed is logged and no more.
SoftReset == /\ Register = "RESET" /\ Ahead /\ UNCHANGED data
             /\ ResetChip \/ UNCHANGED sensor

\* One turn of bme280_wait_until_ready
ReadReady ==
  /\ Register = "STATUS"
  /\ IF busy \/ copying THEN UNCHANGED <<build, control, past>> ELSE Ahead
  /\ UNCHANGED <<data, sensor>>

bme280_read_compensation ==
  /\ Register = "COMP" /\ Ahead
  /\ dig' = IF copying THEN "garbage" ELSE "read"
  /\ UNCHANGED <<buf, byte, comp, sensor>>

WriteConfig == /\ Register \in {"CTRL_HUM", "CONFIG"} /\ Ahead /\ UNCHANGED <<data, sensor>>

StartMode == /\ mode' = (IF forced THEN "forced" ELSE "normal") /\ busy' = TRUE
             /\ UNCHANGED <<copying, out>>

WriteCtrl == Register = "CTRL_MEAS" /\ StartMode /\ Ahead /\ UNCHANGED data

\* A measurement that runs may still be finished.
FallAsleep == mode' = "sleep" /\ busy' \in {busy, FALSE} /\ UNCHANGED <<copying, out>>

WriteOff == Register = "OFF" /\ FallAsleep /\ Ahead /\ UNCHANGED data

\* Byte by byte on I2C too.
SplitSample ==
  /\ Register = "PRESS_MSB"
  /\ LET last == IF humid THEN 7 ELSE 5
     IN  IF byte = last
         THEN /\ comp' = buf \cup {out} /\ buf' = {} /\ byte' = 0 /\ Ahead
         ELSE /\ buf' = buf \cup {out} /\ byte' = byte + 1
              /\ UNCHANGED <<build, control, comp, past>>
  /\ UNCHANGED <<dig, sensor>>

\* On I2C the block is one transfer; the compensation follows the last byte.
ReadSample ==
  /\ Register = "PRESS_MSB"
  /\ LET last == IF humid THEN 7 ELSE 5
     IN  IF burst \/ byte = last
         THEN /\ comp' = buf \cup {out} /\ buf' = {} /\ byte' = 0 /\ Ahead
         ELSE /\ buf' = buf \cup {out} /\ byte' = byte + 1
              /\ UNCHANGED <<build, control, comp, past>>
  /\ UNCHANGED <<dig, sensor>>

\* A bus error or an unknown chip id ends the call, except at the reset.
AccessFails ==
  /\ Register # "RESET" /\ End(FALSE) /\ UNCHANGED <<comp, byte, buf, dig>>
  /\ \/ UNCHANGED sensor
     \/ Register = "CTRL_MEAS" /\ StartMode
     \/ Register = "OFF" /\ FallAsleep

RegisterAccess ==
  /\ task # "none"
  /\ \/ ReadId \/ SoftReset \/ ReadReady \/ bme280_read_compensation \/ WriteConfig
     \/ WriteCtrl \/ WriteOff \/ ReadSample \/ AccessFails

-----------------------------------------------------------------------------
(* The chip, and a reset of the processor.                                 *)

Copied == copying /\ copying' = FALSE /\ UNCHANGED <<build, control, data, mode, busy, out, past>>

Finish ==
  /\ busy /\ busy' = FALSE
  /\ \E m \in Measured \ ({out, old} \cup buf) : out' = m
  /\ mode' = IF mode = "forced" THEN "sleep" ELSE mode
  /\ UNCHANGED <<build, control, data, copying, past>>

Again == /\ mode = "normal" /\ ~busy /\ busy' = TRUE
         /\ UNCHANGED <<build, control, data, mode, copying, out, past>>

Restart ==
  /\ state' = "off" /\ suspended' = FALSE /\ task' = "none" /\ turn' = 1
  /\ buf' = {} /\ byte' = 0 /\ dig' = "none" /\ comp' = {}
  /\ failedSleep' = FALSE /\ old' = Nothing
  /\ UNCHANGED <<build, sensor>>

Bme280Next == \/ bme280_chip_init \/ bme280_sample_fetch \/ bme280_pm_action
              \/ RegisterAccess \/ Copied \/ Finish \/ Again \/ Restart

Bme280Spec == Bme280Init /\ [][Bme280Next]_bme280

-----------------------------------------------------------------------------
Bme280TypeOK ==
  /\ burst \in BOOLEAN /\ forced \in BOOLEAN /\ humid \in BOOLEAN /\ suspended \in BOOLEAN
  /\ state \in {"off", "ready", "failed"}
  /\ task \in {"none", "init", "resume", "suspend", "fetch"} /\ turn \in 1 .. Len(Calls)
  /\ buf \subseteq Measured \cup {Nothing} /\ comp \subseteq Measured \cup {Nothing}
  /\ byte \in 0 .. 7 /\ dig \in {"none", "read", "garbage"}
  /\ mode \in {"sleep", "forced", "normal"} /\ busy \in BOOLEAN /\ copying \in BOOLEAN
  /\ {out, old} \subseteq Measured \cup {Nothing} /\ failedSleep \in BOOLEAN

(***************************************************************************)
(* The bytes of a sample belong to one measurement although SPI reads them *)
(* one by one, if the chip measures on demand; in normal mode this needs   *)
(* the single transfer of I2C.                                             *)
(***************************************************************************)
SampleUntorn == burst \/ forced => \A m, n \in comp : m = n

(***************************************************************************)
(* In forced mode a fetch that returns 0 gives a measurement that ended    *)
(* after the fetch began, whatever failed before, a suspension included.   *)
(***************************************************************************)
ForcedIsFresh ==
  [][forced /\ ReadSample /\ task' = "none" => comp' \cap {old, Nothing} = {}]_bme280

(***************************************************************************)
(* A device that is ready and not suspended has its parameters, read after *)
(* the chip had copied them, and in normal mode its chip measures.  The    *)
(* exception is a suspension that failed: the kernel takes the device for  *)
(* active while the chip may be asleep.                                    *)
(***************************************************************************)
ReadyIsSetUp ==
  state = "ready" /\ ~suspended /\ task \in {"none", "fetch"} =>
    dig = "read" /\ (~forced /\ ~failedSleep => mode = "normal")
=============================================================================

------------------------------- MODULE Bme680 -------------------------------
(***************************************************************************)
(* 007.i2c/sensor/bme680: initialisation and sampling of one sensor.       *)
(*                                                                         *)
(* On SPI a register address has seven bits, and a bit of the chip's       *)
(* STATUS register chooses one of two pages; the driver keeps a copy of    *)
(* that bit, mem_page.  Both calls of the driver are scripts of register   *)
(* accesses that the first error ends.                                     *)
(*                                                                         *)
(* External: the chip.  It measures once per trigger, keeps the new-data   *)
(* bit until the next trigger or, perhaps, until a read that succeeds, and *)
(* loses no state when the processor is reset.  A failed write may have    *)
(* reached it.                                                             *)
(***************************************************************************)
EXTENDS Integers, Sequences

CONSTANTS Ids,  \* names of measurements
          None  \* no measurement

ASSUME IdsAssumption == None \notin Ids

VARIABLES
  spi,      \* the instance is on an SPI bus (bus_io)
  device,   \* "off", "ready" or "failed": what init returned
  call,     \* the call that runs: "none", "init" or "fetch"
  step,     \* its place in the script
  at,       \* inside a register access: "page" or "access"
  memPage,  \* data->mem_page
  temp,     \* the measurement calc_temp comes from
  tFine,    \* the one t_fine comes from
  others,   \* pressure, humidity and gas: <<raw values of, t_fine of>>
  chipPage, \* the page bit in the chip
  measuring, newData, field,  \* the chip: measuring, new-data bit, output registers
  ret,      \* history: what the last call returned: "ok" or "error"
  waited,   \* history: the chip was idle when the running fetch began
  given     \* history: the measurement the last successful fetch gave

driver == <<device, call, step, at, memPage>>
sample == <<temp, tFine, others>>
chip == <<chipPage, measuring, newData, field>>
history == <<ret, waited, given>>
vars == <<spi, driver, sample, chip, history>>

Init == /\ spi \in BOOLEAN
        /\ device = "off" /\ call = "none" /\ step = 1 /\ at = "page" /\ memPage = 0
        /\ temp = None /\ tFine = None /\ others = <<None, None>>
        /\ chipPage \in {0, 1} /\ measuring \in BOOLEAN /\ newData \in BOOLEAN
        /\ field \in Ids \cup {None} /\ (newData => field # None /\ ~measuring)
        /\ ret = "error" /\ waited = FALSE /\ given = None

-----------------------------------------------------------------------------
(* The scripts.                                                            *)

InitScript == <<"STATUS", "CHIP_ID", "COEFF1", "COEFF2", "COEFF3", "CTRL_HUM", "CONFIG",
                "CTRL_GAS_1", "RES_HEAT0", "GAS_WAIT0", "CTRL_MEAS">>

\* FetchScript with the trigger first.
TriggerFirst == <<"CTRL_MEAS", "FIELD0">>

FetchScript == <<"FIELD0", "CTRL_MEAS">>

Script == IF call = "init" THEN InitScript ELSE FetchScript
Reg == Script[step]

\* page in bme680_set_mem_page
Page(reg) == IF reg \in {"CHIP_ID", "COEFF1", "COEFF2"} THEN 0 ELSE 1

\* bme680_init that trusts the zeroed mem_page.
InitNoStatus ==
  /\ device = "off" /\ call = "none"
  /\ call' = "init" /\ at' = "page" /\ step' = 2
  /\ UNCHANGED <<spi, device, memPage, sample, chip, history>>

\* STATUS is read on SPI only.
bme680_init ==
  /\ device = "off" /\ call = "none"
  /\ call' = "init" /\ at' = "page"
  /\ step' = IF spi THEN 1 ELSE 2
  /\ UNCHANGED <<spi, device, memPage, sample, chip, history>>

bme680_sample_fetch ==
  /\ device = "ready" /\ call = "none"
  /\ call' = "fetch" /\ at' = "page" /\ step' = 1
  /\ waited' = ~measuring
  /\ UNCHANGED <<spi, device, memPage, sample, chip, ret, given>>

-----------------------------------------------------------------------------
(* One register access.                                                    *)

\* An error ends the call; after init the device is not usable.
Return(ok) ==
  /\ call' = "none" /\ at' = "page" /\ step' = 1
  /\ ret' = IF ok THEN "ok" ELSE "error"
  /\ device' = IF call = "fetch" \/ ok THEN "ready" ELSE "failed"
  /\ given' = IF call = "fetch" /\ ok THEN temp' ELSE given
  /\ UNCHANGED <<spi, waited>>

Advance ==
  /\ step' = step + 1 /\ at' = "page"
  /\ UNCHANGED <<spi, device, call, history>>

Continue == IF step = Len(Script) THEN Return(TRUE) ELSE Advance

\* Nothing to do on I2C or on the right page; the write sets the bit to page.
bme680_set_mem_page ==
  /\ call # "none" /\ at = "page"
  /\ IF spi /\ memPage # Page(Reg)
     THEN \/ /\ at' = "access" /\ chipPage' = Page(Reg) /\ memPage' = Page(Reg)
             /\ UNCHANGED <<spi, device, call, step, history>>
          \/ Return(FALSE) /\ chipPage' \in {chipPage, Page(Reg)} /\ UNCHANGED memPage
     ELSE at' = "access" /\ UNCHANGED <<spi, device, call, step, memPage, chipPage, history>>
  /\ UNCHANGED <<sample, measuring, newData, field>>

\* Pressure, humidity and gas computed before the temperature.
TempLast ==
  IF newData THEN temp' = field /\ tFine' = field /\ others' = <<field, tFine>>
  ELSE UNCHANGED sample

\* calc_temp leaves t_fine for calc_press and calc_humidity.
Compute ==
  IF newData THEN temp' = field /\ tFine' = field /\ others' = <<field, tFine'>>
  ELSE UNCHANGED sample

Trigger == measuring' = TRUE /\ newData' = FALSE

\* lines 377-382 of bme680_init
ReadStatus ==
  /\ Reg = "STATUS" /\ memPage' = chipPage /\ Advance
  /\ UNCHANGED <<sample, chip>>

ReadField ==
  /\ Reg = "FIELD0" /\ Compute /\ Continue
  /\ newData' \in {newData, FALSE}
  /\ UNCHANGED <<memPage, chipPage, measuring, field>>

WriteCtrlMeas ==
  /\ Reg = "CTRL_MEAS" /\ Trigger
  /\ UNCHANGED <<memPage, sample, chipPage, field>>
  /\ Continue

OtherAccess ==
  /\ Reg \notin {"STATUS", "FIELD0", "CTRL_MEAS"} /\ Advance
  /\ UNCHANGED <<memPage, sample, chip>>

\* A bus error, or a wrong chip id.
Fail ==
  /\ Return(FALSE)
  /\ \/ Reg = "CTRL_MEAS" /\ Trigger
     \/ UNCHANGED <<measuring, newData>>
  /\ UNCHANGED <<memPage, sample, chipPage, field>>

Access == /\ call # "none" /\ at = "access"
          /\ ReadStatus \/ ReadField \/ WriteCtrlMeas \/ OtherAccess \/ Fail

-----------------------------------------------------------------------------
(* The chip, and a reset of the processor.                                 *)

Measure ==
  /\ measuring
  /\ \E m \in Ids \ {temp, tFine, others[1], others[2], field, given} : field' = m
  /\ measuring' = FALSE /\ newData' = TRUE
  /\ UNCHANGED <<spi, driver, sample, chipPage, history>>

\* struct bme680_data is zeroed before bme680_init.
Reset ==
  /\ device' = "off" /\ call' = "none" /\ step' = 1 /\ at' = "page" /\ memPage' = 0
  /\ temp' = None /\ tFine' = None /\ others' = <<None, None>>
  /\ ret' = "error"
  /\ UNCHANGED <<spi, chip, waited, given>>

Next == \/ bme680_init \/ bme680_sample_fetch \/ bme680_set_mem_page \/ Access
        \/ Measure \/ Reset

Spec == Init /\ [][Next]_vars

-----------------------------------------------------------------------------
BmeTypeOK == /\ spi \in BOOLEAN
             /\ device \in {"off", "ready", "failed"}
             /\ call \in {"none", "init", "fetch"}
             /\ step \in 1 .. Len(Script)
             /\ at \in {"page", "access"}
             /\ memPage \in {0, 1} /\ chipPage \in {0, 1}
             /\ {temp, tFine, field, given} \subseteq Ids \cup {None}
             /\ others \in (Ids \cup {None}) \X (Ids \cup {None})
             /\ measuring \in BOOLEAN /\ newData \in BOOLEAN
             /\ waited \in BOOLEAN /\ ret \in {"ok", "error"}

(***************************************************************************)
(* mem_page: whatever page the chip was left on by a reset, and whichever  *)
(* accesses failed, every access that goes through finds the chip on the   *)
(* page of its register.                                                   *)
(***************************************************************************)
RightPage == spi /\ call # "none" /\ at = "access" => chipPage = Page(Reg)

(***************************************************************************)
(* The values that bme680_channel_get returns are those of one             *)
(* measurement, each computed with that measurement's t_fine.              *)
(***************************************************************************)
SampleWhole == tFine = temp /\ others = <<temp, temp>>

(***************************************************************************)
(* A fetch that found the chip idle and returns 0 gives a measurement that *)
(* no successful fetch gave before, through failed calls, resets and early *)
(* fetches in between.  (An early fetch returns 0 with the old values.)    *)
(***************************************************************************)
FreshSample ==
  [][call = "fetch" /\ call' = "none" /\ ret' = "ok" /\ waited => given' # given]_vars
=============================================================================

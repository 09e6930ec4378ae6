------------------------------ MODULE BmeProofs ------------------------------
(***************************************************************************)
(* Proofs about Bme680 and Bme280, for every set of measurements, and      *)
(* about the functions of Bme680Calc and SensorValues.                     *)
(***************************************************************************)
EXTENDS Bme680, Bme280, SensorValues, TLAPS

(***************************************************************************)
(* calc_gas_wait: the loop ends after three turns.                         *)
(***************************************************************************)
LEMMA GasWaitLoopEnds ==
  ASSUME NEW dur \in 0 .. 4031
  PROVE  ~Long(Scaled(dur)) /\ Scaled(dur).factor \in 0 .. 3 /\ Scaled(dur).dur \in 0 .. 63
BY DEF Scaled, Turn, Long

(***************************************************************************)
(* The code fits its byte, and the chip waits no longer than asked, and    *)
(* shorter by less than one unit of the scale chosen.                      *)
(***************************************************************************)
THEOREM GasWaitRoundsDown ==
  ASSUME NEW dur \in 0 .. 4031
  PROVE  LET code == calc_gas_wait(dur) IN
         /\ code \in 0 .. 255
         /\ Decoded(code) <= dur /\ dur < Decoded(code) + Scale[code \div 64 + 1]
<1> DEFINE w == Scaled(dur)
<1>1. w.factor \in 0 .. 3 /\ w.dur \in 0 .. 63
  BY DEF Scaled, Turn, Long
<1>2. w.dur * Scale[w.factor + 1] <= dur /\ dur < (w.dur + 1) * Scale[w.factor + 1]
  BY DEF Scaled, Turn, Long, Scale
<1>3. calc_gas_wait(dur) = w.dur + w.factor * 64
  BY DEF calc_gas_wait
<1>4. calc_gas_wait(dur) % 64 = w.dur /\ calc_gas_wait(dur) \div 64 = w.factor
  BY <1>1, <1>3
<1> HIDE DEF w
<1>5. Scale[w.factor + 1] \in Int
  BY <1>1 DEF Scale
<1> QED BY <1>1, <1>2, <1>3, <1>4, <1>5 DEF Decoded

(***************************************************************************)
(* No calibration makes calc_res_heat divide by zero.                      *)
(***************************************************************************)
LEMMA HeatDivides ==
  ASSUME NEW v \in -128 .. 127
  PROVE  HeatDivisor(v) > 0
BY DEF HeatDivisor

LEMMA Products ==
  ASSUME NEW a \in Nat, NEW b \in Nat, NEW c \in Nat, NEW d \in Nat, a >= c, b >= d
  PROVE  a * b \in Nat /\ a * b >= c * d
<1>1. a * b >= c * b /\ c * b >= c * d
  BY SMTT(30)
<1> QED BY <1>1, SMTT(30)

(***************************************************************************)
(* calc_gas_resistance: for every calibration and reading it divides by a  *)
(* positive number.                                                        *)
(***************************************************************************)
THEOREM GasDivides ==
  ASSUME NEW range \in 0 .. 15, NEW err \in -8 .. 7, NEW adc \in 0 .. 1023
  PROVE  GasDivisor(range, err, adc) > 0
<1> DEFINE a == 1340 + 5 * err
           b == look_up1(range)
<1>1. a \in Nat /\ a >= 1300
  BY SMTT(30)
<1>2. b \in Nat /\ b >= 2126008810
  BY SMTT(30) DEF look_up1
<1>3. GasScale(range, err) = (a * b) \div 65536
  BY SMTT(30) DEF GasScale
<1> HIDE DEF a, b
<1>4. a * b \in Nat /\ a * b >= 1300 * 2126008810
  BY <1>1, <1>2, Products, SMTT(30)
<1>5. a * b >= 2763811453000
  BY <1>4, SMTT(30)
<1>6. (a * b) \div 65536 \in Nat /\ (a * b) \div 65536 >= 42000000
  <2> DEFINE c == a * b
  <2>1. c \in Nat /\ c >= 2763811453000
    BY <1>4, <1>5, SMTT(30)
  <2> HIDE DEF c
  <2>2. c \div 65536 \in Nat /\ c \div 65536 >= 42000000
    BY <2>1, SMTT(30)
  <2> QED BY <2>2, SMTT(30) DEF c
<1> QED BY <1>3, <1>6, SMTT(30) DEF GasDivisor

(***************************************************************************)
(* bme680_channel_get loses nothing, for negative temperatures too: whole  *)
(* part and millionths add up to the value, with one sign, and the         *)
(* fraction is smaller than one.                                           *)
(***************************************************************************)
THEOREM TemperatureExact ==
  ASSUME NEW t \in Int
  PROVE  /\ Millionths(Temperature(t)) = t * 10000 /\ OneSign(Temperature(t))
         /\ Temperature(t).val2 < 1000000 /\ Temperature(t).val2 > -1000000
<1> DEFINE q == Quot(t, 100)
           r == Rem(t, 100)
<1>1. /\ q \in Int /\ r \in Int /\ t = 100 * q + r
      /\ t >= 0 => q >= 0 /\ r >= 0 /\ r < 100
      /\ t < 0 => q <= 0 /\ r <= 0 /\ r > -100
  BY SMTT(30) DEF Quot, Rem
<1>2. Temperature(t) = [val1 |-> q, val2 |-> r * 10000]
  BY SMTT(30) DEF Temperature
<1> HIDE DEF q, r
<1>3. q * 1000000 + r * 10000 = t * 10000
  BY <1>1, SMTT(30)
<1>4. r * 10000 < 1000000 /\ r * 10000 > -1000000
  BY <1>1, SMTT(30)
<1>5. \/ q >= 0 /\ r * 10000 >= 0
      \/ q <= 0 /\ r * 10000 <= 0
  BY <1>1, SMTT(30)
<1>6. Temperature(t).val1 = q /\ Temperature(t).val2 = r * 10000
  BY <1>2, SMTT(30)
<1> QED BY <1>3, <1>4, <1>5, <1>6, SMTT(30) DEF Millionths, OneSign

(***************************************************************************)
(* The same for pressure and humidity, which are not negative.             *)
(***************************************************************************)
THEOREM ThousandthsExact ==
  ASSUME NEW v \in Nat
  PROVE  /\ Millionths(Thousandths(v)) = v * 1000 /\ OneSign(Thousandths(v))
         /\ Thousandths(v).val2 < 1000000
<1> DEFINE q == Quot(v, 1000)
           r == Rem(v, 1000)
<1>1. q \in Nat /\ r \in Nat /\ r < 1000 /\ v = 1000 * q + r
  BY SMTT(30) DEF Quot, Rem
<1>2. Thousandths(v) = [val1 |-> q, val2 |-> r * 1000]
  BY SMTT(30) DEF Thousandths
<1> HIDE DEF q, r
<1>3. q * 1000000 + r * 1000 = v * 1000
  BY <1>1, SMTT(30)
<1>4. r * 1000 >= 0 /\ r * 1000 < 1000000
  BY <1>1, SMTT(30)
<1>5. Thousandths(v).val1 = q /\ Thousandths(v).val2 = r * 1000
  BY <1>2, SMTT(30)
<1> QED BY <1>1, <1>3, <1>4, <1>5, SMTT(30) DEF Millionths, OneSign

-----------------------------------------------------------------------------
LEMMA Lengths == Len(InitScript) = 11 /\ Len(FetchScript) = 2
BY DEF InitScript, FetchScript

LEMMA Scripts ==
  /\ \A i \in 1 .. 11 : IF i = 1 THEN InitScript[i] = "STATUS"
                       ELSE IF i = 11 THEN InitScript[i] = "CTRL_MEAS"
                       ELSE InitScript[i] \notin {"STATUS", "FIELD0", "CTRL_MEAS"}
  /\ FetchScript[1] = "FIELD0" /\ FetchScript[2] = "CTRL_MEAS"
BY DEF InitScript, FetchScript

LEMMA Pages ==
  /\ Page("STATUS") = 1 /\ Page("FIELD0") = 1 /\ Page("CTRL_MEAS") = 1
  /\ \A r : Page(r) \in {0, 1}
BY DEF Page

(***************************************************************************)
(* The inductive invariant.  The copy of the page bit is right from the    *)
(* second access of init on: the first finds it zeroed, so that the bit is *)
(* written whatever page the chip is on.  A ready sensor whose sample has  *)
(* been given to the caller measures or has new data.                      *)
(***************************************************************************)
PageInv == /\ call = "init" => device = "off"
           /\ call = "fetch" => device = "ready"
           /\ device = "off" /\ call = "none" => memPage = 0
           /\ spi /\ device = "ready" => memPage = 1 /\ chipPage = 1
           /\ call = "init" /\ step = 1 => spi
           /\ call = "init" /\ step = 1 /\ at = "page" => memPage = 0
           /\ spi /\ call = "init" /\ (step # 1 \/ at = "access") => memPage = chipPage
           /\ spi /\ call # "none" /\ at = "access" => memPage = Page(Reg)

FreshInv == /\ newData => field # given
            /\ device = "ready" /\ temp = given => measuring \/ newData
            /\ call = "fetch" /\ waited /\ step = 1 => ~measuring
            /\ call = "fetch" /\ waited /\ step = 2 => temp # given

StepInv == /\ call = "init" => step \in 1 .. 11
           /\ call # "init" => step \in {1, 2}

Typed == /\ spi \in BOOLEAN
         /\ device \in {"off", "ready", "failed"}
         /\ call \in {"none", "init", "fetch"}
         /\ at \in {"page", "access"}
         /\ memPage \in {0, 1} /\ chipPage \in {0, 1}
         /\ temp \in Ids \cup {None} /\ tFine \in Ids \cup {None}
         /\ field \in Ids \cup {None} /\ given \in Ids \cup {None}
         /\ others \in (Ids \cup {None}) \X (Ids \cup {None})
         /\ measuring \in BOOLEAN
         /\ newData \in BOOLEAN
         /\ waited \in BOOLEAN
         /\ ret \in {"ok", "error"}

BmeInv == Typed /\ StepInv /\ PageInv /\ SampleWhole /\ FreshInv

LEMMA BmeInit == Init => BmeInv
<1> SUFFICES ASSUME Init PROVE BmeInv
  OBVIOUS
<1>1. Typed
  BY DEF Init, Typed
<1>2. StepInv /\ SampleWhole
  BY DEF Init, StepInv, SampleWhole
<1>3. PageInv /\ FreshInv
  BY DEF Init, PageInv, FreshInv
<1> QED BY <1>1, <1>2, <1>3 DEF BmeInv

\* Which register a call accesses.
LEMMA RegOf ==
  /\ call = "init" => Reg = InitScript[step] /\ Len(Script) = 11
  /\ call # "init" => Reg = FetchScript[step] /\ Len(Script) = 2
<1>1. CASE call = "init"
  <2>1. Script = InitScript
    BY <1>1 DEF Script
  <2> QED BY <1>1, <2>1, Lengths DEF Reg
<1>2. CASE call # "init"
  <2>1. Script = FetchScript
    BY <1>2 DEF Script
  <2> QED BY <1>2, <2>1, Lengths DEF Reg
<1> QED BY <1>1, <1>2

LEMMA InvTypes == BmeInv => BmeTypeOK
<1> SUFFICES ASSUME BmeInv PROVE BmeTypeOK
  OBVIOUS
<1>1. step \in 1 .. Len(Script)
  <2>1. CASE call = "init"
    BY <2>1, RegOf DEF BmeInv, StepInv
  <2>2. CASE call # "init"
    BY <2>2, RegOf DEF BmeInv, StepInv
  <2> QED BY <2>1, <2>2
<1> QED BY <1>1 DEF BmeInv, Typed, BmeTypeOK

\* What Return leaves, after the last access and after an error.
LEMMA ReturnsOk ==
  ASSUME BmeInv, Return(TRUE), call # "none", temp' \in Ids \cup {None}
  PROVE  /\ StepInv' /\ spi' = spi /\ ret' \in {"ok", "error"} /\ waited' = waited
         /\ device' = "ready" /\ call' = "none" /\ at' = "page"
         /\ given' = IF call = "fetch" THEN temp' ELSE given
BY DEF BmeInv, Typed, StepInv, PageInv, Return

LEMMA ReturnsError ==
  ASSUME BmeInv, Return(FALSE), call # "none"
  PROVE  /\ StepInv' /\ spi' = spi /\ ret' \in {"ok", "error"} /\ waited' = waited
         /\ device' \in {"ready", "failed"} /\ call' = "none" /\ at' = "page"
         /\ given' = given
         /\ device' = "ready" => device = "ready" /\ call = "fetch"
BY DEF BmeInv, Typed, StepInv, PageInv, Return

\* Where a call is when it accesses a register.
LEMMA AtReg ==
  ASSUME BmeInv, call # "none"
  PROVE  /\ Reg = "STATUS" => call = "init" /\ step = 1
         /\ Reg = "FIELD0" => call = "fetch" /\ step = 1 /\ step # Len(Script)
         /\ Reg = "CTRL_MEAS" => step = Len(Script) /\ Page(Reg) = 1
         /\ Reg = "CTRL_MEAS" /\ call = "fetch" => step = 2
         /\ Reg \notin {"STATUS", "FIELD0", "CTRL_MEAS"} => call = "init" /\ step \in 2 .. 10
         /\ call = "fetch" => Page(Reg) = 1
         /\ call = "init" /\ step = 1 => Page(Reg) = 1
<1>1. CASE call = "init"
  <2>1. step \in 1 .. 11 /\ Reg = InitScript[step] /\ Len(Script) = 11
    BY <1>1, RegOf DEF BmeInv, StepInv
  <2>2. IF step = 1 THEN Reg = "STATUS"
        ELSE IF step = 11 THEN Reg = "CTRL_MEAS"
        ELSE Reg \notin {"STATUS", "FIELD0", "CTRL_MEAS"}
    BY <2>1, Scripts
  <2>3. step \in 2 .. 10 \/ step = 1 \/ step = 11
    BY <2>1
  <2> HIDE DEF Page
  <2> QED BY <1>1, <2>1, <2>2, <2>3, Pages
<1>2. CASE call = "fetch"
  <2>1. step \in {1, 2} /\ Reg = FetchScript[step] /\ Len(Script) = 2
    BY <1>2, RegOf DEF BmeInv, StepInv
  <2> QED BY <1>2, <2>1, Scripts, Pages
<1> QED BY <1>1, <1>2 DEF BmeInv, Typed

LEMMA SetMemPageStep == BmeInv /\ bme680_set_mem_page => BmeInv'
<1> SUFFICES ASSUME BmeInv, bme680_set_mem_page PROVE BmeInv'
  OBVIOUS
<1> USE DEF BmeInv
<1>1. call # "none" /\ at = "page" /\ UNCHANGED <<temp, tFine, others, measuring, newData, field>>
  BY DEF bme680_set_mem_page, sample
<1>2. ASSUME at' = "access", UNCHANGED <<spi, device, call, step, ret, waited, given>>,
             memPage' = chipPage' \/ ~spi \/ UNCHANGED <<memPage, chipPage>>,
             spi => memPage' = Page(Reg), memPage' \in {0, 1}, chipPage' \in {0, 1},
             spi /\ call = "init" => memPage' = chipPage'
      PROVE  BmeInv'
  <2>1. Typed' /\ StepInv' /\ SampleWhole'
    BY <1>1, <1>2 DEF Typed, StepInv, SampleWhole
  <2>2. Reg' = Reg
    BY <1>2 DEF Reg, Script
  <2>3. PageInv'
    <3>1. /\ call = "init" => device = "off"
          /\ call = "fetch" => device = "ready"
          /\ call = "init" /\ step = 1 => spi
          /\ spi /\ device = "ready" => memPage' = 1 /\ chipPage' = 1
      BY <1>1, <1>2, AtReg DEF PageInv, Typed
    <3> QED BY <1>1, <1>2, <2>2, <3>1 DEF PageInv
  <2>4. FreshInv'
    BY <1>1, <1>2 DEF FreshInv
  <2> QED BY <2>1, <2>3, <2>4
<1>3. CASE spi /\ memPage # Page(Reg)
  <2>1. CASE /\ at' = "access" /\ chipPage' = Page(Reg) /\ memPage' = Page(Reg)
             /\ UNCHANGED <<spi, device, call, step, history>>
    BY <1>2, <1>3, <2>1, Pages DEF history
  <2>2. CASE Return(FALSE) /\ chipPage' \in {chipPage, Page(Reg)} /\ UNCHANGED memPage
    <3>1. call = "init"
      BY <1>1, <1>3, AtReg DEF PageInv, Typed
    <3>2. device' = "failed"
      BY <2>2, <3>1 DEF Return
    <3>3. chipPage' \in {0, 1}
      BY <2>2, Pages DEF Typed
    <3>4. Typed' /\ SampleWhole' /\ StepInv'
      BY <1>1, <2>2, <3>1, <3>2, <3>3, ReturnsError DEF Typed, SampleWhole
    <3>5. PageInv' /\ FreshInv'
      BY <1>1, <2>2, <3>1, <3>2, ReturnsError DEF PageInv, FreshInv
    <3> QED BY <3>4, <3>5
  <2> QED BY <1>3, <2>1, <2>2 DEF bme680_set_mem_page
<1>4. CASE ~(spi /\ memPage # Page(Reg))
  <2>1. at' = "access" /\ UNCHANGED <<spi, device, call, step, memPage, chipPage, history>>
    BY <1>4 DEF bme680_set_mem_page
  <2>2. spi /\ call = "init" => memPage = chipPage
    BY <1>1, <1>4, AtReg DEF PageInv
  <2> QED BY <1>2, <1>4, <2>1, <2>2 DEF history, Typed
<1> QED BY <1>3, <1>4

LEMMA AccessStep == BmeInv /\ Access => BmeInv'
<1> SUFFICES ASSUME BmeInv, Access PROVE BmeInv'
  OBVIOUS
<1> USE DEF BmeInv
<1>1. call # "none" /\ at = "access"
  BY DEF Access
<1>2. CASE ReadStatus
  <2>1. call = "init" /\ step = 1
    BY <1>1, <1>2, AtReg DEF ReadStatus
  <2>2. /\ step' = 2 /\ at' = "page" /\ memPage' = chipPage
        /\ UNCHANGED <<spi, device, call, ret, waited, given, temp, tFine, others,
                       chipPage, measuring, newData, field>>
    BY <1>2, <2>1 DEF ReadStatus, Advance, sample, chip, history
  <2>3. Typed' /\ StepInv' /\ SampleWhole'
    BY <2>1, <2>2 DEF Typed, StepInv, SampleWhole
  <2>4. PageInv' /\ FreshInv'
    BY <2>1, <2>2 DEF PageInv, FreshInv
  <2> QED BY <2>3, <2>4
<1>3. CASE ReadField
  <2>1. call = "fetch" /\ step = 1 /\ step # Len(Script)
    BY <1>1, <1>3, AtReg DEF ReadField
  <2>2. Advance
    BY <1>3, <2>1 DEF ReadField, Continue
  <2>3. /\ step' = 2 /\ at' = "page"
        /\ UNCHANGED <<spi, device, call, ret, waited, given, memPage, chipPage,
                       measuring, field>>
    BY <1>3, <2>1, <2>2 DEF ReadField, Advance, history
  <2>4. newData' \in {newData, FALSE}
    BY <1>3 DEF ReadField
  <2>5. CASE newData
    <3>1. temp' = field /\ tFine' = field /\ others' = <<field, field>>
      BY <1>3, <2>5 DEF ReadField, Compute
    <3>2. Typed' /\ StepInv' /\ SampleWhole'
      <4>1. newData' \in BOOLEAN /\ others' \in (Ids \cup {None}) \X (Ids \cup {None})
        BY <2>4, <3>1 DEF Typed
      <4>2. Typed'
        BY <2>1, <2>3, <3>1, <4>1 DEF Typed
      <4>3. StepInv' /\ SampleWhole'
        BY <2>1, <2>3, <3>1 DEF StepInv, SampleWhole
      <4> QED BY <4>2, <4>3
    <3>3. PageInv'
      BY <2>1, <2>3 DEF PageInv
    <3>4. FreshInv'
      BY <2>1, <2>3, <2>4, <2>5, <3>1 DEF FreshInv
    <3> QED BY <3>2, <3>3, <3>4
  <2>6. CASE ~newData
    <3>1. UNCHANGED <<temp, tFine, others>>
      BY <1>3, <2>6 DEF ReadField, Compute, sample
    <3>2. newData' = FALSE
      BY <2>4, <2>6 DEF Typed
    <3>3. Typed' /\ StepInv' /\ SampleWhole'
      <4>1. newData' \in BOOLEAN
        BY <3>2
      <4>2. Typed'
        BY <2>1, <2>3, <3>1, <4>1 DEF Typed
      <4>3. StepInv' /\ SampleWhole'
        BY <2>1, <2>3, <3>1 DEF StepInv, SampleWhole
      <4> QED BY <4>2, <4>3
    <3>4. PageInv'
      BY <2>1, <2>3 DEF PageInv
    <3>5. FreshInv'
      BY <2>1, <2>3, <2>6, <3>1, <3>2 DEF FreshInv, PageInv
    <3> QED BY <3>3, <3>4, <3>5
  <2> QED BY <2>5, <2>6
<1>4. CASE WriteCtrlMeas
  <2>1. step = Len(Script) /\ Page(Reg) = 1 /\ (call = "fetch" => step = 2)
    BY <1>1, <1>4, AtReg DEF WriteCtrlMeas
  <2>2. Return(TRUE)
    BY <1>4, <2>1 DEF WriteCtrlMeas, Continue
  <2>3. /\ measuring' = TRUE /\ newData' = FALSE
        /\ UNCHANGED <<memPage, temp, tFine, others, chipPage, field>>
    BY <1>4 DEF WriteCtrlMeas, Trigger, sample
  <2>4. temp' \in Ids \cup {None}
    BY <2>3 DEF Typed
  <2>5. /\ StepInv' /\ spi' = spi /\ ret' \in {"ok", "error"} /\ waited' = waited
        /\ device' = "ready" /\ call' = "none" /\ at' = "page"
        /\ given' = IF call = "fetch" THEN temp' ELSE given
    BY <1>1, <2>2, <2>4, ReturnsOk, SMTT(60)
  <2>6. call = "init" => step # 1
    BY <2>1, RegOf, SMTT(60)
  <2>7. spi => memPage = 1 /\ chipPage = 1
    BY <1>1, <2>1, <2>6 DEF PageInv, Typed
  <2>8. Typed' /\ SampleWhole'
    BY <2>3, <2>4, <2>5 DEF Typed, SampleWhole
  <2>9. PageInv' /\ FreshInv'
    BY <2>3, <2>5, <2>7 DEF PageInv, FreshInv
  <2> QED BY <2>5, <2>8, <2>9
<1>5. CASE OtherAccess
  <2>1. call = "init" /\ step \in 2 .. 10
    BY <1>1, <1>5, AtReg DEF OtherAccess
  <2>2. /\ step' = step + 1 /\ at' = "page"
        /\ UNCHANGED <<spi, device, call, ret, waited, given, memPage, temp, tFine, others,
                       chipPage, measuring, newData, field>>
    BY <1>5 DEF OtherAccess, Advance, sample, chip, history
  <2>3. Typed' /\ StepInv' /\ SampleWhole'
    BY <2>1, <2>2 DEF Typed, StepInv, SampleWhole
  <2>4. PageInv' /\ FreshInv'
    BY <2>1, <2>2 DEF PageInv, FreshInv
  <2> QED BY <2>3, <2>4
<1>6. CASE Fail
  <2>1. Return(FALSE) /\ UNCHANGED <<memPage, temp, tFine, others, chipPage, field>>
    BY <1>6 DEF Fail, sample
  <2>2. /\ StepInv' /\ spi' = spi /\ ret' \in {"ok", "error"} /\ waited' = waited
        /\ device' \in {"ready", "failed"} /\ call' = "none" /\ at' = "page"
        /\ given' = given
        /\ device' = "ready" => device = "ready" /\ call = "fetch"
    BY <1>1, <2>1, ReturnsError
  <2>3. \/ measuring' = TRUE /\ newData' = FALSE
        \/ UNCHANGED <<measuring, newData>>
    BY <1>6 DEF Fail, Trigger
  <2>4. Typed' /\ SampleWhole'
    <3>1. measuring' \in BOOLEAN /\ newData' \in BOOLEAN
      BY <2>3 DEF Typed
    <3>2. spi' \in BOOLEAN /\ waited' \in BOOLEAN /\ memPage' \in {0, 1} /\ chipPage' \in {0, 1}
      BY <2>1, <2>2 DEF Typed
    <3>3. /\ temp' \in Ids \cup {None} /\ tFine' \in Ids \cup {None} /\ field' \in Ids \cup {None}
          /\ given' \in Ids \cup {None} /\ others' \in (Ids \cup {None}) \X (Ids \cup {None})
      BY <2>1, <2>2 DEF Typed
    <3>4. Typed'
      BY <2>2, <3>1, <3>2, <3>3 DEF Typed
    <3>5. SampleWhole'
      BY <2>1 DEF SampleWhole
    <3> QED BY <3>4, <3>5
  <2>5. PageInv' /\ FreshInv'
    BY <2>1, <2>2, <2>3 DEF PageInv, FreshInv
  <2> QED BY <2>2, <2>4, <2>5
<1> QED BY <1>2, <1>3, <1>4, <1>5, <1>6 DEF Access

LEMMA BmeNext == BmeInv /\ [Next]_vars => BmeInv'
<1> SUFFICES ASSUME BmeInv, [Next]_vars PROVE BmeInv'
  OBVIOUS
<1> USE DEF BmeInv
<1>1. CASE bme680_init
  BY <1>1 DEF bme680_init, Typed, StepInv, PageInv, SampleWhole, FreshInv, sample, chip, history
<1>2. CASE bme680_sample_fetch
  <2>1. /\ Typed' /\ StepInv' /\ SampleWhole'
    BY <1>2 DEF bme680_sample_fetch, Typed, StepInv, SampleWhole, sample, chip
  <2>2. PageInv'
    BY <1>2 DEF bme680_sample_fetch, Typed, PageInv, sample, chip
  <2>3. /\ call' = "fetch" /\ step' = 1
        /\ waited' = ~measuring
        /\ UNCHANGED <<device, temp, measuring, newData, field, given>>
    BY <1>2 DEF bme680_sample_fetch, sample, chip
  <2>4. FreshInv'
    <3>1. CASE measuring
      BY <2>3, <3>1 DEF FreshInv
    <3>2. CASE ~measuring
      BY <2>3, <3>2 DEF FreshInv
    <3> QED BY <3>1, <3>2
  <2> QED BY <2>1, <2>2, <2>4
<1>3. CASE bme680_set_mem_page
  BY <1>3, SetMemPageStep
<1>4. CASE Access
  BY <1>4, AccessStep
<1>5. CASE Measure
  <2>1. PICK m \in Ids \ {temp, tFine, others[1], others[2], field, given} : field' = m
    BY <1>5 DEF Measure
  <2>2. UNCHANGED <<spi, device, call, step, at, memPage, temp, tFine, others, chipPage,
                    ret, waited, given>>
    BY <1>5 DEF Measure, driver, sample, history
  <2>3. measuring' = FALSE /\ newData' = TRUE
    BY <1>5 DEF Measure
  <2>4. Typed' /\ StepInv' /\ SampleWhole'
    <3>1. field' \in Ids \cup {None}
      BY <2>1
    <3>2. Typed'
      <4>1. measuring' \in BOOLEAN /\ newData' \in BOOLEAN
        BY <2>3
      <4>2. spi' \in BOOLEAN /\ waited' \in BOOLEAN
        BY <2>2 DEF Typed
      <4>3. ret' \in {"ok", "error"} /\ memPage' \in {0, 1} /\ chipPage' \in {0, 1}
        BY <2>2 DEF Typed
      <4>4. /\ device' \in {"off", "ready", "failed"} /\ call' \in {"none", "init", "fetch"}
            /\ at' \in {"page", "access"}
        BY <2>2 DEF Typed
      <4>5. /\ temp' \in Ids \cup {None} /\ tFine' \in Ids \cup {None}
            /\ given' \in Ids \cup {None} /\ others' \in (Ids \cup {None}) \X (Ids \cup {None})
        BY <2>2 DEF Typed
      <4> QED BY <3>1, <4>1, <4>2, <4>3, <4>4, <4>5 DEF Typed
    <3> QED BY <2>2, <3>2 DEF StepInv, SampleWhole
  <2>5. Reg' = Reg
    BY <2>2 DEF Reg, Script
  <2>6. PageInv'
    BY <2>2, <2>5 DEF PageInv
  <2>7. FreshInv'
    BY <2>1, <2>2, <2>3 DEF FreshInv
  <2> QED BY <2>4, <2>6, <2>7
<1>6. CASE Reset
  <2>1. /\ Typed' /\ StepInv' /\ SampleWhole'
    BY <1>6 DEF Reset, Typed, StepInv, SampleWhole, chip
  <2>2. PageInv' /\ FreshInv'
    BY <1>6 DEF Reset, PageInv, FreshInv, chip
  <2> QED BY <2>1, <2>2
<1>7. CASE UNCHANGED vars
  <2>1. UNCHANGED <<spi, device, call, step, at, memPage, temp, tFine, others, chipPage,
                    measuring, newData, field, ret, waited, given>>
    BY <1>7 DEF vars, driver, sample, chip, history
  <2>2. Reg' = Reg
    BY <2>1 DEF Reg, Script
  <2>3. Typed' /\ StepInv' /\ SampleWhole'
    BY <2>1 DEF Typed, StepInv, SampleWhole
  <2>4. PageInv' /\ FreshInv'
    BY <2>1, <2>2 DEF PageInv, FreshInv
  <2> QED BY <2>3, <2>4
<1> QED BY <1>1, <1>2, <1>3, <1>4, <1>5, <1>6, <1>7 DEF Next

LEMMA BmeInvariant == Spec => []BmeInv
BY BmeInit, BmeNext, PTL DEF Spec

(***************************************************************************)
(* Types: in particular the page bit that init reads is 0 or 1.            *)
(***************************************************************************)
THEOREM BmeTypeCorrect == Spec => []BmeTypeOK
BY BmeInvariant, InvTypes, PTL

(***************************************************************************)
(* Every access that goes through finds the chip on its register's page,   *)
(* whatever page a reset left it on and whichever accesses failed.         *)
(***************************************************************************)
LEMMA InvRightPage == BmeInv => RightPage
<1> SUFFICES ASSUME BmeInv, spi, call # "none", at = "access" PROVE chipPage = Page(Reg)
  BY DEF RightPage
<1>1. memPage = Page(Reg) /\ (call = "fetch" \/ call = "init")
  BY DEF BmeInv, PageInv, Typed
<1> QED BY <1>1 DEF BmeInv, PageInv

THEOREM AlwaysRightPage == Spec => []RightPage
BY BmeInvariant, InvRightPage, PTL

(***************************************************************************)
(* The values of a sample belong to one measurement.                       *)
(***************************************************************************)
THEOREM AlwaysWhole == Spec => []SampleWhole
BY BmeInvariant, PTL DEF BmeInv

(***************************************************************************)
(* A fetch that found the chip idle and succeeds gives a new measurement.  *)
(***************************************************************************)
LEMMA FetchFresh ==
  ASSUME BmeInv, Next, call = "fetch", call' = "none", ret' = "ok", waited
  PROVE  given' # given
<1> USE DEF BmeInv
<1>1. Access
  <2>1. ~bme680_init /\ ~bme680_sample_fetch
    BY DEF bme680_init, bme680_sample_fetch
  <2>2. ~Measure
    BY DEF Measure, driver
  <2>3. ~Reset
    BY DEF Reset
  <2>4. ~bme680_set_mem_page
    BY DEF bme680_set_mem_page, Return
  <2> QED BY <2>1, <2>2, <2>3, <2>4 DEF Next
<1>2. WriteCtrlMeas
  <2>1. ~ReadStatus /\ ~OtherAccess
    BY DEF ReadStatus, OtherAccess, Advance
  <2>2. ~Fail
    BY DEF Fail, Return
  <2>3. ~ReadField
    BY AtReg DEF ReadField, Continue, Advance
  <2> QED BY <1>1, <2>1, <2>2, <2>3 DEF Access
<1>3. step = Len(Script) /\ step = 2
  BY <1>2, AtReg DEF WriteCtrlMeas
<1>4. Return(TRUE) /\ temp' = temp
  BY <1>2, <1>3 DEF WriteCtrlMeas, Continue, sample
<1>5. given' = temp
  BY <1>4 DEF Return
<1> QED BY <1>3, <1>5 DEF FreshInv

THEOREM FetchesAreFresh == Spec => FreshSample
<1>1. BmeInv /\ [Next]_vars =>
        [call = "fetch" /\ call' = "none" /\ ret' = "ok" /\ waited => given' # given]_vars
  BY FetchFresh
<1> QED BY <1>1, BmeInvariant, PTL DEF Spec, FreshSample

-----------------------------------------------------------------------------
(* Bme280.  The inductive invariant.                                       *)

SettingUp == task \in {"init", "resume"}
LastTurn == IF SettingUp THEN (IF humid THEN 7 ELSE 6)
            ELSE IF task = "fetch" THEN (IF forced THEN 3 ELSE 2) ELSE 1

Flags == /\ burst \in BOOLEAN /\ forced \in BOOLEAN /\ humid \in BOOLEAN /\ suspended \in BOOLEAN
         /\ busy \in BOOLEAN /\ copying \in BOOLEAN /\ failedSleep \in BOOLEAN

Values == /\ state \in {"off", "ready", "failed"}
          /\ task \in {"none", "init", "resume", "suspend", "fetch"}
          /\ dig \in {"none", "read", "garbage"} /\ mode \in {"sleep", "forced", "normal"}
          /\ buf \subseteq Measured \cup {Nothing} /\ comp \subseteq Measured \cup {Nothing}
          /\ out \in Measured \cup {Nothing} /\ old \in Measured \cup {Nothing}
          /\ byte \in 0 .. 7

Typed280 == Flags /\ Values

TurnInv == turn \in Nat /\ 1 <= turn /\ turn <= LastTurn

\* Which calls run in which state of the device.
TaskInv == /\ task = "init" => state = "off"
           /\ task \in {"resume", "suspend", "fetch"} => state = "ready"
           /\ task = "resume" => suspended
           /\ task \in {"suspend", "fetch"} => ~suspended

\* The parameters are read when the chip has copied them.
DigInv == /\ SettingUp /\ turn = 4 => ~copying
          /\ SettingUp /\ turn > 4 => dig = "read"
          /\ state = "ready" => dig = "read"

\* In normal mode the chip measures from the write of CTRL_MEAS on.
ModeInv == /\ forced => mode # "normal"
           /\ ~forced /\ SettingUp /\ turn = LastTurn => mode = "normal"
           /\ ~forced /\ state = "ready" /\ ~suspended /\ ~failedSleep => mode = "normal"

\* A forced measurement is finished before its bytes are read, and the next one not begun.
FetchInv == /\ burst => buf = {}
            /\ ~humid => byte <= 5
            /\ task = "fetch" /\ turn < LastTurn => buf = {}
            /\ forced /\ task = "fetch" /\ turn = 2 => busy \/ out \notin {old, Nothing}
            /\ forced /\ task = "fetch" /\ turn = 3 =>
                 ~busy /\ out \notin {old, Nothing} /\ buf \subseteq {out}

Inv280 == /\ Typed280 /\ TurnInv /\ TaskInv /\ DigInv /\ ModeInv /\ FetchInv /\ SampleUntorn

-----------------------------------------------------------------------------
\* Which register a call accesses.
LEMMA Scripts280 ==
  /\ SettingUp /\ humid =>
       Len(Calls) = 7 /\ Calls = <<"ID", "RESET", "STATUS", "COMP", "CTRL_HUM", "CTRL_MEAS", "CONFIG">>
  /\ SettingUp /\ ~humid =>
       Len(Calls) = 6 /\ Calls = <<"ID", "RESET", "STATUS", "COMP", "CTRL_MEAS", "CONFIG">>
  /\ task = "suspend" => Len(Calls) = 1 /\ Calls = <<"OFF">>
  /\ ~SettingUp /\ task # "suspend" /\ forced =>
       Len(Calls) = 3 /\ Calls = <<"CTRL_MEAS", "STATUS", "PRESS_MSB">>
  /\ ~SettingUp /\ task # "suspend" /\ ~forced => Len(Calls) = 2 /\ Calls = <<"STATUS", "PRESS_MSB">>
BY DEF Calls, ChipInit, Fetch, SettingUp

LEMMA LengthOf ==
  ASSUME Typed280, task # "none"
  PROVE  Len(Calls) = LastTurn
BY Scripts280 DEF LastTurn, SettingUp, Typed280, Flags, Values

LEMMA WhereIs ==
  ASSUME Inv280, task # "none"
  PROVE  /\ Register = "ID" => SettingUp /\ turn = 1
         /\ Register = "RESET" => SettingUp /\ turn = 2
         /\ Register = "STATUS" => \/ SettingUp /\ turn = 3
                                   \/ task = "fetch" /\ turn = LastTurn - 1
         /\ Register = "COMP" => SettingUp /\ turn = 4
         /\ Register \in {"CTRL_HUM", "CONFIG"} => SettingUp /\ turn > 4 /\ turn # LastTurn - 1
         /\ Register = "CTRL_MEAS" => \/ SettingUp /\ turn > 4 /\ turn = LastTurn - 1
                                      \/ task = "fetch" /\ forced /\ turn = 1
         /\ Register = "OFF" => task = "suspend" /\ turn = 1
         /\ Register = "PRESS_MSB" => task = "fetch" /\ turn = LastTurn
         /\ Register = "CTRL_HUM" => turn # LastTurn
         /\ Register = "CONFIG" => turn = LastTurn
<1> USE DEF Inv280, TurnInv, Register
<1>1. CASE SettingUp /\ humid
  <2>1. LastTurn = 7 /\ turn \in {1, 2, 3, 4, 5, 6, 7}
    BY <1>1 DEF LastTurn
  <2>2. Calls = <<"ID", "RESET", "STATUS", "COMP", "CTRL_HUM", "CTRL_MEAS", "CONFIG">>
    BY <1>1, Scripts280
  <2> QED BY <1>1, <2>1, <2>2
<1>2. CASE SettingUp /\ ~humid
  <2>1. LastTurn = 6 /\ turn \in {1, 2, 3, 4, 5, 6}
    BY <1>2 DEF LastTurn
  <2>2. Calls = <<"ID", "RESET", "STATUS", "COMP", "CTRL_MEAS", "CONFIG">>
    BY <1>2, Scripts280
  <2> QED BY <1>2, <2>1, <2>2
<1>3. CASE task = "suspend"
  BY <1>3, Scripts280 DEF LastTurn, SettingUp
<1>4. CASE task = "fetch" /\ forced
  <2>1. LastTurn = 3 /\ turn \in {1, 2, 3}
    BY <1>4 DEF LastTurn, SettingUp
  <2>2. Calls = <<"CTRL_MEAS", "STATUS", "PRESS_MSB">>
    BY <1>4, Scripts280 DEF SettingUp
  <2> QED BY <1>4, <2>1, <2>2
<1>5. CASE task = "fetch" /\ ~forced
  <2>1. LastTurn = 2 /\ turn \in {1, 2}
    BY <1>5 DEF LastTurn, SettingUp
  <2>2. Calls = <<"STATUS", "PRESS_MSB">>
    BY <1>5, Scripts280 DEF SettingUp
  <2> QED BY <1>5, <2>1, <2>2
<1> QED BY <1>1, <1>2, <1>3, <1>4, <1>5 DEF Typed280, Flags, Values, SettingUp

LEMMA Start280 == Bme280Init => Inv280
<1> SUFFICES ASSUME Bme280Init PROVE Inv280
  OBVIOUS
<1>1. Typed280
  <2>1. Flags
    BY DEF Bme280Init, Flags
  <2>2. Values
    BY DEF Bme280Init, Values
  <2> QED BY <2>1, <2>2 DEF Typed280
<1>2. TurnInv /\ TaskInv
  BY DEF Bme280Init, TurnInv, LastTurn, SettingUp, TaskInv
<1>3. DigInv /\ ModeInv /\ FetchInv /\ SampleUntorn
  BY DEF Bme280Init, DigInv, ModeInv, FetchInv, SampleUntorn, SettingUp
<1> QED BY <1>1, <1>2, <1>3 DEF Inv280

\* A register that is not the last of its script leads to the next one.
LEMMA GoesOn ==
  ASSUME Inv280, task # "none", Ahead, turn # LastTurn
  PROVE  turn' = turn + 1 /\ UNCHANGED <<build, state, suspended, task, past>>
BY LengthOf DEF Ahead, Inv280

LEMMA GetsDone ==
  ASSUME Inv280, task # "none", Ahead, turn = LastTurn
  PROVE  End(TRUE)
BY LengthOf DEF Ahead, Inv280

\* A call that goes on with everything but its own variables unchanged.
LEMMA OnwardTurn ==
  ASSUME Inv280, turn # LastTurn, turn' = turn + 1, UNCHANGED <<build, task>>
  PROVE  TurnInv' /\ LastTurn' = LastTurn /\ SettingUp' = SettingUp
<1>1. LastTurn' = LastTurn /\ SettingUp' = SettingUp
  BY DEF LastTurn, SettingUp, build
<1>2. LastTurn \in Nat
  BY DEF LastTurn
<1> QED BY <1>1, <1>2 DEF Inv280, TurnInv

\* A call that ends leaves no turn behind.
LEMMA EndTurn ==
  ASSUME Inv280, NEW ok \in BOOLEAN, End(ok)
  PROVE  /\ TurnInv' /\ task' = "none" /\ turn' = 1 /\ LastTurn' = 1 /\ ~SettingUp'
         /\ UNCHANGED <<burst, forced, humid, old>>
BY DEF End, TurnInv, LastTurn, SettingUp, build

LEMMA BeginStep ==
  ASSUME Inv280, bme280_chip_init \/ bme280_sample_fetch \/ bme280_pm_action
  PROVE  Inv280'
<1> USE DEF Inv280
<1>1. CASE bme280_chip_init
  <2>1. /\ task = "none" /\ task' = "init" /\ turn' = 1 /\ state = "off"
        /\ UNCHANGED <<burst, forced, humid, state, suspended, dig, comp, mode, busy, copying,
                       out, buf, byte, failedSleep, old>>
    BY <1>1 DEF bme280_chip_init, Begin, build, sensor, past
  <2>2. Typed280' /\ TurnInv' /\ TaskInv' /\ SampleUntorn'
    BY <2>1 DEF Typed280, Flags, Values, TurnInv, LastTurn, SettingUp, TaskInv, SampleUntorn
  <2>3. DigInv' /\ ModeInv' /\ FetchInv'
    BY <2>1 DEF DigInv, ModeInv, FetchInv, LastTurn, SettingUp
  <2> QED BY <2>2, <2>3
<1>2. CASE bme280_sample_fetch
  <2>1. /\ task = "none" /\ task' = "fetch" /\ turn' = 1 /\ state = "ready" /\ ~suspended
        /\ buf' = {} /\ byte' = 0 /\ old' = out
        /\ UNCHANGED <<burst, forced, humid, state, suspended, dig, comp, mode, busy, copying,
                       out, failedSleep>>
    BY <1>2 DEF bme280_sample_fetch, Begin, build, sensor
  <2>2. Typed280' /\ TurnInv' /\ TaskInv' /\ SampleUntorn'
    BY <2>1 DEF Typed280, Flags, Values, TurnInv, LastTurn, SettingUp, TaskInv, SampleUntorn
  <2>3. DigInv' /\ ModeInv' /\ FetchInv'
    BY <2>1 DEF DigInv, ModeInv, FetchInv, LastTurn, SettingUp
  <2> QED BY <2>2, <2>3
<1>3. CASE bme280_pm_action
  <2>1. /\ task = "none" /\ turn' = 1 /\ state = "ready"
        /\ task' = IF suspended THEN "resume" ELSE "suspend"
        /\ UNCHANGED <<burst, forced, humid, state, suspended, dig, comp, mode, busy, copying,
                       out, buf, byte, failedSleep, old>>
    BY <1>3 DEF bme280_pm_action, Begin, build, sensor, past
  <2>2. Typed280' /\ TurnInv' /\ TaskInv' /\ SampleUntorn'
    BY <2>1 DEF Typed280, Flags, Values, TurnInv, LastTurn, SettingUp, TaskInv, SampleUntorn
  <2>3. DigInv' /\ ModeInv' /\ FetchInv'
    BY <2>1 DEF DigInv, ModeInv, FetchInv, LastTurn, SettingUp
  <2> QED BY <2>2, <2>3
<1> QED BY <1>1, <1>2, <1>3

LEMMA ChipStep ==
  ASSUME Inv280, Copied \/ Finish \/ Again \/ Restart
  PROVE  Inv280'
<1> USE DEF Inv280
<1> DEFINE Rest == UNCHANGED <<burst, forced, humid, state, suspended, task, turn, buf, byte, dig,
                               comp, failedSleep, old>>
<1>1. ASSUME Rest
      PROVE  TurnInv' /\ TaskInv' /\ SampleUntorn' /\ LastTurn' = LastTurn /\ SettingUp' = SettingUp
  BY <1>1 DEF TurnInv, LastTurn, SettingUp, TaskInv, SampleUntorn
<1>2. CASE Copied
  <2>1. Rest /\ copying' = FALSE /\ UNCHANGED <<mode, busy, out>>
    BY <1>2 DEF Copied, build, control, data, past
  <2>2. Typed280'
    <3>1. Flags'
      BY <2>1 DEF Typed280, Flags
    <3>2. Values'
      BY <2>1 DEF Typed280, Values
    <3> QED BY <3>1, <3>2 DEF Typed280
  <2>3. DigInv' /\ ModeInv'
    BY <1>1, <2>1 DEF DigInv, ModeInv
  <2>4. FetchInv'
    BY <1>1, <2>1 DEF FetchInv, ModeInv
  <2> QED BY <1>1, <2>1, <2>2, <2>3, <2>4
<1>3. CASE Finish
  <2>1. /\ Rest /\ busy /\ busy' = FALSE /\ copying' = copying
        /\ mode' = IF mode = "forced" THEN "sleep" ELSE mode
    BY <1>3 DEF Finish, build, control, data, past
  <2>2. PICK m \in Measured \ ({out, old} \cup buf) : out' = m
    BY <1>3 DEF Finish
  <2>3. m # Nothing
    BY MeasuredAssumption
  <2>4. Typed280'
    <3>1. Flags'
      BY <2>1, <2>2 DEF Typed280, Flags
    <3>2. Values'
      BY <2>1, <2>2 DEF Typed280, Values
    <3> QED BY <3>1, <3>2 DEF Typed280
  <2>6. DigInv' /\ ModeInv'
    BY <1>1, <2>1 DEF DigInv, ModeInv
  <2>5. FetchInv'
    BY <1>1, <2>1, <2>2, <2>3 DEF FetchInv
  <2> QED BY <1>1, <2>1, <2>4, <2>5, <2>6
<1>4. CASE Again
  <2>1. Rest /\ mode = "normal" /\ busy' = TRUE /\ UNCHANGED <<mode, copying, out>>
    BY <1>4 DEF Again, build, control, data, past
  <2>2. Typed280'
    <3>1. Flags'
      BY <2>1 DEF Typed280, Flags
    <3>2. Values'
      BY <2>1 DEF Typed280, Values
    <3> QED BY <3>1, <3>2 DEF Typed280
  <2>3. DigInv' /\ ModeInv'
    BY <1>1, <2>1 DEF DigInv, ModeInv
  <2>4. FetchInv'
    BY <1>1, <2>1 DEF FetchInv, ModeInv
  <2> QED BY <1>1, <2>1, <2>2, <2>3, <2>4
<1>5. CASE Restart
  <2>1. /\ state' = "off" /\ suspended' = FALSE /\ task' = "none" /\ turn' = 1
        /\ buf' = {} /\ byte' = 0 /\ dig' = "none" /\ comp' = {}
        /\ failedSleep' = FALSE /\ old' = Nothing
        /\ UNCHANGED <<burst, forced, humid, mode, busy, copying, out>>
    BY <1>5 DEF Restart, build, sensor
  <2>2. Typed280'
    <3>1. Flags'
      BY <2>1 DEF Typed280, Flags
    <3>2. Values'
      BY <2>1 DEF Typed280, Values
    <3> QED BY <3>1, <3>2 DEF Typed280
  <2>3. TurnInv' /\ TaskInv'
    BY <2>1 DEF TurnInv, LastTurn, SettingUp, TaskInv
  <2>4. DigInv' /\ ModeInv' /\ FetchInv' /\ SampleUntorn'
    BY <2>1 DEF DigInv, ModeInv, FetchInv, SampleUntorn, SettingUp
  <2> QED BY <2>2, <2>3, <2>4
<1> QED BY <1>2, <1>3, <1>4, <1>5

-----------------------------------------------------------------------------
(* The register accesses.                                                    *)

\* Where setting up and fetching are relative to their last turn.
LEMMA Turns ==
  ASSUME Inv280
  PROVE  /\ SettingUp => LastTurn \in {6, 7} /\ (LastTurn = 7 <=> humid)
         /\ task = "fetch" => LastTurn \in {2, 3} /\ (forced => LastTurn = 3) /\ ~SettingUp
         /\ task = "suspend" => LastTurn = 1 /\ ~SettingUp
         /\ turn \in Nat /\ LastTurn \in Nat
BY DEF Inv280, Typed280, Flags, TurnInv, LastTurn, SettingUp

\* An access in the middle of setting up that starts no measurement.
LEMMA PlainAccess ==
  ASSUME Inv280, SettingUp, turn # LastTurn, turn' = turn + 1,
         UNCHANGED <<burst, forced, humid, state, suspended, task, failedSleep, old, buf, byte,
                     comp>>,
         dig' = IF turn = 4 THEN "read" ELSE dig,
         turn = 3 => ~copying', turn < 3 \/ turn = 3 \/ UNCHANGED copying,
         turn > 2 => mode' = mode, turn + 1 # LastTurn, forced => mode' # "normal",
         mode' \in {"sleep", "forced", "normal"}, busy' \in BOOLEAN, copying' \in BOOLEAN,
         out' \in Measured \cup {Nothing},
         state = "ready" => suspended
  PROVE  Inv280'
<1> USE DEF Inv280
<1>1. TurnInv' /\ LastTurn' = LastTurn /\ SettingUp' = SettingUp
  BY OnwardTurn DEF build
<1>2. Typed280'
  <2>1. Flags'
    BY DEF Typed280, Flags
  <2>2. Values'
    BY DEF Typed280, Values
  <2> QED BY <2>1, <2>2 DEF Typed280
<1>3. TaskInv' /\ SampleUntorn'
  BY DEF TaskInv, SampleUntorn
<1>4. DigInv'
  BY <1>1, Turns DEF DigInv
<1>5. ModeInv'
  BY <1>1, Turns DEF ModeInv
<1>6. FetchInv'
  BY <1>1, Turns DEF FetchInv
<1> QED BY <1>1, <1>2, <1>3, <1>4, <1>5, <1>6

\* The end of a call.
LEMMA EndStep ==
  ASSUME Inv280, task # "none", NEW ok \in BOOLEAN, End(ok), dig' = dig,
         ok /\ SettingUp => turn = LastTurn, SettingUp /\ turn = LastTurn => mode' = mode,
         task = "fetch" /\ ~forced => mode' = mode,
         forced => mode' # "normal", burst => buf' = {},
         buf' \subseteq Measured \cup {Nothing}, comp' \subseteq Measured \cup {Nothing},
         byte' \in {0, byte}, SampleUntorn',
         mode' \in {"sleep", "forced", "normal"}, busy' \in BOOLEAN, copying' \in BOOLEAN,
         out' \in Measured \cup {Nothing}
  PROVE  Inv280'
<1> USE DEF Inv280
<1>1. /\ TurnInv' /\ task' = "none" /\ turn' = 1 /\ LastTurn' = 1 /\ ~SettingUp'
      /\ UNCHANGED <<burst, forced, humid, old>>
  BY EndTurn
<1>2. /\ state' = IF task # "init" THEN state ELSE IF ok THEN "ready" ELSE "failed"
      /\ suspended' = IF ok /\ task \in {"resume", "suspend"} THEN task = "suspend" ELSE suspended
      /\ failedSleep' = IF task = "suspend" THEN ~ok
                        ELSE IF ok /\ task \in {"init", "resume"} THEN FALSE ELSE failedSleep
  BY DEF End
<1>3. Typed280'
  <2>1. suspended' \in BOOLEAN
    BY <1>2 DEF Typed280, Flags
  <2>2. failedSleep' \in BOOLEAN
    BY <1>2 DEF Typed280, Flags
  <2>3. Flags'
    BY <1>1, <2>1, <2>2 DEF Typed280, Flags
  <2>4. state' \in {"off", "ready", "failed"}
    BY <1>2 DEF Typed280, Values
  <2>5. Values'
    BY <1>1, <2>4 DEF Typed280, Values
  <2> QED BY <2>3, <2>5 DEF Typed280
<1>4. TaskInv'
  BY <1>1 DEF TaskInv
<1>5. FetchInv'
  BY <1>1 DEF FetchInv
<1>6. DigInv'
  <2>1. ok /\ task = "init" => dig = "read"
    BY Turns DEF DigInv, SettingUp
  <2> QED BY <1>1, <1>2, <2>1 DEF DigInv
<1>7. ModeInv'
  <2>1. ASSUME ~forced, state' = "ready", suspended' = FALSE, failedSleep' = FALSE
        PROVE  mode' = "normal"
    <3>1. CASE SettingUp
      <4>1. ok
        BY <1>2, <2>1, <3>1 DEF SettingUp, TaskInv
      <4> QED BY <2>1, <3>1, <4>1 DEF ModeInv
    <3>2. CASE task = "suspend"
      BY <1>2, <2>1, <3>2
    <3>3. CASE task = "fetch"
      BY <1>2, <2>1, <3>3 DEF ModeInv, TaskInv
    <3> QED BY <3>1, <3>2, <3>3 DEF SettingUp, Typed280, Values
  <2>2. suspended' \in BOOLEAN /\ failedSleep' \in BOOLEAN
    BY <1>3 DEF Typed280, Flags
  <2> QED BY <1>1, <2>1, <2>2 DEF ModeInv
<1> QED BY <1>1, <1>3, <1>4, <1>5, <1>6, <1>7

LEMMA PlainSteps ==
  ASSUME Inv280, task # "none", ReadId \/ SoftReset \/ bme280_read_compensation
  PROVE  Inv280'
<1> USE DEF Inv280
<1>1. SettingUp /\ state = "ready" => suspended
  BY DEF SettingUp, TaskInv
<1>2. CASE ReadId
  <2>1. SettingUp /\ turn = 1 /\ turn # LastTurn /\ turn + 1 # LastTurn
    BY <1>2, WhereIs, Turns DEF ReadId
  <2>2. turn' = turn + 1 /\ UNCHANGED <<build, state, suspended, task, past, data, sensor>>
    BY <1>2, <2>1, GoesOn DEF ReadId
  <2> QED BY <1>1, <2>1, <2>2, PlainAccess
          DEF Typed280, Flags, Values, ModeInv, build, past, data, sensor
<1>3. CASE SoftReset
  <2>1. SettingUp /\ turn = 2 /\ turn # LastTurn /\ turn + 1 # LastTurn
    BY <1>3, WhereIs, Turns DEF SoftReset
  <2>2. turn' = turn + 1 /\ UNCHANGED <<build, state, suspended, task, past, data>>
    BY <1>3, <2>1, GoesOn DEF SoftReset
  <2>3. /\ mode' \in {"sleep", "forced", "normal"} /\ (forced => mode' # "normal")
        /\ out' \in Measured \cup {Nothing}
    BY <1>3 DEF SoftReset, ResetChip, sensor, Typed280, Values, ModeInv
  <2>4. busy' \in BOOLEAN /\ copying' \in BOOLEAN
    BY <1>3 DEF SoftReset, ResetChip, sensor, Typed280, Flags
  <2> QED BY <1>1, <2>1, <2>2, <2>3, <2>4, PlainAccess DEF build, past, data
<1>4. CASE bme280_read_compensation
  <2>1. SettingUp /\ turn = 4 /\ turn # LastTurn /\ turn + 1 # LastTurn
    <3>1. SettingUp /\ turn = 4
      BY <1>4, WhereIs DEF bme280_read_compensation
    <3> QED BY <3>1, Turns
  <2>2. turn' = turn + 1 /\ UNCHANGED <<build, state, suspended, task, past>>
    BY <1>4, <2>1, GoesOn DEF bme280_read_compensation
  <2>3. dig' = "read" /\ UNCHANGED <<buf, byte, comp, mode, busy, copying, out>>
    BY <1>4, <2>1 DEF bme280_read_compensation, DigInv, sensor
  <2> QED BY <1>1, <2>1, <2>2, <2>3, PlainAccess
          DEF Typed280, Flags, Values, ModeInv, build, past
<1> QED BY <1>2, <1>3, <1>4

\* bme280_wait_until_ready waits or lets the call go on.
LEMMA ReadReadyStep ==
  ASSUME Inv280, task # "none", ReadReady
  PROVE  Inv280'
<1> USE DEF Inv280
<1>1. UNCHANGED <<data, sensor>>
  BY DEF ReadReady
<1>2. CASE busy \/ copying
  <2>1. UNCHANGED <<build, control, past, data, sensor>>
    BY <1>1, <1>2 DEF ReadReady
  <2>2. Typed280' /\ TurnInv' /\ TaskInv' /\ SampleUntorn'
    BY <2>1 DEF build, control, past, data, sensor, Typed280, Flags, Values, TurnInv, LastTurn,
                SettingUp, TaskInv, SampleUntorn
  <2>3. DigInv' /\ ModeInv' /\ FetchInv'
    BY <2>1 DEF build, control, past, data, sensor, DigInv, ModeInv, FetchInv, LastTurn, SettingUp
  <2> QED BY <2>2, <2>3
<1>3. CASE ~busy /\ ~copying /\ SettingUp
  <2>1. turn = 3 /\ turn # LastTurn /\ turn + 1 # LastTurn
    BY <1>3, WhereIs, Turns DEF ReadReady
  <2>2. turn' = turn + 1 /\ UNCHANGED <<build, state, suspended, task, past>>
    BY <1>3, <2>1, GoesOn DEF ReadReady
  <2>3. state = "ready" => suspended
    BY <1>3 DEF SettingUp, TaskInv
  <2> QED BY <1>1, <1>3, <2>1, <2>2, <2>3, PlainAccess
          DEF Typed280, Flags, Values, ModeInv, build, past, data, sensor
<1>4. CASE ~busy /\ ~copying /\ ~SettingUp
  <2>1. task = "fetch" /\ turn = LastTurn - 1 /\ turn # LastTurn
    BY <1>4, WhereIs, Turns DEF ReadReady
  <2>2. turn' = turn + 1 /\ UNCHANGED <<build, state, suspended, task, past>>
    BY <1>4, <2>1, GoesOn DEF ReadReady
  <2>3. TurnInv' /\ LastTurn' = LastTurn /\ SettingUp' = SettingUp
    BY <2>1, <2>2, OnwardTurn DEF build
  <2>4. Typed280' /\ TaskInv' /\ SampleUntorn'
    BY <1>1, <2>2 DEF build, past, data, sensor, Typed280, Flags, Values, TaskInv, SampleUntorn
  <2>5. DigInv' /\ ModeInv'
    BY <1>1, <1>4, <2>2, <2>3 DEF build, past, data, sensor, DigInv, ModeInv
  <2>6. FetchInv'
    BY <1>1, <1>4, <2>1, <2>2, <2>3, Turns DEF build, past, data, sensor, FetchInv
  <2> QED BY <2>3, <2>4, <2>5, <2>6
<1> QED BY <1>2, <1>3, <1>4

\* The writes of CTRL_HUM and CONFIG
LEMMA WriteConfigStep ==
  ASSUME Inv280, task # "none", WriteConfig
  PROVE  Inv280'
<1> USE DEF Inv280
<1>1. SettingUp /\ turn > 4 /\ turn # LastTurn - 1 /\ UNCHANGED <<data, sensor>>
  BY WhereIs DEF WriteConfig
<1>2. CASE turn # LastTurn
  <2>1. turn # 4 /\ turn # 3 /\ ~(turn < 3) /\ turn + 1 # LastTurn
    BY <1>1, Turns
  <2>2. turn' = turn + 1 /\ UNCHANGED <<build, state, suspended, task, past>>
    BY <1>2, GoesOn DEF WriteConfig
  <2>3. state = "ready" => suspended
    BY <1>1 DEF SettingUp, TaskInv
  <2> QED BY <1>1, <1>2, <2>1, <2>2, <2>3, PlainAccess
          DEF Typed280, Flags, Values, ModeInv, build, past, data, sensor
<1>3. CASE turn = LastTurn
  <2>1. End(TRUE)
    BY <1>3, GetsDone DEF WriteConfig
  <2>2. /\ burst' = burst /\ forced' = forced
        /\ UNCHANGED <<buf, byte, dig, comp, mode, busy, copying, out>>
    BY <1>1, <2>1, EndTurn DEF data, sensor
  <2>3. SampleUntorn'
    BY <2>2 DEF SampleUntorn
  <2> QED BY <1>1, <1>3, <2>1, <2>2, <2>3, EndStep DEF Typed280, Flags, Values, ModeInv, FetchInv
<1> QED BY <1>2, <1>3

\* The write of CTRL_MEAS, the last but one of setting up and the first of a forced fetch
LEMMA WriteCtrlStep ==
  ASSUME Inv280, task # "none", WriteCtrl
  PROVE  Inv280'
<1> USE DEF Inv280
<1>1. /\ mode' = (IF forced THEN "forced" ELSE "normal") /\ busy' = TRUE
      /\ UNCHANGED <<copying, out, buf, byte, dig, comp>>
  BY DEF WriteCtrl, StartMode, data
<1>2. \/ SettingUp /\ turn > 4 /\ turn = LastTurn - 1
      \/ task = "fetch" /\ forced /\ turn = 1
  BY WhereIs DEF WriteCtrl
<1>3. turn # LastTurn
  BY <1>2, Turns
<1>4. turn' = turn + 1 /\ UNCHANGED <<build, state, suspended, task, past>>
  BY <1>3, GoesOn DEF WriteCtrl
<1>5. TurnInv' /\ LastTurn' = LastTurn /\ SettingUp' = SettingUp
  BY <1>3, <1>4, OnwardTurn DEF build
<1>6. Typed280'
  <2>1. Flags'
    BY <1>1, <1>4 DEF Typed280, Flags, build, past
  <2>2. Values'
    BY <1>1, <1>4 DEF Typed280, Values, build, past
  <2> QED BY <2>1, <2>2 DEF Typed280
<1>7. TaskInv' /\ SampleUntorn'
  BY <1>1, <1>4 DEF build, TaskInv, SampleUntorn
<1>8. DigInv'
  BY <1>1, <1>2, <1>4, <1>5, Turns DEF build, DigInv
<1>9. ModeInv'
  BY <1>1, <1>2, <1>4, <1>5, Turns DEF build, past, ModeInv
<1>10. FetchInv'
  <2>1. CASE SettingUp
    BY <1>1, <1>4, <2>1 DEF build, past, FetchInv, SettingUp
  <2>2. CASE task = "fetch" /\ forced /\ turn = 1
    BY <1>1, <1>4, <1>5, <2>2, Turns DEF build, past, FetchInv
  <2> QED BY <1>2, <2>1, <2>2
<1> QED BY <1>5, <1>6, <1>7, <1>8, <1>9, <1>10

\* The last register of a suspension
LEMMA WriteOffStep ==
  ASSUME Inv280, task # "none", WriteOff
  PROVE  Inv280'
<1> USE DEF Inv280
<1>1. task = "suspend" /\ turn = LastTurn /\ ~SettingUp
  BY WhereIs, Turns DEF WriteOff
<1>2. End(TRUE)
  BY <1>1, GetsDone DEF WriteOff
<1>3. /\ burst' = burst /\ forced' = forced /\ mode' = "sleep" /\ busy' \in {busy, FALSE}
      /\ UNCHANGED <<copying, out, buf, byte, dig, comp>>
  BY <1>2, EndTurn DEF WriteOff, FallAsleep, data
<1>4. SampleUntorn'
  BY <1>3 DEF SampleUntorn
<1>5. busy' \in BOOLEAN /\ copying' \in BOOLEAN
  BY <1>3 DEF Typed280, Flags
<1> QED BY <1>1, <1>2, <1>3, <1>4, <1>5, EndStep DEF Typed280, Values, FetchInv

\* What the last byte of a sample leaves behind
LEMMA SampleEnds ==
  ASSUME Inv280, task # "none", ReadSample, turn' # turn \/ task' = "none"
  PROVE  /\ task = "fetch" /\ turn = LastTurn /\ End(TRUE)
         /\ comp' = buf \cup {out} /\ buf' = {} /\ byte' = 0 /\ UNCHANGED <<dig, sensor>>
<1> USE DEF Inv280
<1>1. task = "fetch" /\ turn = LastTurn
  BY WhereIs DEF ReadSample
<1>2. comp' = buf \cup {out} /\ buf' = {} /\ byte' = 0 /\ Ahead
  BY DEF ReadSample, control
<1> QED BY <1>1, <1>2, GetsDone DEF ReadSample

LEMMA ReadSampleStep ==
  ASSUME Inv280, task # "none", ReadSample
  PROVE  Inv280'
<1> USE DEF Inv280
<1>1. CASE turn' # turn \/ task' = "none"
  <2>1. /\ task = "fetch" /\ turn = LastTurn /\ End(TRUE)
        /\ comp' = buf \cup {out} /\ buf' = {} /\ byte' = 0
        /\ UNCHANGED <<dig, mode, busy, copying, out>>
    BY <1>1, SampleEnds DEF sensor
  <2>2. burst' = burst /\ forced' = forced /\ ~SettingUp
    BY <2>1, EndTurn, Turns
  <2>3. SampleUntorn'
    BY <2>1, <2>2, Turns DEF SampleUntorn, FetchInv
  <2> QED BY <2>1, <2>2, <2>3, EndStep DEF Typed280, Flags, Values, ModeInv
<1>2. CASE turn' = turn /\ task' # "none"
  <2>1. task = "fetch" /\ turn = LastTurn
    BY WhereIs DEF ReadSample
  <2>2. /\ ~burst /\ byte # (IF humid THEN 7 ELSE 5)
        /\ buf' = buf \cup {out} /\ byte' = byte + 1
        /\ UNCHANGED <<burst, forced, humid, state, suspended, task, turn, comp, failedSleep, old,
                       dig, mode, busy, copying, out>>
    <3>1. ~Ahead
      <4> SUFFICES ASSUME Ahead PROVE FALSE
        OBVIOUS
      <4> QED BY <1>2, <2>1, GetsDone, EndTurn
    <3> QED BY <3>1 DEF ReadSample, build, control, past, sensor
  <2>3. Typed280'
    <3>1. Flags'
      BY <2>2 DEF Typed280, Flags
    <3>2. byte' \in 0 .. 7 /\ (~humid => byte' <= 5)
      BY <2>2 DEF Typed280, Values, FetchInv
    <3>3. Values'
      BY <2>2, <3>2 DEF Typed280, Values
    <3> QED BY <3>1, <3>3 DEF Typed280
  <2>4. TurnInv' /\ TaskInv' /\ SampleUntorn' /\ LastTurn' = LastTurn
    BY <2>2 DEF TurnInv, TaskInv, SampleUntorn, LastTurn, SettingUp
  <2>5. DigInv' /\ ModeInv'
    BY <2>2 DEF DigInv, ModeInv, SettingUp, LastTurn
  <2>6. byte' <= 5 \/ humid
    BY <2>2 DEF Typed280, Values, FetchInv
  <2>7. FetchInv'
    BY <2>1, <2>2, <2>4, <2>6, Turns DEF FetchInv
  <2> QED BY <2>3, <2>4, <2>5, <2>7
<1> QED BY <1>1, <1>2

LEMMA FailStep ==
  ASSUME Inv280, task # "none", AccessFails
  PROVE  Inv280'
<1> USE DEF Inv280
<1>1. End(FALSE) /\ UNCHANGED <<comp, byte, buf, dig, out, copying>>
  BY DEF AccessFails, StartMode, FallAsleep, sensor
<1>2. burst' = burst /\ forced' = forced
  BY <1>1, EndTurn
<1>3. /\ mode' \in {"sleep", "forced", "normal"} /\ (forced => mode' # "normal")
      /\ (SettingUp /\ turn = LastTurn => mode' = mode)
      /\ (task = "fetch" /\ ~forced => mode' = mode)
  <2>1. CASE UNCHANGED sensor
    BY <2>1 DEF sensor, Typed280, Values, ModeInv
  <2>2. CASE Register = "CTRL_MEAS" /\ StartMode
    <3>1. ~(SettingUp /\ turn = LastTurn) /\ (task = "fetch" => forced)
      BY <2>2, WhereIs, Turns
    <3> QED BY <2>2, <3>1 DEF StartMode
  <2>3. CASE Register = "OFF" /\ FallAsleep
    <3>1. task = "suspend" /\ ~SettingUp
      BY <2>3, WhereIs, Turns
    <3> QED BY <2>3, <3>1 DEF FallAsleep
  <2> QED BY <2>1, <2>2, <2>3 DEF AccessFails
<1>4. busy' \in BOOLEAN /\ copying' \in BOOLEAN
  BY <1>1 DEF AccessFails, StartMode, FallAsleep, sensor, Typed280, Flags
<1>5. SampleUntorn'
  BY <1>1, <1>2 DEF SampleUntorn
<1> QED BY <1>1, <1>2, <1>3, <1>4, <1>5, EndStep DEF Typed280, Values, FetchInv

LEMMA Step280 == Inv280 /\ [Bme280Next]_bme280 => Inv280'
<1> SUFFICES ASSUME Inv280, [Bme280Next]_bme280 PROVE Inv280'
  OBVIOUS
<1>1. CASE RegisterAccess
  BY <1>1, PlainSteps, ReadReadyStep, WriteConfigStep, WriteCtrlStep, WriteOffStep, ReadSampleStep,
     FailStep DEF RegisterAccess
<1>2. CASE bme280_chip_init \/ bme280_sample_fetch \/ bme280_pm_action
  BY <1>2, BeginStep
<1>3. CASE Copied \/ Finish \/ Again \/ Restart
  BY <1>3, ChipStep
<1>4. CASE UNCHANGED bme280
  <2>1. UNCHANGED <<burst, forced, humid, state, suspended, task, turn, buf, byte, dig, comp, mode,
                    busy, copying, out, failedSleep, old>>
    BY <1>4 DEF bme280, build, control, data, sensor, past
  <2>2. Typed280' /\ TurnInv' /\ TaskInv' /\ SampleUntorn'
    BY <2>1 DEF Inv280, Typed280, Flags, Values, TurnInv, LastTurn, SettingUp, TaskInv, SampleUntorn
  <2>3. DigInv' /\ ModeInv' /\ FetchInv'
    BY <2>1 DEF Inv280, DigInv, ModeInv, FetchInv, LastTurn, SettingUp
  <2> QED BY <2>2, <2>3 DEF Inv280
<1> QED BY <1>1, <1>2, <1>3, <1>4 DEF Bme280Next

LEMMA Invariant280 == Bme280Spec => []Inv280
BY Start280, Step280, PTL DEF Bme280Spec

-----------------------------------------------------------------------------
(* The theorems.                                                             *)

(* Every variable keeps its type. *)
THEOREM TypeCorrect280 == Bme280Spec => []Bme280TypeOK
<1>1. Inv280 => Bme280TypeOK
  <2> SUFFICES ASSUME Inv280 PROVE Bme280TypeOK
    OBVIOUS
  <2>1. Len(Calls) \in Nat /\ turn <= Len(Calls)
    <3>1. CASE task = "none"
      BY <3>1, Scripts280 DEF Inv280, TurnInv, LastTurn, SettingUp, Typed280, Flags
    <3>2. CASE task # "none"
      BY <3>2, LengthOf, Turns DEF Inv280, TurnInv
    <3> QED BY <3>1, <3>2
  <2>2. turn \in 1 .. Len(Calls)
    BY <2>1 DEF Inv280, TurnInv
  <2> QED BY <2>2 DEF Inv280, Typed280, Flags, Values, Bme280TypeOK
<1> QED BY <1>1, Invariant280, PTL

(* The bytes of a sample of ReadSample belong to one measurement, on I2C or *)
(* in forced mode.                                                          *)
THEOREM AlwaysUntorn == Bme280Spec => []SampleUntorn
<1>1. Inv280 => SampleUntorn
  BY DEF Inv280
<1> QED BY <1>1, Invariant280, PTL

(* A device that is ready and not suspended is set up, whatever failed in   *)
(* bme280_chip_init or bme280_pm_action before.                             *)
THEOREM AlwaysSetUp == Bme280Spec => []ReadyIsSetUp
<1>1. Inv280 => ReadyIsSetUp
  BY DEF Inv280, DigInv, ModeInv, ReadyIsSetUp
<1> QED BY <1>1, Invariant280, PTL

(* In forced mode the values that bme280_sample_fetch returns were measured *)
(* after it began.                                                          *)
THEOREM AlwaysFresh == Bme280Spec => ForcedIsFresh
<1>1. Inv280 /\ [Bme280Next]_bme280 =>
        [forced /\ ReadSample /\ task' = "none" => comp' \cap {old, Nothing} = {}]_bme280
  <2> SUFFICES ASSUME Inv280, [Bme280Next]_bme280, bme280' # bme280,
                      forced, ReadSample, task' = "none"
               PROVE  comp' \cap {old, Nothing} = {}
    OBVIOUS
  <2>1. task # "none"
    <3> SUFFICES ASSUME task = "none" PROVE FALSE
      OBVIOUS
    <3>1. turn = 1
      BY DEF Inv280, TurnInv, LastTurn, SettingUp
    <3> QED BY <3>1, Scripts280 DEF ReadSample, Register, SettingUp
  <2>2. /\ task = "fetch" /\ turn = LastTurn /\ comp' = buf \cup {out}
    BY <2>1, SampleEnds
  <2>3. turn = 3
    BY <2>2, Turns
  <2> QED BY <2>2, <2>3 DEF Inv280, FetchInv
<1> QED BY <1>1, Invariant280, PTL DEF Bme280Spec, ForcedIsFresh

-----------------------------------------------------------------------------
(* The values handed out.                                                    *)

(* bme280_channel_get gives the pressure rounded down to millionths of kPa, *)
(* its fraction is a proper one, and no product passes 32 bits.             *)
THEOREM PressRoundsDown ==
  ASSUME NEW p \in Nat
  PROVE  /\ Millionths(Press(p)) = (p * 1000) \div 256
         /\ Press(p).val2 >= 0 /\ Press(p).val2 < 1000000
<1> DEFINE w == p \div 256
           f == p % 256
           q == w \div 1000
           r == w % 1000
           g == (f * 1000) \div 256
<1>1. w \in Nat /\ f \in Nat /\ f < 256 /\ p = 256 * w + f
  BY SMTT(30)
<1>2. q \in Nat /\ r \in Nat /\ r < 1000 /\ w = 1000 * q + r
  BY <1>1, SMTT(30)
<1>3. U32(f * 1000) = f * 1000
  BY <1>1, SMTT(30) DEF U32
<1>4. Press(p) = [val1 |-> q, val2 |-> r * 1000 + g]
  BY <1>3 DEF Press
<1>5. g \in Nat /\ g < 1000 /\ (p * 1000) \div 256 = 1000 * w + g
  BY <1>1, SMTT(30)
<1> HIDE DEF w, f, q, r, g
<1>6. Press(p).val1 = q /\ Press(p).val2 = r * 1000 + g
  BY <1>4
<1>7. q * 1000000 + (r * 1000 + g) = 1000 * w + g /\ r * 1000 + g < 1000000 /\ r * 1000 + g >= 0
  BY <1>2, <1>5, SMTT(30)
<1> QED BY <1>5, <1>6, <1>7, SMTT(30) DEF Millionths

(* The same for the humidity. *)
THEOREM HumidityRoundsDown ==
  ASSUME NEW h \in Nat
  PROVE  /\ Millionths(Humidity(h)) = (h * 1000000) \div 1024
         /\ Humidity(h).val2 >= 0 /\ Humidity(h).val2 < 1000000
<1> DEFINE q == h \div 1024
           r == h % 1024
           g == (r * 1000000) \div 1024
<1>1. q \in Nat /\ r \in Nat /\ r < 1024 /\ h = 1024 * q + r
  BY SMTT(30)
<1>2. U32(r * 1000000) = r * 1000000
  BY <1>1, SMTT(30) DEF U32
<1>3. Humidity(h) = [val1 |-> q, val2 |-> g]
  BY <1>2 DEF Humidity
<1>4. g \in Nat /\ g < 1000000 /\ (h * 1000000) \div 1024 = 1000000 * q + g
  BY <1>1, SMTT(30)
<1> HIDE DEF q, r, g
<1>5. Humidity(h).val1 = q /\ Humidity(h).val2 = g
  BY <1>3
<1> QED BY <1>1, <1>4, <1>5, SMTT(30) DEF Millionths

(* lps22hb_press_convert too, and its product fits a signed 32-bit number.  *)
THEOREM RawPressRoundsDown ==
  ASSUME NEW raw \in Nat
  PROVE  /\ Millionths(lps22hb_press_convert(raw)) = (raw * 100000) \div 4096
         /\ lps22hb_press_convert(raw).val2 >= 0 /\ lps22hb_press_convert(raw).val2 < 1000000
         /\ (raw % 4096) * 100000 < 2147483648
<1> DEFINE w == raw \div 4096
           f == raw % 4096
           q == w \div 10
           r == w % 10
           g == (f * 100000) \div 4096
<1>1. w \in Nat /\ f \in Nat /\ f < 4096 /\ raw = 4096 * w + f
  BY SMTT(30)
<1>2. q \in Nat /\ r \in Nat /\ r < 10 /\ w = 10 * q + r
  BY <1>1, SMTT(30)
<1>3. lps22hb_press_convert(raw) = [val1 |-> q, val2 |-> r * 100000 + g]
  BY DEF lps22hb_press_convert
<1>4. g \in Nat /\ g < 100000 /\ (raw * 100000) \div 4096 = 100000 * w + g /\ f * 100000 < 2147483648
  BY <1>1, SMTT(30)
<1>5. (raw % 4096) * 100000 < 2147483648
  BY <1>4
<1> HIDE DEF w, f, q, r, g
<1>6. lps22hb_press_convert(raw).val1 = q /\ lps22hb_press_convert(raw).val2 = r * 100000 + g
  BY <1>3
<1>7. /\ q * 1000000 + (r * 100000 + g) = 100000 * w + g
      /\ r * 100000 + g < 1000000 /\ r * 100000 + g >= 0
  BY <1>2, <1>4, SMTT(30)
<1> QED BY <1>4, <1>5, <1>6, <1>7, SMTT(30) DEF Millionths

(* lps22hb_sample_fetch: a sample fills 24 bits without a sign and 16 bits  *)
(* with one, and no two samples of a kind are confused.                     *)
THEOREM SampleFits ==
  ASSUME NEW one \in [1 .. 5 -> 0 .. 255], NEW two \in [1 .. 5 -> 0 .. 255]
  PROVE  /\ RawPress(one) >= 0 /\ RawPress(one) < 16777216
         /\ RawTemp(one) >= -32768 /\ RawTemp(one) < 32768
         /\ RawPress(one) = RawPress(two) => \A i \in 1 .. 3 : one[i] = two[i]
         /\ RawTemp(one) = RawTemp(two) => \A i \in 4 .. 5 : one[i] = two[i]
<1>1. \A i \in 1 .. 5 : one[i] \in Int /\ 0 <= one[i] /\ one[i] <= 255
  BY SMTT(60)
<1>2. \A i \in 1 .. 5 : two[i] \in Int /\ 0 <= two[i] /\ two[i] <= 255
  BY SMTT(60)
<1>3. /\ RawPress(one) >= 0 /\ RawPress(one) < 16777216
      /\ RawTemp(one) >= -32768 /\ RawTemp(one) < 32768
  <2>1. \A a, b, c \in Int : 0 <= a /\ a <= 255 /\ 0 <= b /\ b <= 255 /\ 0 <= c /\ c <= 255 =>
          0 <= a + 256 * b + 65536 * c /\ a + 256 * b + 65536 * c < 16777216
    BY SMTT(30)
  <2>2. \A a, b \in Int : 0 <= a /\ a <= 255 /\ 0 <= b /\ b <= 255 =>
          0 <= a + 256 * b /\ a + 256 * b < 65536
    BY SMTT(30)
  <2>3. RawPress(one) >= 0 /\ RawPress(one) < 16777216
    BY <1>1, <2>1 DEF RawPress
  <2>4. RawTemp(one) >= -32768 /\ RawTemp(one) < 32768
    BY <1>1, <2>2, SMTT(30) DEF RawTemp
  <2> QED BY <2>3, <2>4
<1>4. ASSUME RawPress(one) = RawPress(two)
      PROVE  one[1] = two[1] /\ one[2] = two[2] /\ one[3] = two[3]
  <2> DEFINE a == one[1]  b == one[2]  c == one[3]
             x == two[1]  y == two[2]  z == two[3]
  <2>1. /\ a \in Int /\ 0 <= a /\ a <= 255 /\ b \in Int /\ 0 <= b /\ b <= 255
        /\ x \in Int /\ 0 <= x /\ x <= 255 /\ y \in Int /\ 0 <= y /\ y <= 255
        /\ c \in Int /\ z \in Int
    BY <1>1, <1>2
  <2>2. a + 256 * b + 65536 * c = x + 256 * y + 65536 * z
    BY <1>4 DEF RawPress
  <2> HIDE DEF a, b, c, x, y, z
  <2>3. c = z
    BY <2>1, <2>2, SMTT(30)
  <2>4. b = y
    BY <2>1, <2>2, <2>3, SMTT(30)
  <2>5. a = x
    BY <2>1, <2>2, <2>3, <2>4, SMTT(30)
  <2> QED BY <2>3, <2>4, <2>5 DEF a, b, c, x, y, z
<1>5. ASSUME RawTemp(one) = RawTemp(two)
      PROVE  one[4] = two[4] /\ one[5] = two[5]
  BY <1>1, <1>2, <1>5, SMTT(30) DEF RawTemp
<1>6. \A i \in 1 .. 3 : i = 1 \/ i = 2 \/ i = 3
  BY SMTT(30)
<1>7. \A i \in 4 .. 5 : i = 4 \/ i = 5
  BY SMTT(30)
<1> QED BY <1>3, <1>4, <1>5, <1>6, <1>7
=============================================================================

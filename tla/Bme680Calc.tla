----------------------------- MODULE Bme680Calc -----------------------------
(***************************************************************************)
(* 007.i2c/sensor/bme680: the heater settings, the gas resistance and the  *)
(* values that bme680_channel_get hands out, as functions of integers.     *)
(* The gas resistance is computed with 64 bits; nothing in it overflows.   *)
(***************************************************************************)
EXTENDS Integers, Sequences

\* Division of C, towards zero, by a positive number; the remainder with it.
Quot(a, b) == IF a >= 0 THEN a \div b ELSE -((-a) \div b)
Rem(a, b) == a - b * Quot(a, b)

-----------------------------------------------------------------------------
(* bme680_calc_gas_wait: six bits of duration, two of scale.               *)

\* One turn of the loop, and its condition.
Long(w) == w.dur > 63
Turn(w) == IF Long(w) THEN [dur |-> w.dur \div 4, factor |-> w.factor + 1] ELSE w

\* Three turns are all there are below 4032 (GasWaitLoopEnds).
Scaled(dur) == Turn(Turn(Turn([dur |-> dur, factor |-> 0])))

calc_gas_wait(dur) ==
  IF dur >= 4032 THEN 255 ELSE Scaled(dur).dur + Scaled(dur).factor * 64

\* The time that the chip waits for a code.
Scale == <<1, 4, 16, 64>>
Decoded(code) == (code % 64) * Scale[code \div 64 + 1]

-----------------------------------------------------------------------------
(* bme680_calc_res_heat: its one divisor that depends on the calibration.  *)

HeatDivisor(res_heat_val) == 131 * res_heat_val + 65536

-----------------------------------------------------------------------------
(* bme680_calc_gas_resistance.                                             *)

look_up1(range) == IF range \in {5, 13} THEN 2126008810
                   ELSE IF range = 7 THEN 2130303777
                   ELSE IF range = 10 THEN 2143188679
                   ELSE IF range = 11 THEN 2136746228
                   ELSE 2147483647

look_up2 == <<4096000000, 2048000000, 1024000000, 512000000, 255744255, 127110228, 64000000,
              32258064, 16016016, 8000000, 4000000, 2000000, 1000000, 500000, 250000, 125000>>

\* var1, var2 and var3 of the code; range_sw_err has four bits and a sign.
GasScale(range, err) == ((1340 + 5 * err) * look_up1(range)) \div 65536
GasDivisor(range, err, adc) == adc * 32768 - 16777216 + GasScale(range, err)
GasDividend(range, err) == (look_up2[range + 1] * GasScale(range, err)) \div 512

calc_gas_resistance(range, err, adc) ==
  (GasDividend(range, err) + GasDivisor(range, err, adc) \div 2) \div GasDivisor(range, err, adc)

-----------------------------------------------------------------------------
(* bme680_channel_get: a whole part and millionths.                        *)

Temperature(t) == [val1 |-> Quot(t, 100), val2 |-> Rem(t, 100) * 10000]
Thousandths(v) == [val1 |-> Quot(v, 1000), val2 |-> Rem(v, 1000) * 1000]

Millionths(val) == val.val1 * 1000000 + val.val2
OneSign(val) == \/ val.val1 >= 0 /\ val.val2 >= 0
                \/ val.val1 <= 0 /\ val.val2 <= 0
=============================================================================

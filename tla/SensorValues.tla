---------------------------- MODULE SensorValues ----------------------------
(***************************************************************************)
(* 007.i2c/sensor: the values that the drivers of BME280 and LPS22HB hand  *)
(* out, a whole part and millionths, from the fixed-point numbers that     *)
(* they keep.  Products of unsigned numbers are taken modulo 2^32.         *)
(***************************************************************************)
EXTENDS Bme680Calc

U32(n) == n % (2 ^ 32)

\* bme280_channel_get: hundredths of a degree
AmbientTemp(comp_temp) == Temperature(comp_temp)

\* Pa with eight fractional bits, given in kPa
Press(comp_press) ==
  [val1 |-> (comp_press \div 256) \div 1000,
   val2 |-> ((comp_press \div 256) % 1000) * 1000 + U32((comp_press % 256) * 1000) \div 256]

\* Percent with ten fractional bits
Humidity(comp_humidity) ==
  [val1 |-> comp_humidity \div 1024, val2 |-> U32((comp_humidity % 1024) * 1000000) \div 1024]

\* lps22hb_sample_fetch: three bytes of pressure, two of temperature with a sign
RawPress(out) == out[1] + 256 * out[2] + 65536 * out[3]
RawTemp(out) == LET u == out[4] + 256 * out[5] IN IF u < 32768 THEN u ELSE u - 65536

\* 4096 of the register are one hPa, given in kPa; the register has 24 bits.
lps22hb_press_convert(raw_val) ==
  [val1 |-> (raw_val \div 4096) \div 10,
   val2 |-> ((raw_val \div 4096) % 10) * 100000 + ((raw_val % 4096) * 100000) \div 4096]

\* Hundredths of a degree
lps22hb_temp_convert(raw_val) == Temperature(raw_val)
=============================================================================

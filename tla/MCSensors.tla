----------------------------- MODULE MCSensors -----------------------------
(* A board with one of three sensors, Bme680, Bme280 or Max30208.  Of the     *)
(* four measurements of Bme680 each place that keeps one has its own, and one *)
(* is free; Bme280 needs three.                                               *)
EXTENDS Bme680, Bme280, Max30208, TLC

VARIABLE board

\* A sensor that is not there has one state.
NoBme680 == spi /\ chipPage = 0 /\ measuring /\ field = None
NoBme280 == burst /\ forced /\ humid /\ copying

SensorsInit ==
  /\ Init /\ Bme280Init /\ Max30208Init
  /\ board \in {"bme680", "bme280", "max30208"}
  /\ board = "bme680" \/ NoBme680
  /\ board = "bme280" \/ NoBme280

SensorsNext == \/ board = "bme680" /\ Next /\ UNCHANGED <<bme280, max30208, board>>
               \/ board = "bme280" /\ Bme280Next /\ UNCHANGED <<vars, max30208, board>>
               \/ board = "max30208" /\ Max30208Next /\ UNCHANGED <<vars, bme280, board>>

SensorsSpec == SensorsInit /\ [][SensorsNext]_<<vars, bme280, max30208, board>>

Symmetry == Permutations(Ids) \cup Permutations(Measured)
=============================================================================

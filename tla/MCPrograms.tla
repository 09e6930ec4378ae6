----------------------------- MODULE MCPrograms -----------------------------
(* One of five programs that share nothing: UsbHid with a report that wraps  *)
(* at three, LittleFs with a pattern of ten bytes (two of them on the places *)
(* that are counted up) of four values, RtcClock with the seconds of the     *)
(* real counter and a short day, SerialLine with lines of two digits, and    *)
(* FlashTest.                                                                *)
EXTENDS UsbHid, LittleFs, RtcClock, SerialLine, FlashTest

VARIABLE program

programs == <<vars, lfs, rtc, serial, flashTest, program>>

\* A program that does not run has one state.
ProgramsInit ==
  /\ program \in {"usb_hid", "littlefs", "rtc", "serial", "flash"}
  /\ Init
  /\ LfsInit /\ (program = "littlefs" \/ ~wipe)
  /\ RtcInit /\ (program = "rtc" \/ (sample = "alarm" /\ hours = 1 /\ minutes = 0))
  /\ SerialInit
  /\ program = "serial" \/ (unit = "ring_buffer" /\ data_read = [i \in Places |-> Nul])
  /\ FlashTestInit /\ (program = "flash" \/ cell = [s \in Sector |-> "blank"])

ProgramsNext ==
  \/ program = "usb_hid" /\ Next /\ UNCHANGED <<lfs, rtc, serial, flashTest, program>>
  \/ program = "littlefs" /\ LfsNext /\ UNCHANGED <<vars, rtc, serial, flashTest, program>>
  \/ program = "rtc" /\ RtcNext /\ UNCHANGED <<vars, lfs, serial, flashTest, program>>
  \/ program = "serial" /\ SerialNext /\ UNCHANGED <<vars, lfs, rtc, flashTest, program>>
  \/ program = "flash" /\ FlashTestNext /\ UNCHANGED <<vars, lfs, rtc, serial, program>>

\* The fairness of UsbHid; of the other programs nothing is claimed that needs any.
ProgramsSpec == ProgramsInit /\ [][ProgramsNext]_programs /\ Fairness
=============================================================================

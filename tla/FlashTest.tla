------------------------------ MODULE FlashTest ------------------------------
(***************************************************************************)
(* 009.spi/flash_sam_2: a sector, then a row of sectors, is erased,        *)
(* written with four bytes and read back.                                  *)
(*                                                                         *)
(* External: the flash and its driver.  A call may fail, having done some  *)
(* of its work, and a chip that protects itself ignores an erase or a      *)
(* write without an error.  A write only clears bits, so that over other   *)
(* bytes than blank ones the result may or may not be what was written.    *)
(***************************************************************************)
EXTENDS Naturals

CONSTANT Sectors  \* tested by multi_sector_test

ASSUME SectorsAssumption == Sectors \in Nat \ {0}

\* The four bytes of a sector: blank, the expected ones, or others that begin
\* with 0xff or with another byte.
Content == {"blank", "expected", "begins", "other"}
Sector == 0 .. Sectors - 1

VARIABLES
  cell,     \* the flash
  test,     \* "single" or "multi"
  doing,    \* the call that comes next, or "over"
  offs,     \* the sector it is about
  verified, \* "Flash erase succeeded!", by multi_sector_test
  wrote     \* history: the last write reached the flash

flashTest == <<cell, test, doing, offs, verified, wrote>>

FlashTestInit == /\ cell \in [Sector -> Content]
                 /\ test = "single" /\ doing = "erase" /\ offs = 0
                 /\ verified = FALSE /\ wrote = FALSE

Does(call, s) == doing' = call /\ offs' = s

\* A return of a test: main goes on with the other one, or ends.
Leaves == IF test = "single" THEN test' = "multi" /\ Does("erase", 0)
          ELSE Does("over", 0) /\ UNCHANGED test

-----------------------------------------------------------------------------
\* The sectors that are erased may be blank then, or what they were, or anything
\* after an error.
flash_erase(ok) ==
  LET erased == IF test = "single" THEN {0} ELSE Sector
  IN  /\ \E c \in [Sector -> Content] :
           /\ \A s \in Sector \ erased : c[s] = cell[s]
           /\ ok => \A s \in erased : c[s] \in {"blank", cell[s]}
           /\ cell' = c
      /\ doing = "erase"
      /\ Does(IF ok /\ test = "multi" THEN "check" ELSE "write", 0)
      /\ UNCHANGED <<test, verified, wrote>>

\* Check of the first sector only.
CheckFirst ==
  /\ doing = "check"
  /\ \/ /\ cell[offs] \in {"blank", "begins"}
        /\ Does("write", 0) /\ verified' = TRUE /\ UNCHANGED test
     \/ Leaves /\ UNCHANGED verified
  /\ UNCHANGED <<cell, wrote>>

\* flash_read of each sector, of which the first byte must be 0xff; it may fail.
Check ==
  /\ doing = "check"
  /\ \/ /\ cell[offs] \in {"blank", "begins"}
        /\ IF offs = Sectors - 1 THEN Does("write", 0) /\ verified' = TRUE
           ELSE Does("check", offs + 1) /\ UNCHANGED verified
        /\ UNCHANGED test
     \/ Leaves /\ UNCHANGED verified
  /\ UNCHANGED <<cell, wrote>>

Written(c) == CASE c \in {"blank", "expected"} -> {"expected"} [] OTHER -> {"expected", "other"}

flash_write ==
  /\ doing = "write"
  /\ \/ /\ \/ wrote' = TRUE /\ \E c \in Written(cell[offs]) : cell' = [cell EXCEPT ![offs] = c]
           \/ wrote' = FALSE /\ UNCHANGED cell
        /\ Does("compare", offs) /\ UNCHANGED test
     \/ /\ \E c \in Content : cell' = [cell EXCEPT ![offs] = c]
        /\ Leaves /\ UNCHANGED wrote
  /\ UNCHANGED verified

\* After a comparison, equal or not, the next sector.
Onward == IF test = "single" \/ offs = Sectors - 1 THEN Leaves
          ELSE Does("write", offs + 1) /\ UNCHANGED test

Compare(equal) ==
  /\ doing = "compare"
  /\ equal = (cell[offs] = "expected")
  /\ Onward /\ UNCHANGED <<cell, verified, wrote>>

ReadFails == doing = "compare" /\ Leaves /\ UNCHANGED <<cell, verified, wrote>>

FlashTestNext == \/ flash_erase(TRUE) \/ flash_erase(FALSE) \/ Check \/ flash_write
                 \/ Compare(TRUE) \/ Compare(FALSE) \/ ReadFails
FlashTestSpec == FlashTestInit /\ [][FlashTestNext]_flashTest

-----------------------------------------------------------------------------
FlashTestTypeOK == /\ cell \in [Sector -> Content] /\ test \in {"single", "multi"}
                   /\ doing \in {"erase", "check", "write", "compare", "over"}
                   /\ offs \in Sector /\ verified \in BOOLEAN /\ wrote \in BOOLEAN

(***************************************************************************)
(* When multi_sector_test found the sectors erased, its "Good!!" means     *)
(* that the bytes were written then, and are not the ones that an earlier  *)
(* run left in a chip that ignored both the erase and the write.  Nothing  *)
(* of the kind holds of single_sector_test, or after an erase that failed. *)
(***************************************************************************)
GoodMeansWritten == verified /\ doing = "compare" /\ cell[offs] = "expected" => wrote
=============================================================================

------------------------------ MODULE LittleFs ------------------------------
(***************************************************************************)
(* 009.spi/littlefs: every boot reads a counter and a test pattern from    *)
(* two files, advances them and writes them back, one file after the       *)
(* other.                                                                  *)
(*                                                                         *)
(* External: the file system.  Creating a file is permanent at once; what  *)
(* is written becomes permanent when the file is closed, as a whole, and   *)
(* perhaps even when closing it fails.  Every call may fail, and the power *)
(* may fail between any two.                                               *)
(***************************************************************************)
EXTENDS Integers

CONSTANTS Size, \* TEST_FILE_SIZE
          Byte, \* number of values of a byte
          Absent, Empty \* a file that is not there, and one with no bytes

Place == 0 .. Size - 1
Bytes == 0 .. Byte - 1
Missing == {Absent, Empty}

ASSUME LittleFsAssumption ==
  /\ Size \in Nat /\ Size > 1
  /\ Byte \in Nat /\ Byte > 1 /\ Byte % 2 = 0
  /\ Absent # Empty
  /\ Missing \cap Bytes = {}
  /\ Missing \cap [Place -> Bytes] = {}

VARIABLES
  wipe,    \* CONFIG_APP_WIPE_STORAGE
  stage,   \* the next call of the file system, or "off" or "done"
  rc,      \* "ok" or "error"
  boot_count,        \* its copy in memory
  file_test_pattern, \* likewise
  written, \* the copy in memory was written to the open file
  count,   \* /lfs/boot_count: its byte, Empty or Absent
  pattern, \* /lfs/pattern.bin: its bytes, Empty or Absent
  before   \* history: the two files as the boot found them, or wiped them

flash == <<count, pattern>>
ram == <<boot_count, file_test_pattern>>
lfs == <<wipe, stage, rc, ram, written, flash, before>>

-----------------------------------------------------------------------------
(* The pattern.                                                            *)

x55 == 85 % Byte
xAA == 170 % Byte
Plus(a, b) == (a + b) % Byte

init_pattern == [i \in Place |-> IF i = Size - 1 THEN xAA
                                 ELSE IF i % 8 = 0 THEN Plus(i \div 8, 1) ELSE x55]

\* incr_pattern that looks at the first byte after changing it.
FillAfter(p) ==
  LET fill == IF Plus(p[0], 1) % 2 = 0 THEN xAA ELSE x55
  IN  [i \in Place |-> IF i = Size - 1 \/ i % 8 = 0 THEN Plus(p[i], 1) ELSE fill]

incr_pattern(p) ==
  LET fill == IF p[0] % 2 = 0 THEN xAA ELSE x55
  IN  [i \in Place |-> IF i = Size - 1 \/ i % 8 = 0 THEN Plus(p[i], 1) ELSE fill]

LfsInit == /\ wipe \in BOOLEAN
        /\ stage = "off" /\ rc = "ok" /\ written = FALSE
        /\ boot_count = 0 /\ file_test_pattern = [i \in Place |-> 0]
        /\ count = Absent /\ pattern = Absent /\ before = flash

-----------------------------------------------------------------------------
(* Calls.                                                                  *)

Goto(s) == stage' = s /\ UNCHANGED <<wipe, rc>>
Fail(s) == stage' = s /\ rc' = "error" /\ UNCHANGED <<wipe, ram, written, flash, before>>

Boot == /\ stage = "off"
        /\ stage' = "mount" /\ rc' = "ok" /\ before' = flash
        /\ UNCHANGED <<wipe, ram, written, flash>>

\* littlefs_flash_erase and fs_mount, which formats what was erased; either may
\* fail, before anything was erased or after.
littlefs_mount ==
  /\ stage = "mount"
  /\ \/ /\ Goto("list")
        /\ count' = IF wipe THEN Absent ELSE count
        /\ pattern' = IF wipe THEN Absent ELSE pattern
        /\ before' = flash'
        /\ UNCHANGED <<ram, written>>
     \/ Fail("done")
     \/ /\ wipe /\ stage' = "done" /\ rc' = "error"
        /\ count' = Absent /\ pattern' = Absent /\ before' = flash'
        /\ UNCHANGED <<wipe, ram, written>>

\* fs_statvfs and lsdir
lsdir == /\ stage = "list"
         /\ \/ Goto("openCount") /\ UNCHANGED <<ram, written, flash, before>>
            \/ Fail("unmount")

-----------------------------------------------------------------------------
(* littlefs_increase_infile_value                                          *)

OpenCount ==
  /\ stage = "openCount"
  /\ \/ /\ Goto("readCount") /\ boot_count' = 0
        /\ count' = IF count = Absent THEN Empty ELSE count
        /\ UNCHANGED <<file_test_pattern, written, pattern, before>>
     \/ Fail("unmount")

\* An empty file yields no byte.
ReadCount ==
  /\ stage = "readCount"
  /\ \/ /\ Goto("writeCount") /\ boot_count' = IF count = Empty THEN 0 ELSE count
        /\ UNCHANGED <<file_test_pattern, written, flash, before>>
     \/ Fail("closeCount")

\* fs_seek and fs_write
WriteCount ==
  /\ stage = "writeCount"
  /\ \/ /\ Goto("closeCount") /\ boot_count' = Plus(boot_count, 1) /\ written' = TRUE
        /\ UNCHANGED <<file_test_pattern, flash, before>>
     \/ Fail("closeCount")

\* CloseCount that returns what fs_close returned.
CloseOnly ==
  /\ stage = "closeCount" /\ written' = FALSE
  /\ \/ Goto("openPattern") /\ count' = IF written THEN boot_count ELSE count
     \/ /\ stage' = "unmount" /\ rc' = "error" /\ UNCHANGED wipe
        /\ count' \in {count, IF written THEN boot_count ELSE count}
  /\ UNCHANGED <<ram, pattern, before>>

CloseCount ==
  /\ stage = "closeCount" /\ written' = FALSE
  /\ \/ /\ Goto(IF rc = "ok" THEN "openPattern" ELSE "unmount")
        /\ count' = IF written THEN boot_count ELSE count
     \/ /\ stage' = "unmount" /\ rc' = "error" /\ UNCHANGED wipe
        /\ count' \in {count, IF written THEN boot_count ELSE count}
  /\ UNCHANGED <<ram, pattern, before>>

-----------------------------------------------------------------------------
(* littlefs_binary_file_adj                                                *)

OpenPattern ==
  /\ stage = "openPattern"
  /\ \/ /\ Goto("readPattern")
        /\ pattern' = IF pattern = Absent THEN Empty ELSE pattern
        /\ UNCHANGED <<ram, written, count, before>>
     \/ Fail("unmount")

\* fs_stat, then init_pattern or fs_read and incr_pattern
ReadPattern ==
  /\ stage = "readPattern"
  /\ \/ /\ Goto("writePattern")
        /\ file_test_pattern' = IF pattern = Empty THEN init_pattern ELSE incr_pattern(pattern)
        /\ UNCHANGED <<boot_count, written, flash, before>>
     \/ Fail("closePattern")

\* fs_seek and fs_write
WritePattern ==
  /\ stage = "writePattern"
  /\ \/ Goto("closePattern") /\ written' = TRUE /\ UNCHANGED <<ram, flash, before>>
     \/ Fail("closePattern")

ClosePattern ==
  /\ stage = "closePattern" /\ written' = FALSE
  /\ \/ Goto("unmount") /\ pattern' = IF written THEN file_test_pattern ELSE pattern
     \/ /\ stage' = "unmount" /\ rc' = "error" /\ UNCHANGED wipe
        /\ pattern' \in {pattern, IF written THEN file_test_pattern ELSE pattern}
  /\ UNCHANGED <<ram, count, before>>

fs_unmount == stage = "unmount" /\ Goto("done") /\ UNCHANGED <<ram, written, flash, before>>

\* At any moment; a boot after main has returned is the same.
PowerLoss == /\ stage # "off"
             /\ stage' = "off" /\ rc' = "ok" /\ written' = FALSE
             /\ boot_count' = 0 /\ file_test_pattern' = [i \in Place |-> 0]
             /\ UNCHANGED <<wipe, flash, before>>

-----------------------------------------------------------------------------
Call == \/ littlefs_mount \/ lsdir \/ OpenCount \/ ReadCount \/ WriteCount \/ CloseCount
        \/ OpenPattern \/ ReadPattern \/ WritePattern \/ ClosePattern \/ fs_unmount
LfsNext == Boot \/ Call \/ PowerLoss
LfsSpec == LfsInit /\ [][LfsNext]_lfs

-----------------------------------------------------------------------------
(* What is expected of the files.                                          *)

Counts == Missing \cup Bytes

\* The pattern after k increments; Byte of them bring the bytes back, not the filling.
Filling(k) == IF k = 0 \/ k % 2 = 1 THEN x55 ELSE xAA
Proper(k) == [i \in Place |-> IF i = Size - 1 THEN Plus(xAA, k)
                              ELSE IF i % 8 = 0 THEN Plus(i \div 8 + 1, k) ELSE Filling(k)]
NextTurn(k) == IF k = Byte THEN 1 ELSE k + 1

NextCount(c) == IF c \in Missing THEN 1 ELSE Plus(c, 1)
FollowingPattern(p, q) ==
  \/ p \in Missing /\ q = Proper(0)
  \/ p \notin Missing /\ \E k \in 0 .. Byte : p = Proper(k) /\ q = Proper(NextTurn(k))

SameFile(old, new) == new = old \/ (old = Absent /\ new = Empty)

LfsTypeOK == /\ wipe \in BOOLEAN /\ written \in BOOLEAN /\ rc \in {"ok", "error"}
             /\ stage \in {"off", "mount", "list", "openCount", "readCount", "writeCount",
                        "closeCount", "openPattern", "readPattern", "writePattern",
                        "closePattern", "unmount", "done"}
             /\ count \in Counts
             /\ boot_count \in Bytes /\ file_test_pattern \in [Place -> Bytes]

(***************************************************************************)
(* The pattern file is never torn: through power loss, failed calls and    *)
(* the wrap of its bytes it holds the pattern of some number of            *)
(* increments, or nothing.                                                 *)
(***************************************************************************)
PatternProper == pattern \in Missing \cup {Proper(k) : k \in 0 .. Byte}

(***************************************************************************)
(* A boot advances each file at most once, the counter before the pattern, *)
(* and both when it ends without an error: it never loses a count, counts  *)
(* twice, or leaves the pattern ahead of the counter.                      *)
(***************************************************************************)
BootAdvances ==
  stage \notin {"off", "mount"} =>
    LET counted == count = NextCount(before[1])
        turned == FollowingPattern(before[2], pattern)
    IN  \/ counted /\ turned
        \/ counted /\ SameFile(before[2], pattern) /\ ~(stage = "done" /\ rc = "ok")
        \/ /\ SameFile(before[1], count) /\ SameFile(before[2], pattern)
           /\ ~(stage = "done" /\ rc = "ok")
=============================================================================

--------------------------- MODULE ProgramsProofs ---------------------------
(***************************************************************************)
(* Proofs about UsbHid, for every width of the value, FlashTest, for every *)
(* number of sectors, RtcClock, for every counter and clock, SerialLine,   *)
(* for every alphabet and line length, and LittleFs, for every size of the *)
(* file and of a byte.                                                     *)
(***************************************************************************)
EXTENDS UsbHid, FlashTest, RtcClock, SerialLine, LittleFs, SequenceTheorems,
        WellFoundedInduction, TLAPS

-----------------------------------------------------------------------------
(* UsbHid.                                                                 *)

(***************************************************************************)
(* The inductive invariant: the two properties also need that the          *)
(* program's view of the bus follows the host's, and that a host which has *)
(* seen a reset has an empty endpoint.                                     *)
(***************************************************************************)
HidInv == /\ HidTypeOK /\ EndpointGuarded /\ BusyHasReason
          /\ up # "ready" => bus = "off" /\ at # "write" /\ ~inDone
          /\ bus = "configured" => configured
          /\ bus = "default" => ~configured /\ pipe = None /\ ~inDone
          /\ ~open => pipe = None

LEMMA Values == 0 \in 0 .. Wrap - 1 /\ None \in 0 .. Wrap /\ 0 .. Wrap - 1 \subseteq 0 .. Wrap
BY WrapAssumption DEF None

LEMMA HidInvInit == Init => HidInv
BY Values DEF Init, HidInv, HidTypeOK, EndpointGuarded, BusyHasReason

LEMMA HidInvNext == HidInv /\ [Next]_vars => HidInv'
<1> SUFFICES ASSUME HidInv, [Next]_vars PROVE HidInv'
  OBVIOUS
<1> USE Values DEF HidInv, HidTypeOK, EndpointGuarded, BusyHasReason, host
<1>1. CASE main
  BY <1>1 DEF main
<1>2. CASE report_event_handler
  BY <1>2, WrapAssumption DEF report_event_handler, k_work_submit
<1>3. CASE send_report
  BY <1>3 DEF send_report
<1>4. CASE Write
  <2>1. /\ at = "write" /\ at' = "idle" /\ busy /\ ~inDone /\ pipe' \in 0 .. Wrap
        /\ failed' \in BOOLEAN /\ (~open => pipe' = None /\ failed')
        /\ pipe' = value \/ failed'
    BY <1>4 DEF Write
  <2>2. value # None
    BY WrapAssumption DEF None
  <2>3. UNCHANGED <<value, busy, configured, work, up, bus, open, inDone>>
    BY <1>4 DEF Write
  <2> QED BY <2>1, <2>2, <2>3
<1>5. CASE int_in_ready_cb
  BY <1>5 DEF int_in_ready_cb
<1>6. CASE on_idle_cb
  BY <1>6 DEF on_idle_cb, k_work_submit
<1>7. CASE ResetStatus
  BY <1>7 DEF ResetStatus
<1>8. CASE ConfiguredStatus
  BY <1>8 DEF ConfiguredStatus
<1>9. CASE HostPolls
  BY <1>9 DEF HostPolls
<1>10. CASE HostResets
  BY <1>10 DEF HostResets
<1>11. CASE Unplug
  BY <1>11 DEF Unplug
<1>12. CASE CallNull
  BY <1>12 DEF CallNull
<1>13. CASE UNCHANGED vars
  BY <1>13 DEF vars
<1> QED
  BY <1>1, <1>2, <1>3, <1>4, <1>5, <1>6, <1>7, <1>8, <1>9, <1>10, <1>11, <1>12, <1>13
     DEF Next, Callback

LEMMA HidInvariant == Spec => []HidInv
BY HidInvInit, HidInvNext, PTL DEF Spec

(***************************************************************************)
(* Types, and that nothing waits in an endpoint the driver has closed.     *)
(***************************************************************************)
THEOREM HidTypeCorrect == Spec => []HidTypeOK
BY HidInvariant, PTL DEF HidInv

(***************************************************************************)
(* hid_ep_in_busy keeps send_report from writing over a report that the    *)
(* host has not taken, through every order of resets, configurations,      *)
(* polls and callbacks.                                                    *)
(***************************************************************************)
THEOREM BitGuardsEndpoint == Spec => []EndpointGuarded
BY HidInvariant, PTL DEF HidInv

(***************************************************************************)
(* hid_ep_in_busy is not left set on a configured bus for nothing.         *)
(***************************************************************************)
THEOREM BitIsCleared == Spec => []BusyHasReason
BY HidInvariant, PTL DEF HidInv

-----------------------------------------------------------------------------
(* FlashTest.  Once multi_sector_test has found the sectors erased, those  *)
(* still to be written begin with 0xff, and the one just written does      *)
(* unless the write reached it.                                            *)

Erased == {"blank", "begins"}

FlashInv ==
  /\ FlashTestTypeOK
  /\ doing \in {"erase", "check"} \/ test = "single" => ~verified
  /\ doing = "check" => test = "multi" /\ \A s \in Sector : s < offs => cell[s] \in Erased
  /\ verified /\ doing = "write" => \A s \in Sector : s >= offs => cell[s] \in Erased
  /\ verified /\ doing = "compare" => /\ \A s \in Sector : s > offs => cell[s] \in Erased
                                      /\ wrote \/ cell[offs] \in Erased

LEMMA FlashInit == FlashTestInit => FlashInv
<1>1. 0 \in Sector
  BY SectorsAssumption DEF Sector
<1> QED BY <1>1 DEF FlashTestInit, FlashInv, FlashTestTypeOK

LEMMA LeavesKeeps ==
  ASSUME FlashInv, Leaves, cell' \in [Sector -> Content], verified' = verified, wrote' \in BOOLEAN
  PROVE  FlashInv'
<1>1. 0 \in Sector
  BY SectorsAssumption DEF Sector
<1> QED BY <1>1 DEF Leaves, Does, FlashInv, FlashTestTypeOK

LEMMA FlashNext == FlashInv /\ [FlashTestNext]_flashTest => FlashInv'
<1> SUFFICES ASSUME FlashInv, [FlashTestNext]_flashTest PROVE FlashInv'
  OBVIOUS
<1>0. 0 \in Sector /\ Sector \subseteq Nat /\ \A s \in Sector : s <= Sectors - 1
  BY SectorsAssumption DEF Sector
<1>1. ASSUME NEW ok \in BOOLEAN, flash_erase(ok) PROVE FlashInv'
  <2>1. /\ cell' \in [Sector -> Content] /\ doing = "erase" /\ offs' = 0
        /\ doing' = (IF ok /\ test = "multi" THEN "check" ELSE "write")
        /\ UNCHANGED <<test, verified, wrote>>
    BY <1>1 DEF flash_erase, Does
  <2>2. ~verified
    BY <2>1 DEF FlashInv
  <2>3. doing' = "check" => test = "multi"
    BY <2>1
  <2>4. FlashTestTypeOK'
    BY <1>0, <2>1 DEF FlashInv, FlashTestTypeOK
  <2>5. \A s \in Sector : ~(s < offs')
    BY <1>0, <2>1
  <2> QED BY <2>1, <2>2, <2>3, <2>4, <2>5 DEF FlashInv
<1>2. CASE Check
  <2>1. doing = "check" /\ test = "multi" /\ UNCHANGED <<cell, wrote>> /\ FlashTestTypeOK
        /\ ~verified /\ \A s \in Sector : s < offs => cell[s] \in Erased
    BY <1>2 DEF Check, FlashInv
  <2>2. CASE Leaves /\ UNCHANGED verified
    BY <2>1, <2>2, LeavesKeeps DEF FlashTestTypeOK
  <2>3. CASE cell[offs] \in Erased /\ offs = Sectors - 1 /\ Does("write", 0) /\ verified' = TRUE /\ UNCHANGED test
    <3>1. \A s \in Sector : cell[s] \in Erased
      <4>1. \A s \in Sector : s < offs \/ s = offs
        BY <1>0, <2>3, SectorsAssumption
      <4> QED BY <2>1, <2>3, <4>1
    <3> QED BY <1>0, <2>1, <2>3, <3>1 DEF FlashInv, FlashTestTypeOK, Does
  <2>4. CASE cell[offs] \in Erased /\ offs # Sectors - 1 /\ Does("check", offs + 1) /\ UNCHANGED <<verified, test>>
    <3>1. offs + 1 \in Sector /\ \A s \in Sector : s < offs + 1 => s < offs \/ s = offs
      BY <2>1, <2>4, SectorsAssumption DEF FlashTestTypeOK, Sector
    <3>2. \A s \in Sector : s < offs + 1 => cell[s] \in Erased
      BY <2>1, <2>4, <3>1
    <3> QED BY <2>1, <2>4, <3>1, <3>2 DEF FlashInv, FlashTestTypeOK, Does
  <2> QED BY <1>2, <2>2, <2>3, <2>4 DEF Check, Erased
<1>3. CASE flash_write
  <2>1. doing = "write" /\ UNCHANGED verified /\ FlashTestTypeOK
        /\ (verified => \A s \in Sector : s >= offs => cell[s] \in Erased)
    BY <1>3 DEF flash_write, FlashInv
  <2>2. \A s \in Content : Written(s) \subseteq Content
    BY DEF Written, Content
  <2>3. CASE \E c \in Content : cell' = [cell EXCEPT ![offs] = c] /\ Leaves /\ UNCHANGED wrote
    BY <2>1, <2>3, LeavesKeeps DEF FlashTestTypeOK
  <2>4. CASE wrote' = TRUE /\ (\E c \in Written(cell[offs]) : cell' = [cell EXCEPT ![offs] = c])
             /\ Does("compare", offs) /\ UNCHANGED test
    <3>1. PICK c \in Written(cell[offs]) : cell' = [cell EXCEPT ![offs] = c]
      BY <2>4
    <3>2. offs \in Sector /\ cell \in [Sector -> Content] /\ c \in Content
      BY <2>1, <2>2 DEF FlashTestTypeOK
    <3>3. cell' \in [Sector -> Content] /\ \A s \in Sector : s # offs => cell'[s] = cell[s]
      BY <3>1, <3>2
    <3>4. \A s \in Sector : s > offs => s >= offs /\ s # offs
      BY <1>0, <3>2
    <3> QED BY <2>1, <2>4, <3>2, <3>3, <3>4 DEF FlashInv, FlashTestTypeOK, Does
  <2>5. CASE wrote' = FALSE /\ UNCHANGED cell /\ Does("compare", offs) /\ UNCHANGED test
    <3>1. \A s \in Sector : s > offs => s >= offs
      BY <1>0, <2>1 DEF FlashTestTypeOK
    <3>2. offs \in Sector /\ offs >= offs
      BY <1>0, <2>1 DEF FlashTestTypeOK
    <3> QED BY <2>1, <2>5, <3>1, <3>2 DEF FlashInv, FlashTestTypeOK, Does
  <2> QED BY <1>3, <2>3, <2>4, <2>5 DEF flash_write
<1>4. ASSUME NEW equal \in BOOLEAN, Compare(equal) PROVE FlashInv'
  <2>1. doing = "compare" /\ Onward /\ UNCHANGED <<cell, verified, wrote>> /\ FlashTestTypeOK
        /\ (verified => \A s \in Sector : s > offs => cell[s] \in Erased)
    BY <1>4 DEF Compare, FlashInv
  <2>2. CASE Leaves
    BY <2>1, <2>2, LeavesKeeps DEF FlashTestTypeOK
  <2>3. CASE test = "multi" /\ offs # Sectors - 1 /\ Does("write", offs + 1) /\ UNCHANGED test
    <3>1. offs + 1 \in Sector /\ \A s \in Sector : s >= offs + 1 => s > offs
      BY <2>1, <2>3, SectorsAssumption DEF FlashTestTypeOK, Sector
    <3> QED BY <2>1, <2>3, <3>1 DEF FlashInv, FlashTestTypeOK, Does
  <2> QED BY <2>1, <2>2, <2>3 DEF Onward, FlashTestTypeOK
<1>5. CASE ReadFails
  BY <1>5, LeavesKeeps DEF ReadFails, FlashInv, FlashTestTypeOK
<1>6. CASE UNCHANGED flashTest
  BY <1>6 DEF flashTest, FlashInv, FlashTestTypeOK
<1> QED BY <1>1, <1>2, <1>3, <1>4, <1>5, <1>6 DEF FlashTestNext

LEMMA FlashInvariant == FlashTestSpec => []FlashInv
<1>1. FlashTestInit => FlashInv
  BY FlashInit
<1>2. FlashInv /\ [FlashTestNext]_flashTest => FlashInv'
  BY FlashNext
<1> QED BY <1>1, <1>2, PTL DEF FlashTestSpec

(***************************************************************************)
(* The test never leaves the sectors it was given.                         *)
(***************************************************************************)
THEOREM FlashTypeCorrect == FlashTestSpec => []FlashTestTypeOK
<1>1. FlashInv => FlashTestTypeOK
  BY DEF FlashInv
<1> QED BY <1>1, FlashInvariant, PTL

(***************************************************************************)
(* A "Good!!" of multi_sector_test after a verified erase means that the   *)
(* bytes were written, whatever the flash held.                            *)
(***************************************************************************)
THEOREM GoodIsWritten == FlashTestSpec => []GoodMeansWritten
<1>1. FlashInv => GoodMeansWritten
  BY DEF FlashInv, GoodMeansWritten, Erased
<1> QED BY <1>1, FlashInvariant, PTL

-----------------------------------------------------------------------------
(* RtcClock.                                                               *)

RtcInv == RtcTypeOK /\ (armed => ticks < Span)

LEMMA RtcStarts == RtcInit => RtcInv
BY RtcAssumption DEF RtcInit, RtcInv, RtcTypeOK

LEMMA RtcSteps == RtcInv /\ [RtcNext]_rtc => RtcInv'
<1> SUFFICES ASSUME RtcInv, [RtcNext]_rtc PROVE RtcInv'
  OBVIOUS
<1> USE RtcAssumption
<1>1. CASE Second
  <2>1. now' \in 0 .. Span - 1
    BY <1>1 DEF Second, RtcInv, RtcTypeOK
  <2>2. away' \in 0 .. Span - 1
    BY <1>1 DEF Second, RtcInv, RtcTypeOK, Due
  <2>3. slept' \in 0 .. Late
    BY <1>1 DEF Second, RtcInv, RtcTypeOK
  <2> QED BY <1>1, <2>1, <2>2, <2>3 DEF Second, RtcInv, RtcTypeOK
<1>2. CASE test_counter_interrupt_fn
  <2>1. armed /\ ticks \in 0 .. Span - 1
    BY <1>2 DEF test_counter_interrupt_fn, Due, RtcInv, RtcTypeOK
  <2>2. PICK delay \in 0 .. 2 * Span : Set(delay)
    BY <1>2, <2>1 DEF test_counter_interrupt_fn
  <2>3. ticks' = delay /\ (armed' <=> delay < Span) /\ away' \in {0, delay} /\ (~armed' => away' = 0)
    BY <2>2 DEF Set
  <2>4. armed' \in BOOLEAN
    <3>1. armed' = (delay < Span)
      BY <2>2, Zenon DEF Set
    <3> QED BY <3>1, SMT
  <2>5. armed' => ticks' < Span
    BY <2>3
  <2>6. away' \in 0 .. Span - 1
    <3>1. CASE delay < Span
      BY <2>3, <3>1
    <3>2. CASE ~(delay < Span)
      BY <2>3, <3>2
    <3> QED BY <3>1, <3>2
  <2> QED BY <1>2, <2>3, <2>4, <2>5, <2>6 DEF test_counter_interrupt_fn, clock, RtcInv, RtcTypeOK
<1>3. CASE CounterFails
  BY <1>3 DEF CounterFails, clock, RtcInv, RtcTypeOK
<1>4. CASE print_date_time
  <2>1. PICK m \in 0 .. Hour :
             minutes' = Carry(hours, m)[2] /\ hours' = Face(Carry(hours, m)[1])
    BY <1>4 DEF print_date_time, RtcInv, RtcTypeOK
  <2>2. minutes' \in 0 .. Hour - 1
    BY <2>1 DEF Carry
  <2>3. hours' \in 1 .. Noon + 2
    BY <2>1 DEF Carry, Face, RtcInv, RtcTypeOK
  <2>4. remaining_seconds' \in 0 .. Minute - 1 /\ slept' = 0
    BY <1>4 DEF print_date_time, RtcInv, RtcTypeOK
  <2> QED BY <1>4, <2>2, <2>3, <2>4 DEF print_date_time, alarm, RtcInv, RtcTypeOK
<1>5. CASE UNCHANGED rtc
  BY <1>5 DEF rtc, alarm, clock, RtcInv, RtcTypeOK
<1> QED BY <1>1, <1>2, <1>3, <1>4, <1>5 DEF RtcNext

(***************************************************************************)
(* The clock stays on its face, and the counter and its alarm within the   *)
(* span.                                                                   *)
(***************************************************************************)
THEOREM RtcTypeCorrect == RtcSpec => []RtcTypeOK
<1>1. RtcInit => RtcInv
  BY RtcStarts
<1>2. RtcInv /\ [RtcNext]_rtc => RtcInv'
  BY RtcSteps
<1>3. RtcInv => RtcTypeOK
  BY DEF RtcInv
<1> QED BY <1>1, <1>2, <1>3, PTL DEF RtcSpec

\* Quotients and remainders, with the quotient under the provers' eyes.
LEMMA DivMod ==
  ASSUME NEW m \in Nat \ {0}, NEW a \in Int
  PROVE  /\ a = m * (a \div m) + (a % m)
         /\ a % m \in 0 .. m - 1 /\ a \div m \in Int
OBVIOUS

LEMMA NoQuotient ==
  ASSUME NEW m \in Nat \ {0}, NEW q \in Int, NEW r \in 0 .. m - 1, NEW t \in 0 .. m - 1,
         m * q + r = t
  PROVE  q = 0
<1>1. CASE q > 0
  <2>1. m * q >= m
    BY <1>1
  <2> QED BY <2>1
<1>2. CASE q < 0
  <2>1. m * q <= -m
    BY <1>2
  <2> QED BY <2>1
<1> QED BY <1>1, <1>2

LEMMA Remainder ==
  ASSUME NEW m \in Nat \ {0}, NEW q \in Int, NEW t \in 0 .. m - 1
  PROVE  (m * q + t) % m = t
<1> DEFINE a == m * q + t
           d == a \div m
           r == a % m
<1>1. a \in Int
  OBVIOUS
<1>2. a = m * d + r /\ r \in 0 .. m - 1 /\ d \in Int
  BY <1>1, DivMod
<1> HIDE DEF d, r
<1>3. m * (d - q) + r = t /\ d - q \in Int
  BY <1>2
<1>4. d - q = 0
  BY <1>2, <1>3, NoQuotient
<1>5. r = t
  BY <1>2, <1>3, <1>4
<1> QED BY <1>5 DEF r

LEMMA LaterRemainder ==
  ASSUME NEW m \in Nat \ {0}, NEW a \in Int, NEW b \in 0 .. m - 1
  PROVE  (a + b) % m = IF (a % m) + b < m THEN (a % m) + b ELSE (a % m) + b - m
<1> DEFINE d == a \div m
           r == a % m
<1>1. a = m * d + r /\ r \in 0 .. m - 1 /\ d \in Int
  BY DivMod
<1> HIDE DEF d, r
<1>2. CASE r + b < m
  <2>1. r + b \in 0 .. m - 1
    BY <1>1, <1>2
  <2>2. (m * d + (r + b)) % m = r + b
    BY <1>1, <2>1, Remainder
  <2>3. m * d + (r + b) = a + b
    BY <1>1
  <2> QED BY <1>2, <2>2, <2>3 DEF r
<1>3. CASE ~(r + b < m)
  <2>1. r + b - m \in 0 .. m - 1 /\ d + 1 \in Int
    BY <1>1, <1>3
  <2>2. (m * (d + 1) + (r + b - m)) % m = r + b - m
    BY <1>1, <2>1, Remainder
  <2>3. m * (d + 1) + (r + b - m) = a + b
    BY <1>1
  <2> QED BY <1>3, <2>2, <2>3 DEF r
<1> QED BY <1>2, <1>3

\* The next minute of the day, on a face of Noon hours.
MinuteOfDay(h, m) == (h % Noon) * Hour + m

LEMMA NextMinute ==
  ASSUME NEW h \in 1 .. Noon, NEW m \in 0 .. Hour - 1
  PROVE  /\ MinuteOfDay(h, m) \in 0 .. Noon * Hour - 1
         /\ Face(Carry(h, m)[1]) = h /\ Carry(h, m)[2] = m
         /\ Face(Carry(h, m + 1)[1]) \in 1 .. Noon
         /\ Carry(h, m + 1)[2] \in 0 .. Hour - 1
         /\ LET next == MinuteOfDay(Face(Carry(h, m + 1)[1]), Carry(h, m + 1)[2])
            IN  \/ next = MinuteOfDay(h, m) + 1
                \/ next = MinuteOfDay(h, m) + 1 - Noon * Hour
<1> DEFINE F(k) == IF k < Noon THEN k ELSE 0
<1>1. Noon \in Nat \ {0} /\ Hour \in Nat \ {0}
  BY RtcAssumption
<1>2. ASSUME NEW k \in 1 .. Noon PROVE k % Noon = F(k)
  <2>1. CASE k < Noon
    <3>1. k \in 0 .. Noon - 1 /\ Noon * 0 + k = k
      BY <1>1, <2>1
    <3> QED BY <1>1, <2>1, <3>1, Remainder
  <2>2. CASE k = Noon
    <3>1. 0 \in 0 .. Noon - 1 /\ Noon * 1 + 0 = k
      BY <1>1, <2>2
    <3>2. (Noon * 1 + 0) % Noon = 0
      BY <1>1, <3>1, Remainder
    <3> QED BY <2>2, <3>1, <3>2
  <2> QED BY <1>1, <2>1, <2>2
<1>3. F(h) \in 0 .. Noon - 1 /\ MinuteOfDay(h, m) = F(h) * Hour + m
  BY <1>1, <1>2 DEF MinuteOfDay
<1>4. MinuteOfDay(h, m) \in 0 .. Noon * Hour - 1
  <2> HIDE DEF F
  <2>1. F(h) * Hour >= 0 /\ F(h) * Hour <= (Noon - 1) * Hour /\ (Noon - 1) * Hour = Noon * Hour - Hour
    BY <1>1, <1>3
  <2>2. F(h) * Hour \in Int /\ Noon * Hour \in Int
    BY <1>1, <1>3
  <2> QED BY <1>1, <1>3, <2>1, <2>2
<1>5. Face(Carry(h, m)[1]) = h /\ Carry(h, m)[2] = m
  BY <1>1 DEF Carry, Face
<1>6. CASE m + 1 < Hour
  <2>1. Face(Carry(h, m + 1)[1]) = h /\ Carry(h, m + 1)[2] = m + 1
    BY <1>1, <1>6 DEF Carry, Face
  <2>2. MinuteOfDay(h, m + 1) = MinuteOfDay(h, m) + 1
    <3> HIDE DEF F
    <3>1. MinuteOfDay(h, m + 1) = F(h) * Hour + (m + 1)
      BY <1>2 DEF MinuteOfDay
    <3> QED BY <1>1, <1>3, <3>1
  <2>3. m + 1 \in 0 .. Hour - 1
    BY <1>1, <1>6
  <2> QED BY <1>4, <1>5, <2>1, <2>2, <2>3
<1>7. CASE m + 1 = Hour
  <2>1. Face(Carry(h, m + 1)[1]) = (IF h = Noon THEN 1 ELSE h + 1) /\ Carry(h, m + 1)[2] = 0
    BY <1>1, <1>7 DEF Carry, Face
  <2> DEFINE g == IF h = Noon THEN 1 ELSE h + 1
  <2>2. g \in 1 .. Noon
    BY <1>1
  <2>3. MinuteOfDay(g, 0) = F(g) * Hour
    <3> HIDE DEF F, g
    <3>1. MinuteOfDay(g, 0) = F(g) * Hour + 0 /\ F(g) \in Int
      BY <1>2, <2>2 DEF MinuteOfDay, F
    <3> QED BY <1>1, <3>1
  <2>4. F(g) = F(h) + 1 \/ (F(g) = 0 /\ F(h) = Noon - 1)
    BY <1>1
  <2> HIDE DEF F, g
  <2>5. (F(h) + 1) * Hour = F(h) * Hour + Hour /\ (Noon - 1) * Hour = Noon * Hour - Hour
        /\ 0 * Hour = 0 /\ F(h) * Hour \in Int /\ Noon * Hour \in Int
    BY <1>1, <1>3
  <2>6. \/ MinuteOfDay(g, 0) = MinuteOfDay(h, m) + 1
        \/ MinuteOfDay(g, 0) = MinuteOfDay(h, m) + 1 - Noon * Hour
    BY <1>1, <1>3, <1>7, <2>3, <2>4, <2>5
  <2>7. Face(Carry(h, m + 1)[1]) = g
    BY <2>1 DEF g
  <2>8. 0 \in 0 .. Hour - 1
    BY <1>1
  <2> QED BY <1>4, <1>5, <2>1, <2>2, <2>6, <2>7, <2>8
<1> QED BY <1>1, <1>6, <1>7

\* How far the time of day moves.
LEMMA Moved ==
  ASSUME NEW n \in Nat, n > 1, NEW u \in 0 .. n - 1, NEW v \in 0 .. n - 1,
         NEW a \in 0 .. Minute - 1, NEW b \in 0 .. Minute - 1, NEW d \in 0 .. Minute,
         \/ v = u /\ b - a = d
         \/ (v = u + 1 \/ v = u + 1 - n) /\ b = 0 /\ Minute - a = d
  PROVE  ((v * Minute + b) - (u * Minute + a)) % (n * Minute) = d
<1>1. Minute \in Nat \ {0}
  BY RtcAssumption
<1>2. n * Minute >= 2 * Minute /\ n * Minute \in Nat \ {0} /\ d \in 0 .. n * Minute - 1
  <2>1. n * Minute >= 2 * Minute /\ n * Minute \in Int
    BY <1>1
  <2> QED BY <1>1, <2>1
<1>3. \E q \in Int : (v * Minute + b) - (u * Minute + a) = (n * Minute) * q + d
  <2>1. CASE v = u /\ b - a = d
    <3>1. u * Minute \in Int
      BY <1>1
    <3>2. (v * Minute + b) - (u * Minute + a) = d
      BY <1>1, <2>1, <3>1
    <3>3. (n * Minute) * 0 + d = d
      BY <1>2
    <3> QED BY <3>2, <3>3
  <2>2. CASE v = u + 1 /\ b = 0 /\ Minute - a = d
    <3>1. (u + 1) * Minute = u * Minute + Minute /\ u * Minute \in Int
      BY <1>1
    <3>2. (v * Minute + b) - (u * Minute + a) = d
      BY <1>1, <2>2, <3>1
    <3>3. (n * Minute) * 0 + d = d
      BY <1>2
    <3> QED BY <3>2, <3>3
  <2>3. CASE v = u + 1 - n /\ b = 0 /\ Minute - a = d
    <3>1. (u + 1 - n) * Minute = u * Minute + Minute - n * Minute
          /\ u * Minute \in Int /\ n * Minute \in Int
      BY <1>1
    <3>2. (v * Minute + b) - (u * Minute + a) = d - n * Minute
      BY <1>1, <2>3, <3>1
    <3>3. (n * Minute) * (-1) + d = d - n * Minute
      BY <1>2
    <3> QED BY <3>2, <3>3
  <2> QED BY <2>1, <2>2, <2>3
<1> QED BY <1>2, <1>3, Remainder

(***************************************************************************)
(* The inductive invariant of the printed clock: the counter stands slept  *)
(* seconds after the reading whose second was printed, or has not been     *)
(* read yet.                                                               *)
(***************************************************************************)
SinceReading == now = slept - 1 /\ remaining_seconds = 0
ReadAt(r) == r % Minute = remaining_seconds /\ (now = r + slept \/ now = r + slept - Span)

ReadInv == sample # "alarm" => SinceReading \/ \E r \in 0 .. Span - 1 : ReadAt(r)

LEMMA ReadStarts == RtcInit => ReadInv
BY DEF RtcInit, ReadInv, SinceReading

LEMMA ReadSteps == RtcInv /\ ReadInv /\ [RtcNext]_rtc => ReadInv'
<1> SUFFICES ASSUME RtcInv, ReadInv, [RtcNext]_rtc PROVE ReadInv'
  OBVIOUS
<1>1. CASE UNCHANGED <<sample, now, clock>>
  BY <1>1 DEF ReadInv, SinceReading, ReadAt, clock
<1>2. CASE test_counter_interrupt_fn \/ CounterFails \/ UNCHANGED rtc
  BY <1>1, <1>2 DEF test_counter_interrupt_fn, CounterFails, rtc
<1>3. CASE print_date_time
  <2>1. now \in 0 .. Span - 1 /\ Span \in Nat
    BY RtcAssumption DEF RtcInv, RtcTypeOK
  <2>2. now' = now /\ slept' = 0 /\ remaining_seconds' = now % Minute
    BY <1>3 DEF print_date_time
  <2>3. now = now + 0
    BY <2>1
  <2> QED BY <2>1, <2>2, <2>3 DEF ReadInv, ReadAt
<1>4. CASE Second
  <2>1. now \in 0 .. Span - 1 /\ slept \in 0 .. Late /\ Span \in Nat /\ Late \in Nat /\ Late < Span - 1
    BY RtcAssumption DEF RtcInv, RtcTypeOK
  <2>2. now' = IF now = Span - 1 THEN 0 ELSE now + 1
    <3>1. now % Span = now /\ now \in Int /\ 1 \in 0 .. Span - 1 /\ Span \in Nat \ {0}
      <4>1. Span * 0 + now = now
        BY <2>1
      <4> QED BY <2>1, <4>1, Remainder, RtcAssumption
    <3>2. (now + 1) % Span = IF now + 1 < Span THEN now + 1 ELSE now + 1 - Span
      BY <3>1, LaterRemainder
    <3> QED BY <1>4, <2>1, <3>2 DEF Second
  <2>3. SUFFICES ASSUME sample # "alarm" PROVE ReadInv'
    BY <1>4 DEF Second, ReadInv
  <2>4. slept < Late /\ slept' = slept + 1 /\ remaining_seconds' = remaining_seconds
    BY <1>4, <2>3 DEF Second
  <2>5. CASE SinceReading
    BY <2>1, <2>2, <2>4, <2>5 DEF SinceReading, ReadInv
  <2>6. ASSUME NEW r \in 0 .. Span - 1, ReadAt(r) PROVE ReadAt(r)'
    BY <2>1, <2>2, <2>4, <2>6 DEF ReadAt
  <2> QED BY <2>3, <2>5, <2>6 DEF ReadInv
<1> QED BY <1>2, <1>3, <1>4 DEF RtcNext

\* What a reading says about the time that passed.
LEMMA Passed ==
  ASSUME RtcInv, ReadInv, sample # "alarm", slept > 0, ~Skipped
  PROVE  \/ now % Minute # 0 /\ (now % Minute) - remaining_seconds = slept
         \/ now % Minute = 0 /\ Minute - remaining_seconds \in slept .. Minute
<1> DEFINE s == now % Minute
           k == Span % Minute
<1>1. /\ now \in 0 .. Span - 1 /\ slept \in 1 .. Late /\ remaining_seconds \in 0 .. Minute - 1
      /\ Span \in Nat /\ Late \in Nat /\ Minute \in Nat \ {0} /\ Late < Minute /\ Minute < Span
  BY RtcAssumption DEF RtcInv, RtcTypeOK
<1>2. now < slept => s = now
  <2>1. SUFFICES ASSUME now < slept PROVE s = now
    OBVIOUS
  <2>2. now \in 0 .. Minute - 1 /\ Minute * 0 + now = now
    BY <1>1, <2>1
  <2> QED BY <1>1, <2>2, Remainder
<1>3. s \in 0 .. Minute - 1 /\ (s # 0 => s >= slept)
  BY <1>1, DivMod DEF Skipped
<1>4. k = 0 \/ k >= Late
  BY FaceAssumption
<1> HIDE DEF s, k
<1>5. CASE SinceReading
  <2>1. now < slept /\ now = slept - 1 /\ remaining_seconds = 0
    BY <1>1, <1>5 DEF SinceReading
  <2>2. s = 0 /\ slept = 1
    BY <1>1, <1>2, <1>3, <2>1
  <2> QED BY <1>1, <2>1, <2>2 DEF s
<1>6. ASSUME NEW r \in 0 .. Span - 1, ReadAt(r)
      PROVE  \/ s # 0 /\ s - remaining_seconds = slept
             \/ s = 0 /\ Minute - remaining_seconds \in slept .. Minute
  <2>1. r \in Int /\ slept \in 0 .. Minute - 1 /\ r % Minute = remaining_seconds
    BY <1>1, <1>6 DEF ReadAt
  <2>2. (r + slept) % Minute = IF remaining_seconds + slept < Minute THEN remaining_seconds + slept
                               ELSE remaining_seconds + slept - Minute
    BY <1>1, <2>1, LaterRemainder
  <2>3. CASE now = r + slept
    <3>1. s = IF remaining_seconds + slept < Minute THEN remaining_seconds + slept
              ELSE remaining_seconds + slept - Minute
      BY <2>2, <2>3 DEF s
    <3> QED BY <1>1, <1>3, <3>1
  <2>4. CASE now = r + slept - Span
    <3>1. s = 0 /\ now = 0
      BY <1>1, <1>2, <1>3, <2>4
    <3>2. r + slept = Span
      BY <1>1, <2>4, <3>1
    <3>3. k = IF remaining_seconds + slept < Minute THEN remaining_seconds + slept
              ELSE remaining_seconds + slept - Minute
      BY <2>2, <3>2 DEF k
    <3> QED BY <1>1, <1>4, <3>1, <3>3
  <2> QED BY <1>6, <2>3, <2>4 DEF ReadAt
<1> QED BY <1>5, <1>6 DEF ReadInv, s

(***************************************************************************)
(* ClockForward (see RtcClock): for every span of the counter that does    *)
(* not end just behind a full minute, and every face, the printed clock is *)
(* never late unless second 0 passed between two readings.                 *)
(***************************************************************************)
THEOREM ClockGoesForward == RtcSpec => ClockForward
<1> DEFINE Step == slept' < slept /\ hours <= Noon /\ ~Skipped =>
                     /\ Advance \in slept .. Minute
                     /\ hours' \in 1 .. Noon /\ minutes' < Hour
<1>1. RtcInv /\ ReadInv /\ [RtcNext]_rtc => [Step]_rtc
  <2>1. SUFFICES ASSUME RtcInv, ReadInv, [RtcNext]_rtc, slept' < slept, hours <= Noon, ~Skipped
                 PROVE  /\ Advance \in slept .. Minute
                        /\ hours' \in 1 .. Noon /\ minutes' < Hour
    BY DEF rtc
  <2>2. /\ slept \in 0 .. Late /\ Late \in Nat /\ Minute \in Nat \ {0} /\ Hour \in Nat \ {0} /\ Hour > 1
        /\ Noon \in Nat \ {0}
        /\ remaining_seconds \in 0 .. Minute - 1 /\ hours \in 1 .. Noon /\ minutes \in 0 .. Hour - 1
        /\ now \in Int
    BY <2>1, RtcAssumption, FaceAssumption DEF RtcInv, RtcTypeOK
  <2>3. print_date_time
    <3>1. CASE UNCHANGED slept
      BY <2>1, <2>2, <3>1
    <3>2. CASE Second
      BY <2>1, <2>2, <3>2 DEF Second
    <3> QED BY <2>1, <3>1, <3>2 DEF RtcNext, test_counter_interrupt_fn, CounterFails, clock, rtc
  <2> DEFINE s == now % Minute
             m == IF s = 0 THEN minutes + 1 ELSE minutes
             u == MinuteOfDay(hours, minutes)
             v == MinuteOfDay(hours', minutes')
             d == IF s = 0 THEN Minute - remaining_seconds ELSE slept
  <2>4. /\ sample # "alarm" /\ slept > 0 /\ remaining_seconds' = s
        /\ minutes' = Carry(hours, m)[2] /\ hours' = Face(Carry(hours, m)[1])
    BY <2>3 DEF print_date_time
  <2>5. s \in 0 .. Minute - 1
    BY <2>2, DivMod
  <2>6. \/ s # 0 /\ s - remaining_seconds = slept
        \/ s = 0 /\ Minute - remaining_seconds \in slept .. Minute
    BY <2>1, <2>4, Passed
  <2> HIDE DEF s
  <2>7. /\ hours' \in 1 .. Noon /\ minutes' \in 0 .. Hour - 1 /\ u \in 0 .. Noon * Hour - 1
        /\ IF s = 0 THEN v = u + 1 \/ v = u + 1 - Noon * Hour ELSE v = u
    <3>1. CASE s = 0
      BY <2>2, <2>4, <3>1, NextMinute
    <3>2. CASE s # 0
      BY <2>2, <2>4, <3>2, NextMinute
    <3> QED BY <3>1, <3>2
  <2>8. v \in 0 .. Noon * Hour - 1
    BY <2>7, NextMinute
  <2>9. Noon * Hour \in Nat /\ Noon * Hour > 1
    <3>1. Noon * Hour >= 1 * Hour /\ Noon * Hour \in Int
      BY <2>2
    <3> QED BY <2>2, <3>1
  <2> HIDE DEF u, v
  <2>10. d \in 0 .. Minute /\ d \in slept .. Minute
    BY <2>2, <2>5, <2>6
  <2>11. ((v * Minute + s) - (u * Minute + remaining_seconds)) % ((Noon * Hour) * Minute) = d
    <3>1. \/ v = u /\ s - remaining_seconds = d
          \/ (v = u + 1 \/ v = u + 1 - Noon * Hour) /\ s = 0 /\ Minute - remaining_seconds = d
      BY <2>6, <2>7
    <3> HIDE DEF d
    <3> QED BY <2>2, <2>5, <2>7, <2>8, <2>9, <2>10, <3>1, Moved
  <2>12. Advance = ((v * Minute + s) - (u * Minute + remaining_seconds)) % ((Noon * Hour) * Minute)
    BY <2>4 DEF Advance, TimeOfDay, u, v, MinuteOfDay
  <2>13. Advance \in slept .. Minute
    <3> HIDE DEF d
    <3> QED BY <2>10, <2>11, <2>12
  <2>14. minutes' < Hour
    BY <2>2, <2>7
  <2> QED BY <2>7, <2>13, <2>14
<1>2. RtcInit => RtcInv /\ ReadInv
  BY RtcStarts, ReadStarts
<1>3. RtcInv /\ ReadInv /\ [RtcNext]_rtc => RtcInv' /\ ReadInv'
  BY RtcSteps, ReadSteps
<1> QED BY <1>1, <1>2, <1>3, PTL DEF RtcSpec, ClockForward

-----------------------------------------------------------------------------
(* SerialLine.  The strings it makes.                                      *)

Char == Digits \cup {Nul}

LEMMA LeastNatural == ASSUME NEW T \in SUBSET Nat, T # {}
                      PROVE  Min(T) \in T /\ \A i \in T : Min(T) <= i
<1>1. \E x \in T : \A y \in T : ~ (<<y, x>> \in OpToRel(<, Nat))
  BY NatLessThanWellFounded, WFMin, Zenon
<1>2. \A x, y \in Nat : ~ (<<y, x>> \in OpToRel(<, Nat)) => x <= y
  BY DEF OpToRel
<1>3. \A x \in T : x \in Nat
  OBVIOUS
<1>4. \E x \in T : \A y \in T : x <= y
  BY <1>1, <1>2, <1>3, Zenon
<1> QED BY <1>4, Zenon DEF Min

LEMMA FirstNul ==
  ASSUME NEW bytes \in Seq(Char)
  PROVE  \E n \in 0 .. Len(bytes) : /\ String(bytes) = SubSeq(bytes, 1, n)
                                    /\ \A i \in 1 .. n : bytes[i] # Nul
                                    /\ n = Len(bytes) \/ bytes[n + 1] = Nul
<1> DEFINE more == Append(bytes, Nul)
           T == {i \in 1 .. Len(more) : more[i] = Nul}
<1>1. /\ Len(bytes) \in Nat /\ Len(more) = Len(bytes) + 1 /\ more[Len(bytes) + 1] = Nul
      /\ \A i \in 1 .. Len(bytes) : more[i] = bytes[i]
  BY AppendProperties DEF Char
<1>2. Len(bytes) + 1 \in T /\ T \in SUBSET Nat
  BY <1>1
<1>3. Min(T) \in T /\ \A i \in T : Min(T) <= i
  BY <1>2, LeastNatural
<1>4. String(bytes) = SubSeq(bytes, 1, Min(T) - 1)
  BY <1>2 DEF String, SelectInSeq
<1> HIDE DEF T
<1>5. PICK n \in 0 .. Len(bytes) : n + 1 = Min(T)
  <2>1. Min(T) \in 1 .. Len(bytes) + 1
    BY <1>1, <1>3 DEF T
  <2>2. Min(T) - 1 \in 0 .. Len(bytes) /\ (Min(T) - 1) + 1 = Min(T)
    BY <1>1, <2>1
  <2> QED BY <2>2, Zenon
<1>6. \A i \in 1 .. n : bytes[i] # Nul
  <2>1. \A i \in 1 .. n : i \notin T /\ i \in 1 .. Len(more) /\ i \in 1 .. Len(bytes)
    BY <1>1, <1>3, <1>5
  <2> QED BY <1>1, <2>1 DEF T
<1>7. n = Len(bytes) \/ bytes[n + 1] = Nul
  <2>1. more[n + 1] = Nul
    BY <1>3, <1>5 DEF T
  <2>2. n = Len(bytes) \/ n + 1 \in 1 .. Len(bytes)
    BY <1>1, <1>5
  <2> QED BY <1>1, <2>1, <2>2
<1>8. String(bytes) = SubSeq(bytes, 1, n)
  BY <1>1, <1>4, <1>5
<1> QED BY <1>6, <1>7, <1>8

\* A string in the ring with its terminator is read as itself, whatever follows.
LEMMA Terminated == ASSUME NEW text \in Seq(Digits), NEW tail \in Seq(Char)
                    PROVE  String(Append(text, Nul) \o tail) = text
<1> DEFINE s == Append(text, Nul)
           bytes == s \o tail
<1>1. text \in Seq(Char) /\ Len(text) \in Nat /\ (\A i \in 1 .. Len(text) : text[i] \in Digits)
  BY DEF Char
<1>2. /\ s \in Seq(Char) /\ Len(s) = Len(text) + 1 /\ s[Len(text) + 1] = Nul
      /\ \A i \in 1 .. Len(text) : s[i] = text[i]
  BY <1>1, AppendProperties DEF Char
<1>3. /\ bytes \in Seq(Char) /\ Len(bytes) = Len(s) + Len(tail) /\ Len(tail) \in Nat
      /\ \A i \in 1 .. Len(s) + Len(tail) : bytes[i] = IF i <= Len(s) THEN s[i] ELSE tail[i - Len(s)]
  BY <1>2, ConcatProperties
<1> HIDE DEF bytes, s
<1>4. /\ bytes[Len(text) + 1] = Nul /\ \A i \in 1 .. Len(text) : bytes[i] = text[i]
      /\ Len(bytes) >= Len(text) + 1
  BY <1>1, <1>2, <1>3
<1>5. PICK n \in 0 .. Len(bytes) : /\ String(bytes) = SubSeq(bytes, 1, n)
                                   /\ \A i \in 1 .. n : bytes[i] # Nul
                                   /\ n = Len(bytes) \/ bytes[n + 1] = Nul
  BY <1>3, FirstNul
<1>6. \A i \in 1 .. Len(text) : bytes[i] # Nul
  BY <1>1, <1>4, SerialAssumption
<1>7. ~(Len(text) < n)
  <2>1. Len(text) < n => Len(text) + 1 \in 1 .. n
    BY <1>1, <1>5
  <2> QED BY <1>4, <1>5, <2>1
<1>8. ~(n < Len(text))
  <2>1. n < Len(text) => n + 1 \in 1 .. Len(text) /\ n # Len(bytes)
    BY <1>1, <1>4, <1>5
  <2> QED BY <1>5, <1>6, <2>1
<1>9. n = Len(text)
  BY <1>1, <1>5, <1>7, <1>8
<1>10. /\ SubSeq(bytes, 1, n) \in Seq(Char) /\ Len(SubSeq(bytes, 1, n)) = Len(text)
       /\ \A i \in 1 .. Len(text) : SubSeq(bytes, 1, n)[i] = text[i]
  BY <1>1, <1>3, <1>4, <1>9
<1>11. SubSeq(bytes, 1, n) = text
  BY <1>1, <1>10, SeqEqual
<1> QED BY <1>5, <1>11 DEF bytes, s

\* Without one it is a prefix of what is read.
LEMMA Unterminated == ASSUME NEW text \in Seq(Digits), NEW tail \in Seq(Char)
                      PROVE  IsPrefix(text, String(text \o tail))
<1> DEFINE bytes == text \o tail
<1>1. text \in Seq(Char) /\ Len(text) \in Nat /\ (\A i \in 1 .. Len(text) : text[i] \in Digits)
  BY DEF Char
<1>2. /\ bytes \in Seq(Char) /\ Len(bytes) = Len(text) + Len(tail) /\ Len(tail) \in Nat
      /\ \A i \in 1 .. Len(text) + Len(tail) : bytes[i] = IF i <= Len(text) THEN text[i] ELSE tail[i - Len(text)]
  BY <1>1, ConcatProperties
<1> HIDE DEF bytes
<1>3. \A i \in 1 .. Len(text) : bytes[i] = text[i] /\ bytes[i] # Nul
  BY <1>1, <1>2, SerialAssumption
<1>4. PICK n \in 0 .. Len(bytes) : /\ String(bytes) = SubSeq(bytes, 1, n)
                                   /\ \A i \in 1 .. n : bytes[i] # Nul
                                   /\ n = Len(bytes) \/ bytes[n + 1] = Nul
  BY <1>2, FirstNul
<1>5. Len(text) <= n
  <2>1. n < Len(text) => n + 1 \in 1 .. Len(text) /\ n # Len(bytes)
    BY <1>1, <1>2, <1>4
  <2>2. ~(n < Len(text))
    BY <1>3, <1>4, <2>1
  <2> QED BY <1>1, <1>4, <2>2
<1>6. /\ SubSeq(bytes, 1, n) \in Seq(Char) /\ Len(SubSeq(bytes, 1, n)) = n
      /\ \A i \in 1 .. n : SubSeq(bytes, 1, n)[i] = bytes[i]
  BY <1>2
<1> DEFINE front == SubSeq(SubSeq(bytes, 1, n), 1, Len(text))
<1>7. front \in Seq(Char) /\ Len(front) = Len(text) /\ \A i \in 1 .. Len(text) : front[i] = text[i]
  BY <1>1, <1>3, <1>5, <1>6
<1>8. front = text
  BY <1>1, <1>7, SeqEqual
<1>9. SubSeq(text, 1, Len(text)) = text
  BY SubSeqFull
<1> QED BY <1>4, <1>5, <1>6, <1>8, <1>9 DEF bytes, IsPrefix

LEMMA StringType == ASSUME NEW bytes \in Seq(Char) PROVE String(bytes) \in Seq(Digits)
<1>1. PICK n \in 0 .. Len(bytes) : /\ String(bytes) = SubSeq(bytes, 1, n)
                                   /\ \A i \in 1 .. n : bytes[i] # Nul
                                   /\ n = Len(bytes) \/ bytes[n + 1] = Nul
  BY FirstNul
<1>2. \A i \in 1 .. n : bytes[i] \in Digits
  BY <1>1 DEF Char
<1>3. SubSeq(bytes, 1, n) \in Seq(Digits)
  BY <1>1, <1>2, SubSeqProperties
<1> QED BY <1>1, <1>3

\* The memory behind what was stored keeps its length.
LEMMA StoredType ==
  ASSUME NEW text \in Seq(Digits), SerialTypeOK
  PROVE  /\ SubSeq(data_read, Len(Stored(text)) + 1, Longest) \in Seq(Char)
         /\ Stored(text) \o SubSeq(data_read, Len(Stored(text)) + 1, Longest) \in Seq(Char)
         /\ Longest <= Len(Stored(text) \o SubSeq(data_read, Len(Stored(text)) + 1, Longest))
<1> DEFINE s == Stored(text)
           kept == SubSeq(data_read, Len(s) + 1, Longest)
<1>1. s \in Seq(Char) /\ Len(s) \in Nat
  <2>1. text \in Seq(Char)
    BY DEF Char
  <2>2. Append(text, Nul) \in Seq(Char)
    BY <2>1 DEF Char
  <2> QED BY <2>1, <2>2 DEF Stored
<1> HIDE DEF s
<1>2. data_read \in Seq(Char) /\ Longest <= Len(data_read) /\ Longest \in Nat
  BY SerialAssumption DEF SerialTypeOK, Char
<1>3. \A i \in Len(s) + 1 .. Longest : data_read[i] \in Char
  BY <1>1, <1>2
<1>4. /\ kept \in Seq(Char)
      /\ Len(kept) = IF Len(s) + 1 <= Longest THEN Longest - (Len(s) + 1) + 1 ELSE 0
  BY <1>1, <1>2, <1>3, SubSeqProperties
<1> HIDE DEF kept
<1>5. s \o kept \in Seq(Char) /\ Len(s \o kept) = Len(s) + Len(kept)
  BY <1>1, <1>4, ConcatProperties
<1>6. Longest <= Len(s \o kept)
  BY <1>1, <1>2, <1>4, <1>5
<1> QED BY <1>4, <1>5, <1>6 DEF s, kept

LEMMA TailOfAppend == ASSUME NEW text \in Seq(Digits), text # <<>>, NEW b \in Digits
                      PROVE  Append(text, b) # <<>> /\ Tail(Append(text, b)) = Append(Tail(text), b)
<1>1. Append(text, b) \in Seq(Digits) /\ Append(text, b) # <<>> /\ Len(text) \in Nat /\ Len(text) >= 1
  OBVIOUS
<1>2. /\ Tail(Append(text, b)) \in Seq(Digits) /\ Len(Tail(Append(text, b))) = Len(text)
      /\ \A i \in 1 .. Len(text) : Tail(Append(text, b))[i] = IF i = Len(text) THEN b ELSE text[i + 1]
  OBVIOUS
<1>3. /\ Append(Tail(text), b) \in Seq(Digits) /\ Len(Append(Tail(text), b)) = Len(text)
      /\ \A i \in 1 .. Len(text) : Append(Tail(text), b)[i] = IF i = Len(text) THEN b ELSE text[i + 1]
  OBVIOUS
<1> DEFINE s == Tail(Append(text, b))
           t == Append(Tail(text), b)
<1>4. s \in Seq(Digits) /\ t \in Seq(Digits) /\ Len(s) = Len(t) /\ \A i \in 1 .. Len(s) : s[i] = t[i]
  BY <1>2, <1>3
<1> HIDE DEF s, t
<1>5. s = t
  BY <1>4, SeqEqual, Zenon
<1> QED BY <1>1, <1>5 DEF s, t

-----------------------------------------------------------------------------
(* What the program took of a line is in data_write, but for a first byte  *)
(* that was early.                                                         *)

SerialInv ==
  /\ SerialTypeOK
  /\ ~reading => data_write = <<>> /\ line = <<>> /\ ~early
  /\ early => line # <<>> /\ Tail(line) = data_write
  /\ ~early => line = data_write

LEMMA SerialStarts == SerialInit => SerialInv
<1> SUFFICES ASSUME SerialInit PROVE SerialInv
  OBVIOUS
<1>1. data_read \in Seq(Digits \cup {Nul}) /\ Len(data_read) = Longest
  BY SerialAssumption DEF SerialInit, Places
<1>2. <<>> \in Seq(Digits) /\ <<>> \in Seq(Digits \cup {End}) /\ Len(<<>>) <= Fifo /\ Longest <= Len(data_read)
  BY <1>1, SerialAssumption
<1>3. SerialTypeOK
  BY <1>1, <1>2 DEF SerialInit, SerialTypeOK
<1> QED BY <1>3 DEF SerialInit, SerialInv

LEMMA LineUsed ==
  ASSUME SerialInv, uart # <<>>, uart' = Tail(uart), ring_rd_wt(data_write)
  PROVE  SerialInv'
<1>1. /\ data_write \in Seq(Digits) /\ SerialTypeOK
  BY DEF SerialInv, SerialTypeOK
<1>2. /\ data_read' \in Seq(Char) /\ Longest <= Len(data_read')
  BY <1>1, StoredType DEF ring_rd_wt
<1>3. used' \in Seq(Digits)
  BY <1>2, StringType DEF ring_rd_wt
<1>4. uart' \in Seq(Digits \cup {End}) /\ Len(uart') <= Fifo
  BY <1>1, SerialAssumption DEF SerialTypeOK
<1>5. data_write' = <<>> /\ line' = <<>> /\ early' = FALSE /\ reading' = FALSE
  BY DEF ring_rd_wt
<1>6. <<>> \in Seq(Digits)
  OBVIOUS
<1>7. SerialTypeOK'
  BY <1>2, <1>3, <1>4, <1>5, <1>6 DEF SerialTypeOK, Char
<1> QED BY <1>5, <1>7 DEF SerialInv

LEMMA SerialSteps == SerialInv /\ [SerialNext]_serial => SerialInv'
<1> SUFFICES ASSUME SerialInv, [SerialNext]_serial PROVE SerialInv'
  OBVIOUS
<1>1. /\ SerialTypeOK /\ uart \in Seq(Digits \cup {End}) /\ Len(uart) <= Fifo /\ Fifo \in Nat
  BY SerialAssumption DEF SerialInv, SerialTypeOK
<1>2. uart # <<>> => /\ Tail(uart) \in Seq(Digits \cup {End}) /\ Len(Tail(uart)) <= Fifo
                     /\ (Head(uart) # End => Head(uart) \in Digits)
  BY <1>1
<1>3. ASSUME NEW b \in Digits \cup {End}, Types(b) PROVE SerialInv'
  <2>1. uart' = Append(uart, b) /\ Len(uart) < Fifo
    BY <1>3 DEF Types
  <2>2. uart' \in Seq(Digits \cup {End}) /\ Len(uart') <= Fifo
    BY <1>1, <2>1
  <2> QED BY <1>3, <2>2 DEF Types, SerialInv, SerialTypeOK
<1>4. CASE FirstRead
  <2>1. ~reading /\ data_write = <<>> /\ line = <<>> /\ ~early
    BY <1>4 DEF FirstRead, SerialInv
  <2>2. CASE uart = <<>> /\ reading' = TRUE /\ UNCHANGED <<uart, data_write, data_read, used, line, early>>
    BY <2>1, <2>2 DEF SerialInv, SerialTypeOK
  <2>3. CASE /\ uart # <<>> /\ Head(uart) # End /\ reading' = TRUE
             /\ uart' = Tail(uart) /\ line' = <<Head(uart)>> /\ early' = TRUE
             /\ UNCHANGED <<data_write, data_read, used>>
    <3>1. line' \in Seq(Digits) /\ line' # <<>> /\ Tail(line') = <<>>
      BY <1>2, <2>3
    <3> QED BY <1>2, <2>1, <2>3, <3>1 DEF SerialInv, SerialTypeOK
  <2>4. CASE uart # <<>> /\ Head(uart) = End /\ uart' = Tail(uart) /\ ring_rd_wt(<<>>)
    BY <2>1, <2>4, LineUsed
  <2> QED BY <1>4, <2>2, <2>3, <2>4 DEF FirstRead
<1>5. CASE uart_fifo_read
  <2>1. reading /\ uart # <<>> /\ uart' = Tail(uart)
    BY <1>5 DEF uart_fifo_read
  <2>2. CASE /\ Head(uart) # End
             /\ data_write' = Append(data_write, Head(uart)) /\ line' = Append(line, Head(uart))
             /\ UNCHANGED <<reading, data_read, used, early>>
    <3>1. Head(uart) \in Digits /\ line \in Seq(Digits) /\ data_write \in Seq(Digits)
      BY <1>2, <2>1, <2>2 DEF SerialInv, SerialTypeOK
    <3>2. line' \in Seq(Digits) /\ data_write' \in Seq(Digits)
      BY <2>2, <3>1
    <3>3. early => line' # <<>> /\ Tail(line') = data_write'
      <4>1. early => line # <<>> /\ Tail(line) = data_write
        BY DEF SerialInv
      <4> QED BY <2>2, <3>1, <4>1, TailOfAppend
    <3>4. ~early => line' = data_write'
      BY <2>2 DEF SerialInv
    <3> QED BY <1>2, <2>1, <2>2, <3>2, <3>3, <3>4 DEF SerialInv, SerialTypeOK
  <2>3. CASE Head(uart) = End /\ ring_rd_wt(data_write)
    BY <2>1, <2>3, LineUsed
  <2> QED BY <1>5, <2>2, <2>3 DEF uart_fifo_read
<1>6. CASE UNCHANGED serial
  BY <1>6 DEF serial, SerialInv, SerialTypeOK
<1> QED BY <1>3, <1>4, <1>5, <1>6 DEF SerialNext

LEMMA SerialInvariant == SerialSpec => []SerialInv
<1>1. SerialInit => SerialInv
  BY SerialStarts
<1>2. SerialInv /\ [SerialNext]_serial => SerialInv'
  BY SerialSteps
<1> QED BY <1>1, <1>2, PTL DEF SerialSpec

(***************************************************************************)
(* What is used is a string of bytes of a line, and data_read does not     *)
(* shrink.                                                                 *)
(***************************************************************************)
THEOREM SerialTypeCorrect == SerialSpec => []SerialTypeOK
<1>1. SerialInv => SerialTypeOK
  BY DEF SerialInv
<1> QED BY <1>1, SerialInvariant, PTL

(***************************************************************************)
(* DutyIsTheLine: the terminator in the ring keeps older, longer lines out *)
(* of the string, for lines of any length.                                 *)
(***************************************************************************)
THEOREM LineIsDuty == SerialSpec => DutyIsTheLine
<1>1. ASSUME SerialInv, [SerialNext]_serial
      PROVE  [uart # <<>> /\ Head(uart) = End /\ uart' = Tail(uart) =>
                LET text == IF early THEN Tail(line) ELSE line
                IN  IF unit = "pwm_ring_buf" THEN used' = text ELSE IsPrefix(text, used')]_serial
  <2>1. SUFFICES ASSUME SerialNext, uart # <<>>, Head(uart) = End, uart' = Tail(uart)
                 PROVE  IF unit = "pwm_ring_buf" THEN used' = data_write ELSE IsPrefix(data_write, used')
    BY <1>1 DEF SerialInv
  <2>2. uart \in Seq(Digits \cup {End}) /\ SerialTypeOK /\ data_write \in Seq(Digits)
    BY <1>1 DEF SerialInv, SerialTypeOK
  <2>3. ASSUME NEW b \in Digits \cup {End}, Types(b) PROVE FALSE
    <3>1. Len(Append(uart, b)) = Len(uart) + 1 /\ Len(Tail(uart)) = Len(uart) - 1 /\ Len(uart) \in Nat
      BY <2>1, <2>2
    <3> QED BY <2>1, <2>3, <3>1 DEF Types
  <2>4. ring_rd_wt(data_write)
    <3>1. FirstRead \/ uart_fifo_read
      BY <2>1, <2>3 DEF SerialNext
    <3>2. ~reading => data_write = <<>>
      BY <1>1 DEF SerialInv
    <3> QED BY <2>1, <3>1, <3>2 DEF FirstRead, uart_fifo_read
  <2>5. PICK tail \in Seq(Char) : used' = String(Stored(data_write) \o tail)
    BY <2>2, <2>4, StoredType DEF ring_rd_wt
  <2>6. CASE unit = "pwm_ring_buf"
    BY <2>2, <2>5, <2>6, Terminated DEF Stored
  <2>7. CASE unit # "pwm_ring_buf"
    BY <2>2, <2>5, <2>7, Unterminated DEF Stored
  <2> QED BY <2>6, <2>7
<1> QED BY <1>1, SerialInvariant, PTL DEF SerialSpec, DutyIsTheLine

-----------------------------------------------------------------------------
(* LittleFs.  Arithmetic of a byte.                                        *)

\* Adding to a byte wraps at most once.
LEMMA PlusOne ==
  ASSUME NEW b \in Bytes
  PROVE  /\ Plus(b, 1) = IF b = Byte - 1 THEN 0 ELSE b + 1
         /\ Plus(b, 1) \in Bytes
BY LittleFsAssumption, SMTT(30) DEF Plus, Bytes

\* A sum is a byte.
LEMMA PlusByte ==
  ASSUME NEW a \in Nat, NEW b \in Nat
  PROVE  Plus(a, b) \in Bytes
BY LittleFsAssumption, SMTT(30) DEF Plus, Bytes

\* Quotient and remainder are unique.
LEMMA ByteRemainder ==
  ASSUME NEW q \in Nat, NEW r \in Bytes
  PROVE  (Byte * q + r) % Byte = r
<1>1. Byte \in Nat \ {0} /\ q \in Int /\ r \in 0 .. Byte - 1
  BY LittleFsAssumption DEF Bytes
<1> QED BY <1>1, Remainder

LEMMA NextMultiple ==
  ASSUME NEW q \in Nat
  PROVE  Byte * (q + 1) = Byte * q + Byte /\ Byte * q \in Nat /\ q + 1 \in Nat
BY LittleFsAssumption, SMTT(30)

\* A sum reduced in between is the same sum.
LEMMA PlusTwice ==
  ASSUME NEW a \in Nat, NEW b \in Nat
  PROVE  Plus(Plus(a, b), 1) = Plus(a, b + 1)
<1> DEFINE q == (a + b) \div Byte
           r == (a + b) % Byte
<1>1. a + b = Byte * q + r /\ q \in Nat /\ r \in Bytes /\ Byte \in Nat
  BY LittleFsAssumption, SMTT(30) DEF Bytes
<1>2. Plus(a, b) = r
  BY DEF Plus
<1> HIDE DEF q, r
<1>3. CASE r = Byte - 1
  <2>1. a + (b + 1) = Byte * (q + 1) + 0
    BY <1>1, <1>3, NextMultiple, SMTT(30)
  <2>2. 0 \in Bytes
    BY LittleFsAssumption DEF Bytes
  <2>3. (Byte * (q + 1) + 0) % Byte = 0
    BY <1>1, <2>2, ByteRemainder, NextMultiple
  <2>4. Plus(r, 1) = 0
    BY <1>1, <1>3, PlusOne
  <2> QED BY <1>2, <2>1, <2>3, <2>4 DEF Plus
<1>4. CASE r # Byte - 1
  <2>1. a + (b + 1) = Byte * q + (r + 1)
    BY <1>1, NextMultiple DEF Bytes
  <2>2. r + 1 \in Bytes
    BY <1>1, <1>4 DEF Bytes
  <2>3. (Byte * q + (r + 1)) % Byte = r + 1
    BY <1>1, <2>2, ByteRemainder
  <2>4. Plus(r, 1) = r + 1
    BY <1>1, <1>4, PlusOne
  <2> QED BY <1>2, <2>1, <2>3, <2>4 DEF Plus
<1> QED BY <1>3, <1>4

\* As many increments as a byte has values change nothing.
LEMMA PlusAll ==
  ASSUME NEW a \in Nat
  PROVE  Plus(a, Byte + 1) = Plus(a, 1)
<1> DEFINE q == (a + 1) \div Byte
           r == (a + 1) % Byte
<1>1. a + 1 = Byte * q + r /\ q \in Nat /\ r \in Bytes /\ Byte \in Nat
  BY LittleFsAssumption, SMTT(30) DEF Bytes
<1>2. Plus(a, 1) = r
  BY DEF Plus
<1> HIDE DEF q, r
<1>3. a + (Byte + 1) = Byte * (q + 1) + r
  BY <1>1, NextMultiple DEF Bytes
<1>4. (Byte * (q + 1) + r) % Byte = r
  BY <1>1, ByteRemainder, NextMultiple
<1> QED BY <1>2, <1>3, <1>4 DEF Plus

-----------------------------------------------------------------------------
(* The pattern.                                                              *)

LEMMA Constants ==
  /\ 0 \in Place /\ Size - 1 \in Place /\ 0 # Size - 1
  /\ 0 \in Bytes /\ 1 \in Bytes /\ x55 \in Bytes /\ xAA \in Bytes /\ Bytes \subseteq Nat
  /\ 0 % 8 = 0 /\ 0 \div 8 = 0
BY LittleFsAssumption, SMTT(30) DEF Place, Bytes, x55, xAA

LEMMA PlusNothing ==
  ASSUME NEW b \in Bytes
  PROVE  Plus(b, 0) = b
<1>1. b \in Nat /\ Byte * 0 + b = b /\ b + 0 = b
  BY Constants, LittleFsAssumption
<1>2. (Byte * 0 + b) % Byte = b
  BY ByteRemainder
<1> QED BY <1>1, <1>2 DEF Plus

\* The pattern after no increments is the first one.
LEMMA FirstPattern == init_pattern = Proper(0)
<1>1. Filling(0) = x55
  BY DEF Filling
<1>2. Plus(xAA, 0) = xAA
  BY Constants, PlusNothing
<1>3. \A i \in Place : i \div 8 \in Nat /\ Plus(i \div 8, 1) = Plus(i \div 8 + 1, 0)
  <2> TAKE i \in Place
  <2>1. i \div 8 \in Nat
    BY LittleFsAssumption DEF Place
  <2> QED BY <2>1 DEF Plus
<1> QED BY <1>1, <1>2, <1>3 DEF init_pattern, Proper

LEMMA ProperType ==
  ASSUME NEW k \in Nat
  PROVE  Proper(k) \in [Place -> Bytes]
<1>1. Filling(k) \in Bytes
  BY Constants DEF Filling
<1>2. Plus(xAA, k) \in Bytes
  BY Constants, PlusByte
<1>3. \A i \in Place : Plus(i \div 8 + 1, k) \in Bytes
  <2> TAKE i \in Place
  <2>1. i \div 8 + 1 \in Nat
    BY LittleFsAssumption DEF Place
  <2> QED BY <2>1, PlusByte
<1> QED BY <1>1, <1>2, <1>3 DEF Proper

\* The first byte tells incr_pattern which filling comes next.
LEMMA Alternates ==
  ASSUME NEW k \in 0 .. Byte
  PROVE  Filling(NextTurn(k)) = IF Proper(k)[0] % 2 = 0 THEN xAA ELSE x55
<1>1. Proper(k)[0] = Plus(1, k)
  BY Constants DEF Proper
<1>2. Plus(1, k) = Plus(k, 1)
  BY LittleFsAssumption DEF Plus
<1>3. CASE k = Byte
  <2>1. Plus(1, k) = 1
    <3>1. Byte * 1 + 1 = 1 + k /\ 1 \in Nat
      BY <1>3, LittleFsAssumption
    <3>2. (Byte * 1 + 1) % Byte = 1
      BY Constants, ByteRemainder
    <3> QED BY <3>1, <3>2 DEF Plus
  <2> QED BY <1>1, <1>3, <2>1 DEF Filling, NextTurn
<1>4. CASE k = Byte - 1
  <2>1. Plus(k, 1) = 0
    BY <1>4, PlusOne, LittleFsAssumption DEF Bytes
  <2>2. NextTurn(k) = Byte
    BY <1>4, LittleFsAssumption DEF NextTurn
  <2> QED BY <1>1, <1>2, <2>1, <2>2, LittleFsAssumption DEF Filling
<1>5. CASE k < Byte - 1
  <2>1. Plus(k, 1) = k + 1
    BY <1>5, PlusOne, LittleFsAssumption DEF Bytes
  <2>2. NextTurn(k) = k + 1 /\ k + 1 # 0 /\ k + 1 \in Nat
    BY <1>5, LittleFsAssumption DEF NextTurn
  <2>3. (k + 1) % 2 \in {0, 1}
    BY <2>2
  <2> QED BY <1>1, <1>2, <2>1, <2>2, <2>3 DEF Filling
<1> QED BY <1>3, <1>4, <1>5, LittleFsAssumption

\* One more increment is the next pattern.
THEOREM Turn ==
  ASSUME NEW k \in 0 .. Byte
  PROVE  incr_pattern(Proper(k)) = Proper(NextTurn(k)) /\ NextTurn(k) \in 0 .. Byte
<1>1. \A a \in Nat : Plus(Plus(a, k), 1) = Plus(a, NextTurn(k))
  <2> TAKE a \in Nat
  <2>1. k \in Nat
    BY LittleFsAssumption
  <2>2. Plus(Plus(a, k), 1) = Plus(a, k + 1)
    BY <2>1, PlusTwice
  <2>3. CASE k = Byte
    BY <2>2, <2>3, PlusAll DEF NextTurn
  <2>4. CASE k # Byte
    BY <2>2, <2>4 DEF NextTurn
  <2> QED BY <2>3, <2>4
<1>2. Plus(Plus(xAA, k), 1) = Plus(xAA, NextTurn(k))
  BY <1>1, Constants
<1>3. \A i \in Place : Plus(Plus(i \div 8 + 1, k), 1) = Plus(i \div 8 + 1, NextTurn(k))
  <2> TAKE i \in Place
  <2>1. i \div 8 + 1 \in Nat
    BY LittleFsAssumption DEF Place
  <2> QED BY <2>1, <1>1
<1>4. \A i \in Place : incr_pattern(Proper(k))[i] = Proper(NextTurn(k))[i]
  <2> TAKE i \in Place
  <2>1. CASE i = Size - 1
    BY <2>1, <1>2 DEF incr_pattern, Proper
  <2>2. CASE i # Size - 1 /\ i % 8 = 0
    BY <2>2, <1>3 DEF incr_pattern, Proper
  <2>3. CASE i # Size - 1 /\ i % 8 # 0
    BY <2>3, Alternates DEF incr_pattern, Proper
  <2> QED BY <2>1, <2>2, <2>3
<1>5. NextTurn(k) \in 0 .. Byte
  BY LittleFsAssumption DEF NextTurn
<1> QED BY <1>4, <1>5 DEF incr_pattern, Proper

-----------------------------------------------------------------------------
(* The inductive invariant: what each call finds in the files, compared with *)
(* what was mounted, and in memory.                                          *)

Counted == count = NextCount(before[1])
Turned == FollowingPattern(before[2], pattern)
CountKept == SameFile(before[1], count)
PatternKept == SameFile(before[2], pattern)

ListInv == stage \in {"list", "openCount"} =>
  count = before[1] /\ pattern = before[2] /\ rc = "ok" /\ ~written
ReadCountInv == stage = "readCount" =>
  CountKept /\ count # Absent /\ pattern = before[2] /\ rc = "ok" /\ ~written
WriteCountInv == stage = "writeCount" =>
  CountKept /\ pattern = before[2] /\ rc = "ok" /\ ~written
  /\ Plus(boot_count, 1) = NextCount(before[1])
CloseCountInv == stage = "closeCount" =>
  CountKept /\ pattern = before[2]
  /\ (written => boot_count = NextCount(before[1])) /\ (~written => rc = "error")
OpenPatternInv == stage = "openPattern" =>
  Counted /\ pattern = before[2] /\ rc = "ok" /\ ~written
ReadPatternInv == stage = "readPattern" =>
  Counted /\ PatternKept /\ pattern # Absent /\ rc = "ok" /\ ~written
WritePatternInv == stage = "writePattern" =>
  Counted /\ PatternKept /\ rc = "ok" /\ ~written
  /\ FollowingPattern(before[2], file_test_pattern)
ClosePatternInv == stage = "closePattern" =>
  Counted /\ PatternKept
  /\ (written => FollowingPattern(before[2], file_test_pattern)) /\ (~written => rc = "error")
EndInv == stage \in {"unmount", "done"} =>
  /\ ~written
  /\ \/ Counted /\ Turned
     \/ Counted /\ PatternKept /\ rc = "error"
     \/ CountKept /\ PatternKept /\ rc = "error"
StartInv == /\ stage \in {"off", "mount"} => ~written
            /\ stage = "mount" => count = before[1] /\ pattern = before[2] /\ rc = "ok"

\* The pattern in memory is whole whenever it is about to be closed.
RamInv == /\ stage = "writePattern" \/ (stage = "closePattern" /\ written)
             => \E k \in 0 .. Byte : file_test_pattern = Proper(k)

LfsInv == /\ LfsTypeOK /\ PatternProper /\ StartInv /\ ListInv
          /\ ReadCountInv /\ WriteCountInv /\ CloseCountInv
          /\ OpenPatternInv /\ ReadPatternInv /\ WritePatternInv /\ ClosePatternInv
          /\ EndInv /\ RamInv

-----------------------------------------------------------------------------
LEMMA ProperPresent ==
  ASSUME NEW k \in 0 .. Byte
  PROVE  Proper(k) \notin Missing
BY ProperType, LittleFsAssumption

LEMMA NewPattern ==
  ASSUME PatternProper, pattern \notin Missing
  PROVE  /\ FollowingPattern(pattern, incr_pattern(pattern))
         /\ \E k \in 0 .. Byte : incr_pattern(pattern) = Proper(k)
<1>1. PICK k \in 0 .. Byte : pattern = Proper(k)
  BY DEF PatternProper
<1> QED BY <1>1, Turn DEF FollowingPattern

LEMMA Start == LfsInit => LfsInv
<1> SUFFICES ASSUME LfsInit PROVE LfsInv
  OBVIOUS
<1>1. LfsTypeOK /\ PatternProper
  BY Constants DEF LfsInit, LfsTypeOK, PatternProper, Counts, Missing
<1>2. StartInv /\ ListInv /\ ReadCountInv /\ WriteCountInv /\ CloseCountInv /\ OpenPatternInv
  BY DEF LfsInit, StartInv, ListInv, ReadCountInv, WriteCountInv, CloseCountInv, OpenPatternInv
<1>3. ReadPatternInv /\ WritePatternInv /\ ClosePatternInv /\ EndInv /\ RamInv
  BY DEF LfsInit, ReadPatternInv, WritePatternInv, ClosePatternInv, EndInv, RamInv
<1> QED BY <1>1, <1>2, <1>3 DEF LfsInv

\* A step to a place of the program has to establish only the invariant of that place.
LEMMA LfsTypes ==
  ASSUME LfsInv, [LfsNext]_lfs
  PROVE  LfsTypeOK'
<1> USE DEF LfsInv, LfsTypeOK, Goto, Fail, flash, ram
<1>1. CASE Boot
  BY <1>1 DEF Boot
<1>2. CASE littlefs_mount
  BY <1>2 DEF littlefs_mount, Counts, Missing
<1>3. CASE lsdir
  BY <1>3 DEF lsdir
<1>4. CASE OpenCount
  BY <1>4, Constants DEF OpenCount, Counts, Missing
<1>5. CASE ReadCount
  BY <1>5, Constants DEF ReadCount, Counts, Missing, ReadCountInv
<1>6. CASE WriteCount
  BY <1>6, PlusOne DEF WriteCount
<1>7. CASE CloseCount
  BY <1>7 DEF CloseCount, Counts
<1>8. CASE OpenPattern
  BY <1>8 DEF OpenPattern
<1>9. CASE ReadPattern
  <2>1. ASSUME pattern = Empty
        PROVE  init_pattern \in [Place -> Bytes]
    BY FirstPattern, ProperType
  <2>2. ASSUME pattern # Empty, stage = "readPattern"
        PROVE  incr_pattern(pattern) \in [Place -> Bytes]
    <3>1. pattern \notin Missing
      BY <2>2 DEF ReadPatternInv, Missing
    <3> QED BY <3>1, NewPattern, ProperType
  <2> QED BY <1>9, <2>1, <2>2 DEF ReadPattern
<1>10. CASE WritePattern
  BY <1>10 DEF WritePattern
<1>11. CASE ClosePattern
  BY <1>11 DEF ClosePattern
<1>12. CASE fs_unmount
  BY <1>12 DEF fs_unmount
<1>13. CASE PowerLoss
  BY <1>13, Constants DEF PowerLoss
<1>14. CASE UNCHANGED lfs
  BY <1>14 DEF lfs
<1> QED BY <1>1, <1>2, <1>3, <1>4, <1>5, <1>6, <1>7, <1>8, <1>9, <1>10, <1>11, <1>12, <1>13,
           <1>14 DEF LfsNext, Call

CallInv == /\ StartInv /\ ListInv /\ ReadCountInv /\ WriteCountInv /\ CloseCountInv
          /\ OpenPatternInv /\ ReadPatternInv /\ WritePatternInv /\ ClosePatternInv /\ EndInv

LEMMA PlacesKept ==
  ASSUME LfsInv, [LfsNext]_lfs
  PROVE  CallInv'
<1> USE DEF LfsInv, LfsTypeOK, Goto, Fail, flash, ram, CallInv, StartInv, ListInv, ReadCountInv,
            WriteCountInv, CloseCountInv, OpenPatternInv, ReadPatternInv, WritePatternInv,
            ClosePatternInv, EndInv, Counted, Turned, CountKept, PatternKept
<1>1. CASE Boot
  BY <1>1 DEF Boot
<1>2. CASE littlefs_mount
  BY <1>2 DEF littlefs_mount, SameFile
<1>3. CASE lsdir
  BY <1>3 DEF lsdir, SameFile
<1>4. CASE OpenCount
  BY <1>4, LittleFsAssumption DEF OpenCount, SameFile
<1>5. CASE ReadCount
  <2>1. Plus(0, 1) = 1
    BY PlusOne, Constants, LittleFsAssumption DEF Bytes
  <2> QED BY <1>5, <2>1 DEF ReadCount, SameFile, NextCount, Missing, Counts
<1>6. CASE WriteCount
  BY <1>6 DEF WriteCount
<1>7. CASE CloseCount
  BY <1>7 DEF CloseCount, SameFile
<1>8. CASE OpenPattern
  BY <1>8, LittleFsAssumption DEF OpenPattern, SameFile
<1>9. CASE ReadPattern
  <2>1. ASSUME stage = "readPattern", pattern = Empty
        PROVE  FollowingPattern(before[2], init_pattern)
    BY <2>1, FirstPattern DEF FollowingPattern, SameFile, Missing
  <2>2. ASSUME stage = "readPattern", pattern # Empty
        PROVE  FollowingPattern(before[2], incr_pattern(pattern))
    <3>1. pattern \notin Missing /\ pattern = before[2]
      BY <2>2 DEF Missing, SameFile
    <3> QED BY <3>1, NewPattern
  <2> QED BY <1>9, <2>1, <2>2 DEF ReadPattern
<1>10. CASE WritePattern
  BY <1>10 DEF WritePattern
<1>11. CASE ClosePattern
  BY <1>11 DEF ClosePattern
<1>12. CASE fs_unmount
  BY <1>12 DEF fs_unmount
<1>13. CASE PowerLoss
  BY <1>13 DEF PowerLoss
<1>14. CASE UNCHANGED lfs
  BY <1>14 DEF lfs
<1> QED BY <1>1, <1>2, <1>3, <1>4, <1>5, <1>6, <1>7, <1>8, <1>9, <1>10, <1>11, <1>12, <1>13,
           <1>14 DEF LfsNext, Call

LEMMA PatternStays ==
  ASSUME LfsInv, [LfsNext]_lfs
  PROVE  PatternProper' /\ RamInv'
<1> USE DEF LfsInv, LfsTypeOK, Goto, Fail, flash, ram, PatternProper, RamInv
<1>1. CASE Boot
  BY <1>1 DEF Boot
<1>2. CASE littlefs_mount
  BY <1>2 DEF littlefs_mount, Missing
<1>3. CASE lsdir
  BY <1>3 DEF lsdir
<1>4. CASE OpenCount \/ ReadCount \/ WriteCount
  BY <1>4 DEF OpenCount, ReadCount, WriteCount
<1>5. CASE CloseCount
  BY <1>5 DEF CloseCount
<1>6. CASE OpenPattern
  BY <1>6 DEF OpenPattern, Missing
<1>7. CASE ReadPattern
  <2>1. ASSUME pattern = Empty
        PROVE  \E k \in 0 .. Byte : init_pattern = Proper(k)
    BY FirstPattern, LittleFsAssumption
  <2>2. ASSUME pattern # Empty, stage = "readPattern"
        PROVE  \E k \in 0 .. Byte : incr_pattern(pattern) = Proper(k)
    <3>1. pattern \notin Missing
      BY <2>2 DEF ReadPatternInv, Missing
    <3> QED BY <3>1, NewPattern
  <2>3. stage = "readPattern" => ~written
    BY DEF ReadPatternInv
  <2> QED BY <1>7, <2>1, <2>2, <2>3 DEF ReadPattern
<1>8. CASE WritePattern
  BY <1>8 DEF WritePattern, WritePatternInv
<1>9. CASE ClosePattern
  BY <1>9 DEF ClosePattern
<1>10. CASE fs_unmount \/ PowerLoss
  BY <1>10 DEF fs_unmount, PowerLoss
<1>11. CASE UNCHANGED lfs
  BY <1>11 DEF lfs
<1> QED BY <1>1, <1>2, <1>3, <1>4, <1>5, <1>6, <1>7, <1>8, <1>9, <1>10, <1>11 DEF LfsNext, Call

LEMMA Invariant == LfsSpec => []LfsInv
<1>1. LfsInv /\ [LfsNext]_lfs => LfsInv'
  BY LfsTypes, PlacesKept, PatternStays DEF LfsInv, CallInv
<1> QED BY Start, <1>1, PTL DEF LfsSpec

\* Types, for every size of the file and of a byte: the counter stays a byte.
THEOREM LfsTypeCorrect == LfsSpec => []LfsTypeOK
<1>1. LfsInv => LfsTypeOK
  BY DEF LfsInv
<1> QED BY Invariant, <1>1, PTL

(***************************************************************************)
(* incr_pattern, the order of the calls and the commit of a file as a      *)
(* whole keep the pattern file whole through any number of boots, power    *)
(* losses and failed calls.                                                *)
(***************************************************************************)
THEOREM PatternNeverTorn == LfsSpec => []PatternProper
<1>1. LfsInv => PatternProper
  BY DEF LfsInv
<1> QED BY Invariant, <1>1, PTL

(***************************************************************************)
(* A boot advances each file at most once and the counter first.           *)
(***************************************************************************)
THEOREM BootsCount == LfsSpec => []BootAdvances
<1>1. LfsInv => BootAdvances
  <2> SUFFICES ASSUME LfsInv, stage \notin {"off", "mount"} PROVE BootAdvances
    BY DEF BootAdvances
  <2> USE DEF LfsInv, Counted, Turned, CountKept, PatternKept, BootAdvances
  <2>1. CASE stage \in {"list", "openCount"}
    BY <2>1 DEF ListInv, SameFile
  <2>2. CASE stage \in {"readCount", "writeCount", "closeCount"}
    BY <2>2 DEF ReadCountInv, WriteCountInv, CloseCountInv, SameFile
  <2>3. CASE stage = "openPattern"
    BY <2>3 DEF OpenPatternInv, SameFile
  <2>4. CASE stage \in {"readPattern", "writePattern", "closePattern"}
    BY <2>4 DEF ReadPatternInv, WritePatternInv, ClosePatternInv
  <2>5. CASE stage \in {"unmount", "done"}
    BY <2>5 DEF EndInv
  <2> QED BY <2>1, <2>2, <2>3, <2>4, <2>5 DEF LfsTypeOK
<1> QED BY Invariant, <1>1, PTL
=============================================================================

---------------------------- MODULE HidCdcProofs ----------------------------
(***************************************************************************)
(* Proofs about HidCdc, for every pool, alphabet, set of lines and number  *)
(* of presses, and for a host that may go away.                            *)
(***************************************************************************)
EXTENDS HidCdc, HidKeymap, HidEventsProofs, FiniteSetTheorems, WellFoundedInduction

LEMMA StepsOfEvents == [Next]_vars => [EvtNext]_evtVars
<1> SUFFICES ASSUME [Next]_vars PROVE [EvtNext]_evtVars
  OBVIOUS
<1> USE DEF EvtNext
<1>1. ASSUME NEW e \in Stimuli, Stimulus(e) PROVE EvtNext
  BY <1>1 DEF Stimulus
<1>2. ASSUME NEW h \in Endpoint, HostPolls(h) PROVE UNCHANGED evtVars
  BY <1>2 DEF HostPolls
<1>3. CASE Unplug \/ Replug
  BY <1>3 DEF Unplug, Replug
<1>4. ASSUME NEW c \in Context, Plumbing(RaiseStep(c)) PROVE EvtNext
  BY <1>4 DEF Plumbing
<1>5. CASE \/ Plumbing(Boot) \/ Plumbing(TakeEvt) \/ Plumbing(Get)
           \/ Plumbing(Free)
  BY <1>5 DEF Plumbing
<1>6. CASE ReadKey \/ ReadShift \/ TakeUsb \/ WriteReport \/ WriteText \/ Count
  BY <1>6 DEF ReadKey, ReadShift, TakeUsb, WriteReport, WriteText, Count, InHandler
<1>7. ASSUME NEW f \in Hid, RaiseNext(f) PROVE EvtNext
  BY <1>7 DEF RaiseNext, Handle
<1>8. CASE RaiseNone
  BY <1>8 DEF RaiseNone, Handle
<1>9. CASE UNCHANGED vars
  BY <1>9 DEF vars
<1> QED
  BY <1>1, <1>2, <1>3, <1>4, <1>5, <1>6, <1>7, <1>8, <1>9 DEF Next, Handler

(***************************************************************************)
(* The application drives the pool, the FIFO and the semaphore only as     *)
(* HidEvents allows.                                                       *)
(***************************************************************************)
THEOREM AppRefinesEvents == Spec => EvtSpec
<1>1. Init => EvtInit
  BY DEF Init
<1> QED BY <1>1, StepsOfEvents, PTL DEF Spec, EvtSpec

(***************************************************************************)
(* Hence main never sleeps on a waiting event, and no event is lost short  *)
(* of an exhausted pool, whatever the handlers, the host and the string    *)
(* do.                                                                     *)
(***************************************************************************)
THEOREM AppWakeupNotLost == Spec => [](NoLostWakeup /\ PoolAccounting)
BY AppRefinesEvents, WakeupNotLost, PoolAccounted, PTL

THEOREM AppKeepsQueue == Spec => QueueSpec
BY AppRefinesEvents, ImplementsQueue, PTL

-----------------------------------------------------------------------------
(* The unit of usb_sem. *)

Built(r) == r \in Report /\ r.key # "empty"

UsbInv == /\ usbSem \in {0, 1}
          /\ ep \in [Endpoint -> Report]
          /\ Built(rep)
          /\ left["unplug"] \in 0 .. Unplugs
          /\ left \in [Stimuli \union {"unplug"} -> Nat]
          /\ ~plugged => left["unplug"] # Unplugs
          /\ UsbSemAccounting

LEMMA Reports ==
  /\ NoReport \in Report /\ NoReport.key = "empty"
  /\ Built(Zero) /\ Built(Active) /\ Built(Caps)
  /\ \A c \in DOMAIN KeyOf, b \in BOOLEAN : Built(KeyReport(KeyOf[c], b))
BY CharAssumption DEF NoReport, Zero, Active, Caps, Report, KeyReport, Built

LEMMA FixedBuilt == Built(FixedReport(cur))
BY Reports DEF FixedReport

LEMMA UnplugIsNoStimulus == "unplug" \notin Stimuli
BY StimuliAssumption DEF Buttons, CdcLine, Moves

LEMMA Units ==
  /\ \A h \in Endpoint : InFlight(h) \in {0, 1}
  /\ Writing \in {0, 1}
  /\ "hid0" \in Endpoint /\ "hid1" \in Endpoint
BY DEF InFlight, Writing, Endpoint

\* What does not touch the endpoints keeps the accounting.
LEMMA SameUnits ==
  ASSUME UsbInv, UNCHANGED <<usbSem, ep, plugged>>, Writing' = Writing,
         left'["unplug"] = left["unplug"],
         left' \in [Stimuli \union {"unplug"} -> Nat],
         Built(rep')
  PROVE  UsbInv'
<1>1. InFlight("hid0")' = InFlight("hid0") /\ InFlight("hid1")' = InFlight("hid1")
  BY DEF InFlight
<1>2. UsbSemAccounting'
  BY <1>1 DEF UsbInv, UsbSemAccounting, UsbUnits
<1> QED BY <1>2 DEF UsbInv, Built

LEMMA QuietHandlerUsbInv ==
  ASSUME UsbInv,
         \/ ReadKey \/ ReadShift \/ WriteText \/ Count \/ RaiseNone
         \/ \E f \in Hid : RaiseNext(f)
  PROVE  UsbInv'
<1> USE DEF usbVars, strVars
<1>1. CASE ReadKey
  <2>1. UNCHANGED <<usbSem, ep, plugged, left>> /\ Writing' = Writing
    <3>1. at = "start" /\ at' \in {"shift", "count"} /\ UNCHANGED <<usbVars, left>>
      BY <1>1 DEF ReadKey, Handling
    <3> QED BY <3>1 DEF Writing
  <2>2. Built(rep')
    BY <1>1, Reports DEF ReadKey, UsbInv
  <2> QED BY <2>1, <2>2, SameUnits DEF UsbInv
<1>2. CASE ReadShift
  <2>1. UNCHANGED <<usbSem, ep, plugged, left>> /\ Writing' = Writing
    <3>1. at = "shift" /\ at' = "take" /\ UNCHANGED <<usbVars, left>>
      BY <1>2, Zenon DEF ReadShift, Handling
    <3> QED BY <3>1 DEF Writing
  <2>2. PICK c \in PtrChar : rep' = KeyReport(rep.key, c \in Shifted)
    BY <1>2, Zenon DEF ReadShift
  <2>3. \E b \in BOOLEAN : rep' = KeyReport(rep.key, b)
    <3>1. CASE c \in Shifted
      BY <2>2, <3>1, Zenon
    <3>2. CASE c \notin Shifted
      <4>1. (c \in Shifted) = FALSE
        BY <3>2
      <4>2. rep' = KeyReport(rep.key, FALSE)
        BY <2>2, <4>1, Zenon
      <4> QED BY <4>2
    <3> QED BY <3>1, <3>2
  <2>4. Built(rep')
    BY <2>3 DEF UsbInv, Report, Built, KeyReport
  <2> QED BY <2>1, <2>4, SameUnits DEF UsbInv
<1>3. CASE WriteText \/ Count \/ RaiseNone \/ \E f \in Hid : RaiseNext(f)
  <2>1. UNCHANGED <<usbSem, ep, plugged, left, rep>>
    BY <1>3 DEF WriteText, Count, RaiseNone, RaiseNext
  <2>2. Writing = 0 /\ Writing' = 0
    <3>1. ASSUME NEW f \in Hid, RaiseNext(f)
          PROVE  at \in {"decide", "equal"} /\ at' = "start"
      BY <3>1 DEF RaiseNext, Raises, AtEnd, Handling, Hid
    <3>2. CASE WriteText
      BY <3>2 DEF WriteText, Handling, Writing
    <3>3. CASE Count
      BY <3>3 DEF Count, Handling, Writing
    <3>4. CASE RaiseNone
      BY <3>4 DEF RaiseNone, Handling, Writing
    <3> QED BY <1>3, <3>1, <3>2, <3>3, <3>4 DEF Writing
  <2> QED BY <2>1, <2>2, SameUnits DEF UsbInv
<1> QED BY <1>1, <1>2, <1>3

LEMMA TakeUsbInv == ASSUME UsbInv, TakeUsb PROVE UsbInv'
<1>1. usbSem = 1 /\ usbSem' = 0 /\ UNCHANGED <<ep, plugged, left>>
  BY DEF TakeUsb
<1>2. Writing = 0 /\ Writing' = 1
  BY DEF TakeUsb, Handling, Writing
<1>3. Built(rep')
  BY FixedBuilt DEF TakeUsb, UsbInv
<1>4. UsbUnits' = UsbUnits
  BY <1>1, <1>2, Units DEF UsbUnits, InFlight
<1> QED BY <1>1, <1>3, <1>4 DEF UsbInv, UsbSemAccounting, Built

LEMMA WriteReportInv == ASSUME UsbInv, WriteReport PROVE UsbInv'
<1>1. /\ UNCHANGED <<usbSem, plugged, left>> /\ rep' = Zero
      /\ Writing = 1 /\ Writing' = 0
  BY DEF WriteReport, Handling, Writing
<1>2. usbSem = 0 /\ InFlight("hid0") = 0 /\ InFlight("hid1") = 0
  BY <1>1, Units DEF UsbInv, UsbSemAccounting, UsbUnits
<1>3. EndpointOf(cur) \in Endpoint
  BY DEF EndpointOf, Endpoint
<1>4. CASE plugged
  <2>1. ep' = [ep EXCEPT ![EndpointOf(cur)] = rep]
    BY <1>4 DEF WriteReport
  <2>5. rep # NoReport
    BY Reports DEF UsbInv, Built
  <2>2. ep' \in [Endpoint -> Report]
    BY <2>1, <1>3 DEF UsbInv, Built
  <2>3. /\ InFlight("hid0")' + InFlight("hid1")' = 1
        /\ InFlight("hid0")' \in {0, 1} /\ InFlight("hid1")' \in {0, 1}
    <3>1. CASE EndpointOf(cur) = "hid0"
      BY <2>1, <2>5, <1>2, <3>1, Units DEF InFlight, UsbInv
    <3>2. CASE EndpointOf(cur) = "hid1"
      BY <2>1, <2>5, <1>2, <3>2, Units DEF InFlight, UsbInv
    <3> QED BY <1>3, <3>1, <3>2 DEF Endpoint
  <2>4. UsbUnits' = 1
    BY <1>1, <1>2, <2>3, Units DEF UsbUnits
  <2> QED BY <1>1, <2>2, <2>4, Reports DEF UsbInv, UsbSemAccounting, Built
<1>5. CASE ~plugged
  <2>1. ep' = ep
    BY <1>5 DEF WriteReport
  <2>2. UsbUnits' = 0
    BY <1>1, <1>2, <2>1 DEF UsbUnits, InFlight
  <2> QED BY <1>1, <1>5, <2>1, <2>2, Reports DEF UsbInv, UsbSemAccounting, Built
<1> QED BY <1>4, <1>5

LEMMA HostPollsInv == ASSUME UsbInv, NEW h \in Endpoint, HostPolls(h) PROVE UsbInv'
<1>1. /\ ep[h] # NoReport /\ ep' = [ep EXCEPT ![h] = NoReport] /\ usbSem' = 1
      /\ UNCHANGED <<plugged, left, rep, at>>
  BY DEF HostPolls, strVars
<1>2. InFlight(h) = 1 /\ InFlight(h)' = 0
  BY <1>1 DEF InFlight, UsbInv
<1>3. \A g \in Endpoint : g # h => InFlight(g)' = InFlight(g)
  BY <1>1 DEF InFlight, UsbInv
<1>4. Writing' = Writing
  BY <1>1 DEF Writing
<1>5. UsbUnits' = 1
  <2>1. CASE h = "hid0"
    BY <1>1, <1>2, <1>3, <1>4, <2>1, Units DEF UsbInv, UsbSemAccounting, UsbUnits
  <2>2. CASE h = "hid1"
    BY <1>1, <1>2, <1>3, <1>4, <2>2, Units DEF UsbInv, UsbSemAccounting, UsbUnits
  <2> QED BY <2>1, <2>2 DEF Endpoint
<1>6. ep' \in [Endpoint -> Report]
  BY <1>1, Reports DEF UsbInv
<1> QED BY <1>1, <1>5, <1>6 DEF UsbInv, UsbSemAccounting, Built

LEMMA PlugInv == ASSUME UsbInv, Unplug \/ Replug PROVE UsbInv'
<1>1. CASE Unplug
  <2>1. /\ left' = [left EXCEPT !["unplug"] = @ - 1] /\ left["unplug"] > 0
        /\ ep' = [h \in Endpoint |-> NoReport]
        /\ UNCHANGED <<usbSem, rep, at>>
    BY <1>1 DEF Unplug, strVars
  <2>2. /\ left'["unplug"] = left["unplug"] - 1 /\ left'["unplug"] \in 0 .. Unplugs
        /\ left'["unplug"] # Unplugs
        /\ left' \in [Stimuli \union {"unplug"} -> Nat]
    BY <2>1, CharAssumption DEF UsbInv
  <2>3. InFlight("hid0")' = 0 /\ InFlight("hid1")' = 0 /\ Writing' = Writing
    BY <2>1, Units DEF InFlight, Writing
  <2>4. UsbUnits' <= 1
    BY <2>1, <2>3, Units DEF UsbInv, UsbSemAccounting, UsbUnits
  <2>5. ep' \in [Endpoint -> Report]
    BY <2>1, Reports
  <2> QED BY <2>1, <2>2, <2>4, <2>5 DEF UsbInv, UsbSemAccounting, Built
<1>2. CASE Replug
  <2>1. plugged' = TRUE /\ UNCHANGED <<usbSem, ep, left, rep, at>>
    BY <1>2 DEF Replug, strVars
  <2>2. UsbUnits' = UsbUnits
    BY <2>1 DEF UsbUnits, InFlight, Writing
  <2> QED BY <2>1, <2>2 DEF UsbInv, UsbSemAccounting, Built
<1> QED BY <1>1, <1>2

LEMMA StimulusInv == ASSUME UsbInv, NEW e \in Stimuli, Stimulus(e) PROVE UsbInv'
<1>1. /\ left[e] > 0 /\ left' = [left EXCEPT ![e] = @ - 1]
      /\ UNCHANGED <<usbSem, ep, plugged, rep, at>>
  BY DEF Stimulus, usbVars
<1>2. /\ left'["unplug"] = left["unplug"]
      /\ left' \in [Stimuli \union {"unplug"} -> Nat]
  BY <1>1, UnplugIsNoStimulus DEF UsbInv
<1>3. Writing' = Writing
  BY <1>1 DEF Writing
<1> QED BY <1>1, <1>2, <1>3, SameUnits DEF UsbInv

LEMMA NextUsbInv == UsbInv /\ [Next]_vars => UsbInv'
<1> SUFFICES ASSUME UsbInv, [Next]_vars PROVE UsbInv'
  OBVIOUS
<1>1. ASSUME UNCHANGED appVars PROVE UsbInv'
  <2>1. UNCHANGED <<usbSem, ep, plugged, left, rep, at>>
    BY <1>1 DEF appVars, usbVars, strVars
  <2>2. Writing' = Writing
    BY <2>1 DEF Writing
  <2> QED BY <2>1, <2>2, SameUnits DEF UsbInv
<1>2. CASE Handler
  BY <1>2, QuietHandlerUsbInv, TakeUsbInv, WriteReportInv DEF Handler
<1>3. ASSUME NEW e \in Stimuli, Stimulus(e) PROVE UsbInv'
  BY <1>3, StimulusInv
<1>4. ASSUME NEW h \in Endpoint, HostPolls(h) PROVE UsbInv'
  BY <1>4, HostPollsInv
<1>5. CASE Unplug \/ Replug
  BY <1>5, PlugInv
<1>6. ASSUME NEW c \in Context, Plumbing(RaiseStep(c)) PROVE UsbInv'
  BY <1>6, <1>1 DEF Plumbing
<1>7. CASE \/ Plumbing(Boot) \/ Plumbing(TakeEvt) \/ Plumbing(Get)
           \/ Plumbing(Free)
  BY <1>7, <1>1 DEF Plumbing
<1>8. CASE UNCHANGED vars
  BY <1>8, <1>1 DEF vars
<1> QED BY <1>2, <1>3, <1>4, <1>5, <1>6, <1>7, <1>8 DEF Next

LEMMA InitUsbInv == Init => UsbInv
<1> SUFFICES ASSUME Init PROVE UsbInv
  OBVIOUS
<1>1. InFlight("hid0") = 0 /\ InFlight("hid1") = 0 /\ Writing = 0
  BY Units DEF Init, InFlight, Writing
<1>2. UsbUnits = 1
  BY <1>1 DEF Init, UsbUnits
<1>3. /\ left["unplug"] = Unplugs
      /\ left \in [Stimuli \union {"unplug"} -> Nat]
  BY CharAssumption, UnplugIsNoStimulus DEF Init
<1> QED
  BY <1>2, <1>3, CharAssumption, Reports DEF Init, UsbInv, UsbSemAccounting

(***************************************************************************)
(* usb_sem, shared by the two endpoints, never lets main write a report    *)
(* while another is in flight; its unit is lost only if the host has gone  *)
(* away.                                                                   *)
(***************************************************************************)
THEOREM UsbSemAccounted == Spec => []UsbSemAccounting
<1>1. UsbInv => UsbSemAccounting
  BY DEF UsbInv
<1> QED BY <1>1, InitUsbInv, NextUsbInv, PTL DEF Spec

-----------------------------------------------------------------------------
(* Types.  UsbInv has those of the reports main builds and sends.          *)

LEMMA StringTyped ==
  ASSUME AppTypeOK, NEW l \in Lines, string' = Strcpy(string, l)
  PROVE  string' \in [0 .. Size - 1 -> Char \union {Nul}]
<1>1. l \in Seq(Char) /\ Len(l) \in Nat /\ DOMAIN string = 0 .. Size - 1
  BY CharAssumption DEF AppTypeOK
<1>2. ASSUME NEW i \in 0 .. Size - 1 PROVE Strcpy(string, l)[i] \in Char \union {Nul}
  <2>1. i < Len(l) => l[i + 1] \in Char
    <3>1. i < Len(l) => i + 1 \in 1 .. Len(l)
      BY <1>1
    <3> QED BY <1>1, <3>1
  <2>2. Strcpy(string, l)[i] \in {l[i + 1], Nul, string[i]} /\ (~(i < Len(l)) => Strcpy(string, l)[i] \in {Nul, string[i]})
    BY <1>1 DEF Strcpy
  <2>3. string[i] \in Char \union {Nul}
    BY DEF AppTypeOK
  <2> QED BY <2>1, <2>2, <2>3
<1>3. Strcpy(string, l) = [i \in 0 .. Size - 1 |-> Strcpy(string, l)[i]]
  BY <1>1 DEF Strcpy
<1> QED BY <1>2, <1>3

LEMMA QuietTyped ==
  ASSUME AppTypeOK, UsbInv', UNCHANGED <<host, plugged, string, ptr, at, typed>>
  PROVE  AppTypeOK'
BY DEF AppTypeOK, UsbInv, Built

LEMMA HandlerTyped == ASSUME AppTypeOK, UsbInv', Handler PROVE AppTypeOK'
<1>1. /\ usbSem' \in {0, 1} /\ ep' \in [Endpoint -> Report] /\ rep' \in Report
      /\ left' \in [Stimuli \union {"unplug"} -> Nat]
  BY DEF UsbInv, Built
<1>2. UNCHANGED <<host, plugged, string, typed>>
  BY DEF Handler, ReadKey, ReadShift, TakeUsb, WriteReport, WriteText, Count, RaiseNext, RaiseNone,
         usbVars, strVars
<1>3. ptr' \in Nat
  <2>1. ptr \in Nat
    BY DEF AppTypeOK
  <2>2. ptr' \in {ptr, ptr + 1, 0}
    BY DEF Handler, ReadKey, ReadShift, TakeUsb, WriteReport, WriteText, Count, RaiseNext, RaiseNone,
           strVars
  <2> QED BY <2>1, <2>2
<1>4. at' \in {"start", "shift", "take", "write", "text", "count", "decide", "equal"}
  BY DEF Handler, ReadKey, ReadShift, TakeUsb, WriteReport, WriteText, Count, RaiseNext, RaiseNone
<1> QED BY <1>1, <1>2, <1>3, <1>4 DEF AppTypeOK

LEMMA NextTyped == AppTypeOK /\ UsbInv' /\ [Next]_vars => AppTypeOK'
<1> SUFFICES ASSUME AppTypeOK, UsbInv', [Next]_vars PROVE AppTypeOK'
  OBVIOUS
<1>1. ASSUME UNCHANGED appVars PROVE AppTypeOK'
  BY <1>1, QuietTyped DEF appVars, usbVars, strVars
<1>2. ASSUME NEW e \in Stimuli, Stimulus(e) PROVE AppTypeOK'
  <2>1. string' \in [0 .. Size - 1 -> Char \union {Nul}]
    BY <1>2, StringTyped DEF Stimulus, AppTypeOK
  <2>2. UNCHANGED <<host, plugged, ptr, at, typed>>
    BY <1>2 DEF Stimulus, usbVars
  <2> QED BY <2>1, <2>2 DEF AppTypeOK, UsbInv, Built
<1>3. ASSUME NEW h \in Endpoint, HostPolls(h) PROVE AppTypeOK'
  <2>1. ep[h] \in Report /\ host \in [Endpoint -> Report] /\ typed \in Seq(Report)
    BY DEF AppTypeOK
  <2>2. host' \in [Endpoint -> Report] /\ typed' \in Seq(Report)
    BY <1>3, <2>1 DEF HostPolls
  <2>3. UNCHANGED <<plugged, string, ptr, at>>
    BY <1>3 DEF HostPolls, strVars
  <2> QED BY <2>2, <2>3 DEF AppTypeOK, UsbInv, Built
<1>4. CASE Unplug \/ Replug
  <2>1. host' \in [Endpoint -> Report] /\ plugged' \in BOOLEAN
    BY <1>4, Reports DEF Unplug, Replug, AppTypeOK, Built
  <2>2. UNCHANGED <<string, ptr, at, typed>>
    BY <1>4 DEF Unplug, Replug, strVars
  <2> QED BY <2>1, <2>2 DEF AppTypeOK, UsbInv, Built
<1>5. CASE Handler
  BY <1>5, HandlerTyped
<1>6. ASSUME NEW c \in Context, Plumbing(RaiseStep(c)) PROVE AppTypeOK'
  BY <1>6, <1>1 DEF Plumbing
<1>7. CASE Plumbing(Boot) \/ Plumbing(TakeEvt) \/ Plumbing(Get) \/ Plumbing(Free)
  BY <1>7, <1>1 DEF Plumbing
<1>8. CASE UNCHANGED vars
  BY <1>8, <1>1 DEF vars
<1> QED BY <1>2, <1>3, <1>4, <1>5, <1>6, <1>7, <1>8 DEF Next

LEMMA InitAppTyped == Init => AppTypeOK
<1>1. Init => UsbInv
  BY InitUsbInv
<1>2. Init => host \in [Endpoint -> Report]
  BY Reports DEF Init, Built
<1> QED BY <1>1, <1>2 DEF Init, AppTypeOK, UsbInv, Built

(***************************************************************************)
(* Types of the application: what lies in the endpoints and has arrived at *)
(* the host are reports main builds, and the string stays within its       *)
(* buffer.                                                                 *)
(***************************************************************************)
THEOREM AppTypeCorrect == Spec => []AppTypeOK
BY InitAppTyped, NextTyped, InitUsbInv, NextUsbInv, PTL DEF Spec
-----------------------------------------------------------------------------
(* Where main is tells what it handles and what it is about to write.       *)

AtShape ==
  /\ at # "start" => mainAt = "handle"
  /\ at \in {"shift", "take", "count", "equal"} => cur = "HID_KBD_STRING"
  /\ at = "write" /\ cur # "HID_KBD_STRING" => rep = FixedReport(cur)

\* The host remembers a report of each endpoint.
HostInv == DOMAIN host = Endpoint

LEMMA InitShape == Init => HostInv /\ AtShape
BY DEF Init, EvtInit, HostInv, AtShape

LEMMA NextHost == HostInv /\ [Next]_vars => HostInv'
<1> SUFFICES ASSUME HostInv, [Next]_vars PROVE HostInv'
  OBVIOUS
<1>1. \/ host' = host \/ host' = [h \in Endpoint |-> Zero]
      \/ \E h \in Endpoint : host' = [host EXCEPT ![h] = ep[h]]
  BY DEF Next, Stimulus, HostPolls, Unplug, Replug, Plumbing, Handler, ReadKey,
         ReadShift, TakeUsb, WriteReport, WriteText, Count, RaiseNext, RaiseNone,
         vars, appVars, usbVars
<1> QED BY <1>1 DEF HostInv

LEMMA NextAtShape == IInv /\ UsbInv /\ AtShape /\ [Next]_vars => AtShape'
<1> SUFFICES ASSUME IInv, UsbInv, AtShape, [Next]_vars PROVE AtShape'
  OBVIOUS
<1> USE DEF AtShape
<1>1. ASSUME UNCHANGED <<at, rep, cur>>, mainAt' = mainAt \/ at = "start"
      PROVE  AtShape'
  BY <1>1 DEF FixedReport
<1>2. ASSUME at' = "start" PROVE AtShape'
  BY <1>2
<1>3. ASSUME NEW e \in Stimuli, Stimulus(e) PROVE AtShape'
  <2>1. UNCHANGED <<at, rep, cur, mainAt>>
    BY <1>3 DEF Stimulus, Interrupt, Alloc
  <2> QED BY <2>1, <1>1
<1>4. ASSUME NEW h \in Endpoint, HostPolls(h) PROVE AtShape'
  BY <1>4, <1>1 DEF HostPolls, evtVars, strVars
<1>5. CASE Unplug \/ Replug
  BY <1>5, <1>1 DEF Unplug, Replug, evtVars, strVars
<1>6. ASSUME NEW c \in Context, Plumbing(RaiseStep(c)) PROVE AtShape'
  <2>1. UNCHANGED <<at, rep>>
    BY <1>6 DEF Plumbing, appVars, strVars
  <2>2. cur' = cur /\ (mainAt' = mainAt \/ (c = "main" /\ step["main"] = "give"))
    BY <1>6 DEF Plumbing, RaiseStep, Put, Give, FlushGet, FlushFree, FlushEnd,
                Retry, At
  <2>3. step["main"] = "give" => mainAt = "raise"
    BY DEF IInv, MainShape
  <2> QED BY <2>1, <2>2, <2>3, <1>1
<1>7. CASE \/ Plumbing(Boot) \/ Plumbing(TakeEvt) \/ Plumbing(Get)
           \/ Plumbing(Free)
  <2>1. at' = at /\ mainAt # "handle"
    BY <1>7 DEF Plumbing, appVars, Boot, TakeEvt, Get, Free, MainAt
  <2> QED BY <2>1, <1>2
<1>8. CASE ReadKey \/ ReadShift \/ WriteText \/ Count
  <2>1. UNCHANGED <<mainAt, cur>> /\ mainAt = "handle"
    BY <1>8, Zenon DEF ReadKey, ReadShift, WriteText, Count, Handling, MainAt, InHandler,
                evtVars
  <2>2. \/ at' \in {"shift", "count", "take", "equal"} /\ cur = "HID_KBD_STRING"
        \/ at' = "decide"
    <3>1. CASE ReadKey
      BY <3>1 DEF ReadKey
    <3>2. CASE ReadShift
      <4>1. at = "shift" /\ at' = "take"
        BY <3>2, Zenon DEF ReadShift, Handling
      <4> QED BY <4>1
    <3>3. CASE WriteText
      BY <3>3 DEF WriteText
    <3>4. CASE Count
      BY <3>4 DEF Count, Handling
    <3> QED BY <1>8, <3>1, <3>2, <3>3, <3>4
  <2> QED BY <2>1, <2>2
<1>9. CASE TakeUsb
  <2>1. UNCHANGED <<mainAt, cur>> /\ mainAt = "handle" /\ at' = "write"
    BY <1>9 DEF TakeUsb, Handling, MainAt, InHandler, evtVars
  <2>2. cur # "HID_KBD_STRING" => rep' = FixedReport(cur)
    BY <1>9 DEF TakeUsb, Handling
  <2> QED BY <2>1, <2>2 DEF FixedReport
<1>10. CASE WriteReport
  <2>1. UNCHANGED <<mainAt, cur>> /\ mainAt = "handle"
    BY <1>10 DEF WriteReport, Handling, MainAt, InHandler, evtVars
  <2>2. \/ at' \in {"text", "decide"}
        \/ at' = "count" /\ cur = "HID_KBD_STRING"
    BY <1>10 DEF WriteReport
  <2> QED BY <2>1, <2>2
<1>11. ASSUME NEW f \in Hid, RaiseNext(f) PROVE AtShape'
  BY <1>11, <1>2 DEF RaiseNext
<1>12. CASE RaiseNone
  BY <1>12, <1>2 DEF RaiseNone
<1>13. CASE UNCHANGED vars
  BY <1>13, <1>1 DEF vars, evtVars, appVars, strVars
<1> QED
  BY <1>3, <1>4, <1>5, <1>6, <1>7, <1>8, <1>9, <1>10, <1>11, <1>12, <1>13
     DEF Next, Handler
-----------------------------------------------------------------------------
(* How an event moves on: it is in the hands of the context that raises it, *)
(* then in the FIFO, then handled by main.                                  *)

InFifo(e)  == \E i \in DOMAIN fifo : fifo[i] = e
InHand(e)  == \E c \in Context : step[c] = "put" /\ new[c] = e
Waiting(e) == InFifo(e) \/ InHand(e)

Step == {"none", "put", "give", "flush", "drop", "retry", "null"}

LEMMA AllocMoves ==
  ASSUME IInv, NEW c \in Context, NEW e \in Event, Alloc(c, e)
  PROVE  /\ Doomed => Doomed'
         /\ \A f : Waiting(f) => Waiting(f)'
         /\ \A f : Waiting(f)' => Waiting(f) \/ f = e
         /\ Waiting(e)' \/ Doomed'
<1> DEFINE s == IF used < Blocks THEN "put" ELSE "flush"
<1>1. /\ step \in [Context -> Step] /\ new \in [Context -> Event \union {NoEvent}]
      /\ step[c] = "none" /\ step' = [step EXCEPT ![c] = s] /\ s \in {"put", "flush"}
      /\ new' = [new EXCEPT ![c] = e] /\ fifo' = fifo
  <2>1. used \in Nat /\ Blocks \in Nat
    BY BlocksAssumption DEF IInv, TypeOK
  <2>2. TypeOK
    BY DEF IInv
  <2>3. /\ step[c] = "none" /\ new' = [new EXCEPT ![c] = e] /\ fifo' = fifo
        /\ step' = [step EXCEPT ![c] = s]
    BY <2>1 DEF Alloc, At, Goto
  <2> QED BY <2>2, <2>3 DEF TypeOK, Step
<1> HIDE DEF s
<1>2. ASSUME NEW f PROVE InFifo(f)' <=> InFifo(f)
  BY <1>1 DEF InFifo
<1>3. ASSUME NEW f, InHand(f) PROVE InHand(f)'
  BY <1>1, <1>3 DEF InHand
<1>4. ASSUME NEW f, InHand(f)' PROVE InHand(f) \/ f = e
  <2>1. PICK d \in Context : step'[d] = "put" /\ new'[d] = f
    BY <1>4 DEF InHand
  <2> QED BY <1>1, <2>1 DEF InHand
<1>5. s = "put" => InHand(e)'
  BY <1>1 DEF InHand
<1>6. s = "flush" => Doomed'
  BY <1>1 DEF Doomed
<1>7. Doomed => Doomed'
  BY <1>1 DEF Doomed
<1> QED BY <1>1, <1>2, <1>3, <1>4, <1>5, <1>6, <1>7 DEF Waiting

LEMMA RaiseMoves ==
  ASSUME IInv, NEW c \in Context, RaiseStep(c)
  PROVE  /\ Doomed => Doomed'
         /\ \A f : Waiting(f) => Waiting(f)' \/ Doomed'
         /\ \A f : Waiting(f)' => Waiting(f)
         /\ cur' = cur /\ (mainAt' = mainAt \/ (mainAt = "raise" /\ mainAt' = "free"))
<1>1. /\ step \in [Context -> Step] /\ new \in [Context -> Event \union {NoEvent}]
      /\ fifo \in Seq(Event)
  BY DEF IInv, TypeOK, Step
<1>2. CASE Put(c)
  <2>1. /\ fifo' = Append(fifo, new[c]) /\ new[c] \in Event /\ step[c] = "put"
        /\ step' = [step EXCEPT ![c] = "give"] /\ UNCHANGED <<new, mainAt, cur>>
    BY <1>2 DEF Put, At, Goto, NewShape, IInv
  <2>2. /\ fifo' \in Seq(Event) /\ Len(fifo) \in Nat
        /\ Len(fifo') = Len(fifo) + 1 /\ fifo'[Len(fifo) + 1] = new[c]
        /\ \A i \in 1 .. Len(fifo) : fifo'[i] = fifo[i]
    BY <1>1, <2>1, AppendProperties
  <2>3. DOMAIN fifo = 1 .. Len(fifo) /\ DOMAIN fifo' = 1 .. Len(fifo) + 1
    BY <1>1, <2>2
  <2>4. ASSUME NEW f PROVE Waiting(f) <=> Waiting(f)'
    <3>1. InFifo(f)' <=> InFifo(f) \/ f = new[c]
      BY <2>2, <2>3 DEF InFifo
    <3>2. InHand(f) <=> InHand(f)' \/ f = new[c]
      BY <1>1, <2>1 DEF InHand
    <3> QED BY <3>1, <3>2 DEF Waiting
  <2>5. Doomed => Doomed'
    BY <1>1, <2>1 DEF Doomed
  <2> QED BY <2>1, <2>4, <2>5
<1>3. CASE Give(c)
  <2>1. /\ step[c] = "give" /\ step' = [step EXCEPT ![c] = "none"]
        /\ new' = [new EXCEPT ![c] = NoEvent] /\ UNCHANGED <<fifo, cur>>
        /\ mainAt' = mainAt \/ (mainAt = "raise" /\ mainAt' = "free")
    BY <1>3 DEF Give, At, Goto, MainShape, IInv
  <2>2. ASSUME NEW f PROVE InHand(f) <=> InHand(f)'
    BY <1>1, <2>1 DEF InHand
  <2>3. Doomed => Doomed'
    BY <1>1, <2>1 DEF Doomed
  <2> QED BY <2>1, <2>2, <2>3 DEF Waiting, InFifo
<1>4. CASE FlushGet(c) \/ FlushFree(c) \/ FlushEnd(c) \/ Retry(c)
  <2>1. Doomed' /\ UNCHANGED <<new, mainAt, cur>>
    BY <1>1, <1>4 DEF FlushGet, FlushFree, FlushEnd, Retry, At, Goto, Doomed
  <2>2. step[c] # "put" /\ \E s \in {"flush", "drop", "retry", "null"} : step' = [step EXCEPT ![c] = s]
    BY <1>4 DEF FlushGet, FlushFree, FlushEnd, Retry, At, Goto
  <2>3. ASSUME NEW f, InHand(f)' PROVE InHand(f)
    BY <1>1, <2>1, <2>2, <2>3 DEF InHand
  <2>4. ASSUME NEW f, InFifo(f)' PROVE InFifo(f)
    <3>1. CASE fifo' = fifo
      BY <2>4, <3>1 DEF InFifo
    <3>2. CASE fifo # <<>> /\ fifo' = Tail(fifo)
      <4>1. /\ Len(fifo) \in Nat /\ DOMAIN fifo = 1 .. Len(fifo)
            /\ DOMAIN fifo' = 1 .. Len(fifo) - 1
            /\ \A i \in 1 .. Len(fifo) - 1 : fifo'[i] = fifo[i + 1]
        BY <1>1, <3>2
      <4>2. \A i \in 1 .. Len(fifo) - 1 : i + 1 \in 1 .. Len(fifo)
        BY <4>1
      <4> QED BY <2>4, <4>1, <4>2 DEF InFifo
    <3> QED BY <1>4, <3>1, <3>2 DEF FlushGet, FlushFree, FlushEnd, Retry
  <2> QED BY <2>1, <2>3, <2>4 DEF Waiting
<1> QED BY <1>2, <1>3, <1>4 DEF RaiseStep

LEMMA LoopMoves ==
  ASSUME IInv, Boot \/ TakeEvt \/ Get \/ Free
  PROVE  /\ mainAt # "handle" /\ Doomed' = Doomed
         /\ \A f : Waiting(f) => Waiting(f)' \/ Handled(f)'
         /\ \A f : Waiting(f)' \/ Handled(f)' => Waiting(f)
<1>1. /\ mainAt # "handle" /\ UNCHANGED <<step, new>> /\ Doomed' = Doomed
  BY DEF Boot, TakeEvt, Get, Free, MainAt, Doomed
<1>2. ASSUME NEW f PROVE InHand(f) <=> InHand(f)'
  BY <1>1 DEF InHand
<1>3. CASE Get /\ fifo # <<>>
  <2>1. cur' = Head(fifo) /\ fifo' = Tail(fifo) /\ mainAt' = "handle"
    BY <1>3 DEF Get
  <2>2. fifo \in Seq(Event)
    BY DEF IInv, TypeOK
  <2>3. /\ cur' = fifo[1] /\ Len(fifo) \in Nat /\ Len(fifo) > 0
        /\ \A i \in 1 .. Len(fifo) - 1 : fifo'[i] = fifo[i + 1]
        /\ DOMAIN fifo = 1 .. Len(fifo) /\ DOMAIN fifo' = 1 .. Len(fifo) - 1
    BY <1>3, <2>1, <2>2
  <2>4. ASSUME NEW f PROVE InFifo(f) <=> InFifo(f)' \/ f = fifo[1]
    <3>1. ASSUME NEW i \in DOMAIN fifo, i # 1, fifo[i] = f PROVE InFifo(f)'
      <4>1. i - 1 \in DOMAIN fifo' /\ fifo'[i - 1] = f
        BY <2>3, <3>1
      <4> QED BY <4>1 DEF InFifo
    <3>2. ASSUME NEW i \in DOMAIN fifo', fifo'[i] = f PROVE InFifo(f)
      <4>1. i + 1 \in DOMAIN fifo /\ fifo[i + 1] = f
        BY <2>3, <3>2
      <4> QED BY <4>1 DEF InFifo
    <3>3. 1 \in DOMAIN fifo
      BY <2>3
    <3> QED BY <3>1, <3>2, <3>3 DEF InFifo
  <2> QED BY <1>1, <1>2, <2>1, <2>3, <2>4 DEF Waiting, Handled
<1>4. CASE ~(Get /\ fifo # <<>>)
  <2>1. fifo' = fifo /\ mainAt' # "handle"
    BY <1>4 DEF Boot, TakeEvt, Get, Free
  <2> QED BY <1>1, <1>2, <2>1 DEF Waiting, InFifo, Handled
<1> QED BY <1>3, <1>4
-----------------------------------------------------------------------------
(* A click is released.  What MouseReleaseComing leaves out is where main   *)
(* is: a clear event it has already carried out does not help any more.     *)

\* Nothing is pressed on a host that is away.
AwayInv == ~plugged => LastReport("hid0") # Active

Clear == "HID_MOUSE_CLEAR"

Clearing == Handled(Clear) /\ at \in {"start", "write"}
Clicking == mainAt = "handle" /\ cur \in MouseEvt /\ at \in {"text", "decide"}

ReleaseDue == Doomed \/ Waiting(Clear) \/ Clearing \/ Clicking
ClickInv   == LastReport("hid0") = Active => ReleaseDue

MInv == IInv /\ UsbInv /\ HostInv /\ AtShape /\ AwayInv /\ ClickInv

LEMMA MInvImplies == MInv => MouseReleaseComing
BY DEF MInv, ClickInv, ReleaseDue, Waiting, InFifo, InHand, Handled, Clearing, Clicking,
       MouseReleaseComing, Coming, Clear

LEMMA ReportsDiffer == Zero # Active /\ NoReport # Active /\ Caps # Active
BY DEF Zero, Active, NoReport, Caps

LEMMA InitMInv == Init => HostInv /\ AtShape /\ AwayInv /\ ClickInv
BY InitShape, ReportsDiffer, Units DEF Init, AwayInv, ClickInv, LastReport

(* How the promise of a release moves on, step by step. *)

LEMMA AllocDue ==
  ASSUME IInv, NEW c \in Context, NEW e \in Event, Alloc(c, e), ReleaseDue,
         UNCHANGED <<mainAt, at>>
  PROVE  ReleaseDue'
<1>1. cur' = cur
  BY DEF Alloc
<1> QED BY <1>1, AllocMoves DEF ReleaseDue, Clearing, Clicking, Handled

LEMMA RaiseDue ==
  ASSUME MInv, NEW c \in Context, RaiseStep(c), ReleaseDue, at' = at
  PROVE  ReleaseDue'
BY RaiseMoves DEF MInv, ReleaseDue, Clearing, Clicking, Handled

LEMMA LoopDue ==
  ASSUME MInv, Boot \/ TakeEvt \/ Get \/ Free, ReleaseDue, at' = at
  PROVE  ReleaseDue'
<1>1. at = "start"
  BY LoopMoves DEF MInv, AtShape
<1> QED BY <1>1, LoopMoves DEF MInv, ReleaseDue, Clearing, Clicking, Handled

LEMMA SameDue ==
  ASSUME UNCHANGED evtVars, ReleaseDue,
         Clearing => at' \in {"start", "write"}, Clicking => at' \in {"text", "decide"}
  PROVE  ReleaseDue'
BY DEF evtVars, ReleaseDue, Doomed, Waiting, InFifo, InHand, Handled, Clearing, Clicking

\* A step that leaves the mouse endpoint alone and keeps the promise.
LEMMA SameMouse ==
  ASSUME MInv, LastReport("hid0")' = LastReport("hid0"), plugged' = plugged,
         ReleaseDue => ReleaseDue'
  PROVE  AwayInv' /\ ClickInv'
BY DEF MInv, AwayInv, ClickInv

LEMMA WriteReportClick == MInv /\ WriteReport => AwayInv' /\ ClickInv'
<1> SUFFICES ASSUME MInv, WriteReport PROVE AwayInv' /\ ClickInv'
  OBVIOUS
<1>1. /\ mainAt = "handle" /\ at = "write" /\ UNCHANGED <<evtVars, host, plugged>>
  BY DEF WriteReport, Handling, MainAt, InHandler
<1>2. ep \in [Endpoint -> Report] /\ rep # NoReport
  BY Reports DEF MInv, UsbInv, Built
<1>3. CASE plugged /\ EndpointOf(cur) = "hid0"
  <2>1. cur \in MouseEvt \union {Clear} /\ rep = FixedReport(cur)
    BY <1>1, <1>3 DEF EndpointOf, MInv, AtShape, Clear, MouseEvt, Moves
  <2>2. LastReport("hid0")' = rep
    <3>1. ep' = [ep EXCEPT !["hid0"] = rep]
      BY <1>3 DEF WriteReport
    <3> QED BY <1>2, <3>1, Units DEF LastReport
  <2>3. CASE cur = Clear
    <3>1. rep = Zero
      BY <2>1, <2>3 DEF FixedReport, ClearEvt, Clear
    <3> QED BY <1>1, <1>3, <2>2, <3>1, ReportsDiffer DEF AwayInv, ClickInv
  <2>4. CASE cur \in MouseEvt
    <3>1. at' = "text" /\ mainAt' = mainAt /\ cur' = cur
      BY <1>1, <2>4 DEF WriteReport, ClearEvt, MouseEvt, Moves, evtVars
    <3>2. Clicking'
      BY <1>1, <2>4, <3>1 DEF Clicking
    <3> QED BY <1>1, <1>3, <3>2 DEF AwayInv, ClickInv, ReleaseDue
  <2> QED BY <2>1, <2>3, <2>4
<1>4. CASE ~plugged
  <2>1. LastReport("hid0")' = LastReport("hid0")
    BY <1>1, <1>4 DEF WriteReport, LastReport
  <2> QED BY <1>1, <1>4, <2>1 DEF MInv, AwayInv, ClickInv
<1>5. CASE plugged /\ EndpointOf(cur) # "hid0"
  <2>1. LastReport("hid0")' = LastReport("hid0")
    <3>1. ep' = [ep EXCEPT !["hid1"] = rep]
      BY <1>5 DEF WriteReport, EndpointOf
    <3> QED BY <1>1, <1>2, <3>1, Units DEF LastReport
  <2>2. ~Clearing /\ ~Clicking
    BY <1>1, <1>5 DEF Clearing, Clicking, Handled, EndpointOf, Clear
  <2> QED BY <1>1, <2>1, <2>2, SameDue, SameMouse
<1> QED BY <1>3, <1>4, <1>5

LEMMA HandlerClick == MInv /\ Handler => AwayInv' /\ ClickInv'
<1> SUFFICES ASSUME MInv, Handler PROVE AwayInv' /\ ClickInv'
  OBVIOUS
<1>1. CASE ReadKey \/ ReadShift \/ Count
  <2>1. /\ UNCHANGED <<evtVars, ep, host, plugged>>
        /\ cur = "HID_KBD_STRING"
    BY <1>1, Zenon DEF ReadKey, ReadShift, Count, Handling, InHandler, usbVars,
                       MInv, AtShape
  <2>2. ~Clearing /\ ~Clicking
    BY <2>1 DEF Clearing, Clicking, Handled, Clear, MouseEvt, Moves
  <2> QED BY <2>1, <2>2, SameDue, SameMouse DEF LastReport
<1>2. CASE WriteText
  <2>1. /\ UNCHANGED <<evtVars, ep, host, plugged>> /\ at' = "decide"
        /\ at = "text" \/ cur \in TextOnly
    BY <1>2 DEF WriteText, Handling, InHandler, usbVars
  <2>2. ~Clearing
    BY <2>1 DEF Clearing, Handled, Clear, TextOnly
  <2> QED BY <2>1, <2>2, SameDue, SameMouse DEF LastReport
<1>3. CASE TakeUsb
  <2>1. /\ UNCHANGED <<evtVars, ep, host, plugged>> /\ at' = "write"
        /\ at \in {"take", "start"}
    BY <1>3 DEF TakeUsb, Handling, InHandler
  <2>2. ~Clicking
    BY <2>1 DEF Clicking
  <2> QED BY <2>1, <2>2, SameDue, SameMouse DEF LastReport
<1>4. CASE WriteReport
  BY <1>4, WriteReportClick
<1>5. ASSUME NEW f \in Hid, RaiseNext(f) PROVE AwayInv' /\ ClickInv'
  <2>1. /\ UNCHANGED <<ep, host, plugged>> /\ Alloc("main", f) /\ Raises(f)
        /\ at \in {"decide", "equal"} /\ cur' = cur
    BY <1>5 DEF RaiseNext, FollowUp, Alloc, usbVars, Raises, AtEnd, Handling, Hid
  <2>2. /\ Doomed => Doomed'
        /\ Waiting(Clear) => Waiting(Clear)'
        /\ Waiting(f)' \/ Doomed'
    <3>1. "main" \in Context /\ f \in Event
      BY EventFacts DEF Context
    <3> QED BY <2>1, <3>1, AllocMoves DEF MInv
  <2>3. Clicking => f = Clear
    BY <2>1 DEF Clicking, Raises, AtEnd, Handling, MouseEvt, Moves, Hid, Clear
  <2>4. ~Clearing
    BY <2>1 DEF Clearing
  <2>5. ReleaseDue => ReleaseDue'
    BY <2>2, <2>3, <2>4 DEF ReleaseDue
  <2> QED BY <2>1, <2>5, SameMouse DEF LastReport
<1>6. CASE RaiseNone
  <2>1. /\ UNCHANGED <<ep, host, plugged, fifo, step, new, cur>>
        /\ at \in {"decide", "equal"} /\ ~Raises(Clear) /\ MainAt("handle")
    BY <1>6 DEF RaiseNone, HandlerEnds, usbVars, Handling, Hid, Clear
  <2>2. ~Clearing /\ ~Clicking
    BY <2>1 DEF Clearing, Clicking, Handled, Raises, Handling, Clear
  <2>3. ReleaseDue => ReleaseDue'
    BY <2>1, <2>2 DEF ReleaseDue, Doomed, Waiting, InFifo, InHand
  <2> QED BY <2>1, <2>3, SameMouse DEF LastReport
<1> QED BY <1>1, <1>2, <1>3, <1>4, <1>5, <1>6 DEF Handler

LEMMA NextClick == MInv /\ [Next]_vars => AwayInv' /\ ClickInv'
<1> SUFFICES ASSUME MInv, [Next]_vars PROVE AwayInv' /\ ClickInv'
  OBVIOUS
<1>1. CASE Handler
  BY <1>1, HandlerClick
<1>2. ASSUME NEW e \in Stimuli, Stimulus(e) PROVE AwayInv' /\ ClickInv'
  <2> DEFINE c == IF e \in Buttons THEN "gpio" ELSE "usbwq"
  <2>1. /\ c \in Context /\ Alloc(c, e) /\ e \in Event
        /\ UNCHANGED <<mainAt, at, ep, host, plugged>>
    BY <1>2, EventFacts DEF Stimulus, Interrupt, usbVars, Context
  <2> HIDE DEF c
  <2> QED BY <2>1, AllocDue, SameMouse DEF MInv, LastReport
<1>3. ASSUME NEW h \in Endpoint, HostPolls(h) PROVE AwayInv' /\ ClickInv'
  <2>1. /\ UNCHANGED <<evtVars, plugged, at>> /\ ep[h] # NoReport
        /\ host' = [host EXCEPT ![h] = ep[h]]
        /\ ep' = [ep EXCEPT ![h] = NoReport]
    BY <1>3 DEF HostPolls
  <2>2. ReleaseDue => ReleaseDue'
    BY <2>1, SameDue DEF Clearing, Clicking, Handled
  <2>3. CASE h # "hid0"
    <3>1. ep'["hid0"] = ep["hid0"] /\ host'["hid0"] = host["hid0"]
      BY <2>1, <2>3
    <3> QED BY <2>1, <2>2, <3>1, SameMouse DEF LastReport
  <2>4. CASE h = "hid0"
    <3>1. ep'["hid0"] = NoReport /\ host'["hid0"] = ep["hid0"]
      BY <2>1, <2>4 DEF MInv, UsbInv, HostInv
    <3> QED BY <2>1, <2>2, <2>4, <3>1, SameMouse DEF LastReport
  <2> QED BY <2>3, <2>4
<1>4. CASE Unplug
  <2>1. LastReport("hid0")' = Zero
    BY <1>4, Units DEF Unplug, LastReport
  <2> QED BY <2>1, ReportsDiffer DEF AwayInv, ClickInv
<1>5. CASE Replug
  <2>1. UNCHANGED <<evtVars, ep, host, at>> /\ ~plugged /\ plugged'
    BY <1>5 DEF Replug
  <2> QED BY <2>1 DEF MInv, AwayInv, ClickInv, LastReport
<1>6. ASSUME NEW c \in Context, Plumbing(RaiseStep(c)) PROVE AwayInv' /\ ClickInv'
  BY <1>6, RaiseDue, SameMouse DEF Plumbing, appVars, usbVars, LastReport
<1>7. CASE \/ Plumbing(Boot) \/ Plumbing(TakeEvt) \/ Plumbing(Get)
           \/ Plumbing(Free)
  BY <1>7, LoopDue, SameMouse DEF Plumbing, appVars, usbVars, LastReport
<1>8. CASE UNCHANGED vars
  BY <1>8, SameDue, SameMouse DEF vars, appVars, usbVars, LastReport, Clearing, Clicking, Handled
<1> QED BY <1>1, <1>2, <1>3, <1>4, <1>5, <1>6, <1>7, <1>8 DEF Next

(***************************************************************************)
(* A mouse press or movement that the host has seen or will see always has *)
(* its release on the way, whatever interrupts main and however often the  *)
(* host goes away, unless the pool is exhausted.                           *)
(***************************************************************************)
THEOREM ClickIsReleased == Spec => []MouseReleaseComing
<1>1. Init => MInv
  BY InitMInv, InitIInv, InitUsbInv DEF MInv, Init
<1>2. MInv /\ [Next]_vars => MInv'
  BY NextIInv, StepsOfEvents, NextUsbInv, NextHost, NextAtShape, NextClick
     DEF MInv
<1> QED BY <1>1, <1>2, MInvImplies, PTL DEF Spec

-----------------------------------------------------------------------------
(***************************************************************************)
(* A key is released.  The theorem is about one line that the host may     *)
(* send again and again: another one may replace the string while main is  *)
(* in the middle of it, and then the release can be lost.                  *)
(*                                                                         *)
(* Every press of button 2 starts the string from the beginning, and a     *)
(* press while main is typing adds a second HID_KBD_STRING that goes       *)
(* round.  All of them move str_pointer, and those that find it past the   *)
(* end may press whatever lies there.  They do no harm, because the clear  *)
(* event that the first one to reach the end raised is behind all of them. *)
(***************************************************************************)
Ask      == "GPIO_BUTTON_2"
KeyClear == "HID_KBD_CLEAR"

OneLine == \A l, m \in Lines : l = m
TheLine == IF Lines = {} THEN <<>> ELSE CHOOSE l \in Lines : TRUE
N       == Len(TheLine)

Blank   == [i \in 0 .. Size - 1 |-> Nul]
Saved   == [i \in 0 .. Size - 1 |-> IF i < N THEN TheLine[i + 1] ELSE Nul]
HasText == Strlen(string) > 0

Streaming == Waiting(Stream) \/ Handled(Stream)

StringInv == /\ string \in {Blank, Saved}
             /\ ~HasText => ptr = 0 /\ ~Streaming

PlaceInv == /\ Handled(Stream) => /\ at = "decide" => ptr < N
                                  /\ at = "equal" => ptr >= N
                                  /\ at # "text"
            /\ at = "write" => cur \notin TextOnly

\* Only main raises HID_KBD_STRING.
StreamInv == \A c \in Context : step[c] = "put" /\ new[c] = Stream => c = "main"

\* A clear event that comes after every HID_KBD_STRING.
ClearLast ==
  \/ step["main"] = "put" /\ new["main"] = KeyClear
  \/ /\ \E j \in DOMAIN fifo : /\ fifo[j] = KeyClear
                               /\ \A i \in DOMAIN fifo : fifo[i] = Stream => i < j
     /\ ~InHand(Stream)

\* main has counted up to the end and is going to raise the clear event.
AtTheEnd == Handled(Stream) /\ at = "equal" /\ ptr = N

EndInv == HasText /\ ptr >= N => Doomed \/ ClearLast \/ AtTheEnd \/ ~Streaming

KeyDue == \/ Doomed
          \/ Waiting(KeyClear)
          \/ Handled(KeyClear) /\ at \in {"start", "write"}
          \/ Handled("GPIO_BUTTON_3") /\ at \in {"text", "decide"}
          \/ Streaming /\ ptr < N
          \/ AtTheEnd

KeyInv  == LastReport("hid1").key # "zero" => KeyDue
KeyAway == ~plugged => LastReport("hid1").key = "zero"

Keys == StringInv /\ PlaceInv /\ StreamInv /\ EndInv /\ KeyInv /\ KeyAway
KInv == IInv /\ UsbInv /\ HostInv /\ AtShape /\ AppTypeOK /\ Keys

LEMMA LineFacts ==
  ASSUME OneLine
  PROVE  /\ N \in Nat /\ N < Size /\ Size \in Nat \ {0} /\ TheLine \in Seq(Char \union {Nul})
         /\ \A l \in Lines : l = TheLine
<1>1. CASE Lines = {}
  BY <1>1, CharAssumption DEF TheLine, N
<1>2. CASE Lines # {}
  <2>1. TheLine \in Lines
    BY <1>2 DEF TheLine
  <2>2. TheLine \in Seq(Char) /\ Len(TheLine) < Size
    BY <2>1, CharAssumption
  <2>3. TheLine \in Seq(Char \union {Nul}) /\ Len(TheLine) \in Nat
    BY <2>2
  <2> QED BY <2>1, <2>2, <2>3, CharAssumption DEF OneLine, N
<1> QED BY <1>1, <1>2

LEMMA TheLineTyped == ASSUME OneLine PROVE TheLine \in Seq(Char)
<1>1. CASE Lines = {}
  BY <1>1 DEF TheLine
<1>2. CASE Lines # {}
  BY <1>2, CharAssumption DEF TheLine
<1> QED BY <1>1, <1>2

LEMMA SavedFacts ==
  ASSUME OneLine
  PROVE  /\ Strlen(Saved) = N /\ Strlen(Blank) = 0
         /\ \A i \in 0 .. Size - 1 : i >= N => Saved[i] = Nul
<1>1. N \in Nat /\ N < Size /\ Size \in Nat \ {0}
  BY LineFacts
<1>2. ASSUME NEW i \in 0 .. N - 1 PROVE Saved[i] = TheLine[i + 1] /\ Saved[i] # Nul
  <2>1. i \in 0 .. Size - 1 /\ i < N /\ i + 1 \in 1 .. Len(TheLine)
    BY <1>1 DEF N
  <2>2. TheLine[i + 1] \in Char
    BY <2>1, TheLineTyped
  <2> QED BY <2>1, <2>2, CharAssumption DEF Saved
<1>3. ASSUME NEW i \in 0 .. Size - 1, i >= N PROVE Saved[i] = Nul
  BY <1>1, <1>3 DEF Saved
<1>4. Strlen(Saved) = N
  <2>1. DOMAIN Saved = 0 .. Size - 1
    BY DEF Saved
  <2>2. N \in DOMAIN Saved /\ Saved[N] = Nul /\ \A i \in 0 .. N - 1 : Saved[i] # Nul
    BY <1>1, <1>2, <1>3, <2>1
  <2>3. ASSUME NEW n \in DOMAIN Saved, Saved[n] = Nul, \A i \in 0 .. n - 1 : Saved[i] # Nul
        PROVE  n = N
    BY <1>1, <2>1, <2>2, <2>3
  <2> QED BY <2>2, <2>3 DEF Strlen
<1>5. Strlen(Blank) = 0
  <2>1. DOMAIN Blank = 0 .. Size - 1 /\ \A i \in 0 .. Size - 1 : Blank[i] = Nul
    BY DEF Blank
  <2>2. 0 \in DOMAIN Blank /\ Blank[0] = Nul /\ \A i \in 0 .. 0 - 1 : Blank[i] # Nul
    BY <1>1, <2>1
  <2>3. ASSUME NEW n \in DOMAIN Blank, Blank[n] = Nul, \A i \in 0 .. n - 1 : Blank[i] # Nul
        PROVE  n = 0
    BY <1>1, <2>1, <2>3
  <2> QED BY <2>2, <2>3 DEF Strlen
<1> QED BY <1>3, <1>4, <1>5

\* strcpy of the one line gives the one string.
LEMMA Copied ==
  ASSUME OneLine, NEW l \in Lines, NEW s \in {Blank, Saved}
  PROVE  Strcpy(s, l) = Saved
<1>1. /\ l = TheLine /\ N = Len(l) /\ N \in Nat /\ N < Size /\ Size \in Nat
      /\ DOMAIN s = 0 .. Size - 1
  BY LineFacts DEF N, Blank, Saved
<1>2. ASSUME NEW i \in 0 .. Size - 1
      PROVE (IF i < Len(l) THEN l[i + 1] ELSE IF i = Len(l) THEN Nul ELSE s[i])
              = IF i < N THEN TheLine[i + 1] ELSE Nul
  <2>1. i > N => s[i] = Nul
    BY <1>1 DEF Blank, Saved
  <2> QED BY <1>1, <2>1
<1> QED BY <1>1, <1>2 DEF Strcpy, Saved

\* What the string tells while it holds the line.
LEMMA TextFacts ==
  ASSUME OneLine, StringInv
  PROVE  /\ HasText => string = Saved /\ Strlen(string) = N /\ N > 0
         /\ ~HasText => ptr = 0 /\ ~Streaming
BY LineFacts, SavedFacts DEF StringInv, HasText

LEMMA Numbers ==
  ASSUME AppTypeOK, OneLine
  PROVE  ptr \in Nat /\ N \in Nat
BY LineFacts DEF AppTypeOK

LEMMA EventsSame ==
  ASSUME UNCHANGED evtVars
  PROVE  /\ Doomed' <=> Doomed
         /\ \A f : (Waiting(f)' <=> Waiting(f)) /\ (Handled(f)' <=> Handled(f))
         /\ (Streaming' <=> Streaming) /\ (ClearLast' <=> ClearLast)
         /\ StreamInv => StreamInv'
<1>1. UNCHANGED <<fifo, step, new, mainAt, cur>>
  BY DEF evtVars
<1>2. Doomed' <=> Doomed
  BY <1>1 DEF Doomed
<1>3. ASSUME NEW f PROVE (Waiting(f)' <=> Waiting(f)) /\ (Handled(f)' <=> Handled(f))
  BY <1>1 DEF Waiting, InFifo, InHand, Handled
<1>4. (ClearLast' <=> ClearLast) /\ (StreamInv => StreamInv')
  BY <1>1 DEF ClearLast, InHand, StreamInv
<1> QED BY <1>2, <1>3, <1>4 DEF Streaming

\* The events differ from each other.
LEMMA EventsDiffer ==
  /\ Stream \notin Stimuli /\ KeyClear \notin Stimuli
  /\ Stream # KeyClear /\ Ask # Stream /\ Ask # KeyClear
  /\ Stream \in Event /\ KeyClear \in Event
BY StimuliAssumption DEF Stream, KeyClear, Ask, Buttons, CdcLine, Moves, Event, Hid

-----------------------------------------------------------------------------
(* The clear event stays behind the last HID_KBD_STRING.                   *)

LEMMA AllocLast ==
  ASSUME IInv, StreamInv, NEW c \in Context, NEW e \in Event, Alloc(c, e), e = Stream => c = "main"
  PROVE  /\ StreamInv'
         /\ e # Stream => (Waiting(Stream)' => Waiting(Stream)) /\ (ClearLast => ClearLast')
<1>1. /\ step \in [Context -> Step] /\ new \in [Context -> Event \union {NoEvent}]
      /\ step[c] = "none" /\ fifo' = fifo /\ new' = [new EXCEPT ![c] = e]
      /\ \E s \in Step : step' = [step EXCEPT ![c] = s]
  BY DEF IInv, TypeOK, Step, Alloc, At, Goto
<1>2. StreamInv'
  BY <1>1 DEF StreamInv
<1>3. ASSUME e # Stream PROVE Waiting(Stream)' => Waiting(Stream)
  BY <1>3, AllocMoves
<1>4. ASSUME e # Stream, ClearLast PROVE ClearLast'
  <2>1. CASE step["main"] = "put" /\ new["main"] = KeyClear
    BY <1>1, <2>1 DEF ClearLast, Context
  <2>2. CASE ~(step["main"] = "put" /\ new["main"] = KeyClear)
    <3>1. ~InHand(Stream)'
      BY <1>1, <1>4, <2>2 DEF ClearLast, InHand
    <3> QED BY <1>1, <1>4, <2>2, <3>1 DEF ClearLast
  <2> QED BY <2>1, <2>2
<1> QED BY <1>2, <1>3, <1>4

LEMMA RaiseLast ==
  ASSUME IInv, StreamInv, NEW c \in Context, RaiseStep(c)
  PROVE  StreamInv' /\ (ClearLast => ClearLast' \/ Doomed')
<1>1. /\ step \in [Context -> Step] /\ new \in [Context -> Event \union {NoEvent}]
      /\ fifo \in Seq(Event)
  BY DEF IInv, TypeOK, Step
<1>2. /\ \E s \in Step : s # "put" /\ step' = [step EXCEPT ![c] = s]
      /\ new' = new \/ new' = [new EXCEPT ![c] = NoEvent]
  BY DEF RaiseStep, Put, Give, FlushGet, FlushFree, FlushEnd, Retry, At, Goto, Step
<1>3. StreamInv'
  BY <1>1, <1>2 DEF StreamInv
<1>4. InHand(Stream)' => InHand(Stream)
  BY <1>1, <1>2 DEF InHand
<1>5. ASSUME Put(c), ClearLast PROVE ClearLast'
  <2>1. /\ fifo' = Append(fifo, new[c]) /\ new[c] \in Event /\ step[c] = "put"
        /\ step' = [step EXCEPT ![c] = "give"] /\ UNCHANGED new
    BY <1>5 DEF Put, At, Goto, NewShape, IInv
  <2>2. /\ Len(fifo) \in Nat /\ fifo'[Len(fifo) + 1] = new[c]
        /\ \A i \in 1 .. Len(fifo) : fifo'[i] = fifo[i]
        /\ DOMAIN fifo = 1 .. Len(fifo) /\ DOMAIN fifo' = 1 .. Len(fifo) + 1
    BY <1>1, <2>1, AppendProperties
  <2>3. CASE step["main"] = "put" /\ new["main"] = KeyClear
    <3>1. CASE c = "main"
      <4>1. ~InHand(Stream)'
        BY <1>1, <1>3, <2>1, <3>1 DEF StreamInv, InHand
      <4>2. \A i \in DOMAIN fifo' : fifo'[i] = Stream => i < Len(fifo) + 1
        BY <2>2, <2>3, <3>1, EventsDiffer
      <4> QED BY <2>2, <2>3, <3>1, <4>1, <4>2 DEF ClearLast
    <3>2. CASE c # "main"
      BY <1>1, <2>1, <2>3, <3>2 DEF ClearLast, Context
    <3> QED BY <3>1, <3>2
  <2>4. CASE ~(step["main"] = "put" /\ new["main"] = KeyClear)
    <3>1. PICK j \in DOMAIN fifo : /\ fifo[j] = KeyClear
                                   /\ \A i \in DOMAIN fifo : fifo[i] = Stream => i < j
      BY <1>5, <2>4 DEF ClearLast
    <3>2. ~InHand(Stream) /\ new[c] # Stream
      BY <1>5, <2>1, <2>4 DEF ClearLast, InHand
    <3>3. j \in DOMAIN fifo' /\ fifo'[j] = KeyClear
      BY <2>2, <3>1
    <3>4. \A i \in DOMAIN fifo' : fifo'[i] = Stream => i < j
      BY <2>2, <3>1, <3>2
    <3> QED BY <1>4, <3>2, <3>3, <3>4 DEF ClearLast
  <2> QED BY <2>3, <2>4
<1>6. ASSUME Give(c), ClearLast PROVE ClearLast'
  <2>1. /\ step[c] = "give" /\ new' = [new EXCEPT ![c] = NoEvent] /\ fifo' = fifo
        /\ step' = [step EXCEPT ![c] = "none"]
    BY <1>6 DEF Give, At, Goto
  <2>2. step["main"] = "put" => step'["main"] = "put" /\ new'["main"] = new["main"]
    BY <1>1, <2>1 DEF Context
  <2> QED BY <1>4, <1>6, <2>1, <2>2 DEF ClearLast
<1>7. CASE FlushGet(c) \/ FlushFree(c) \/ FlushEnd(c) \/ Retry(c)
  <2>1. Doomed'
    BY <1>1, <1>7 DEF FlushGet, FlushFree, FlushEnd, Retry, At, Goto, Doomed
  <2> QED BY <1>3, <2>1
<1> QED BY <1>3, <1>5, <1>6, <1>7 DEF RaiseStep

LEMMA LoopLast ==
  ASSUME IInv, StreamInv, Boot \/ TakeEvt \/ Get \/ Free
  PROVE  StreamInv' /\ (ClearLast => ClearLast' \/ ~Streaming')
<1>1. UNCHANGED <<step, new>> /\ step["main"] = "none" /\ fifo \in Seq(Event)
  BY DEF Boot, TakeEvt, Get, Free, MainAt, At, IInv, TypeOK
<1>2. StreamInv' /\ (InHand(Stream)' <=> InHand(Stream))
  BY <1>1 DEF StreamInv, InHand
<1>3. ASSUME ClearLast, Get, fifo # <<>> PROVE ClearLast' \/ ~Streaming'
  <2>1. PICK j \in DOMAIN fifo : /\ fifo[j] = KeyClear
                                 /\ \A i \in DOMAIN fifo : fifo[i] = Stream => i < j
    BY <1>1, <1>3 DEF ClearLast
  <2>2. cur' = Head(fifo) /\ fifo' = Tail(fifo) /\ ~InHand(Stream)
    BY <1>1, <1>3 DEF Get, ClearLast
  <2>3. /\ cur' = fifo[1] /\ Len(fifo) \in Nat /\ Len(fifo) > 0
        /\ \A i \in 1 .. Len(fifo) - 1 : fifo'[i] = fifo[i + 1]
        /\ DOMAIN fifo = 1 .. Len(fifo) /\ DOMAIN fifo' = 1 .. Len(fifo) - 1
    BY <1>1, <1>3, <2>2
  <2>4. CASE j = 1
    <3>1. ~InFifo(Stream)'
      BY <2>1, <2>3, <2>4 DEF InFifo
    <3>2. ~Handled(Stream)'
      BY <2>1, <2>3, <2>4, EventsDiffer DEF Handled
    <3> QED BY <1>2, <2>2, <3>1, <3>2 DEF Streaming, Waiting
  <2>5. CASE j # 1
    <3>1. j - 1 \in DOMAIN fifo' /\ fifo'[j - 1] = KeyClear
      BY <2>1, <2>3, <2>5
    <3>2. \A i \in DOMAIN fifo' : fifo'[i] = Stream => i < j - 1
      <4>1. ASSUME NEW i \in DOMAIN fifo', fifo'[i] = Stream PROVE i < j - 1
        <5>1. i + 1 \in DOMAIN fifo /\ fifo[i + 1] = Stream
          BY <2>3, <4>1
        <5>2. i + 1 < j
          BY <2>1, <5>1
        <5> QED BY <2>3, <4>1, <5>2
      <4> QED BY <4>1
    <3> QED BY <1>2, <2>2, <3>1, <3>2 DEF ClearLast
  <2> QED BY <2>4, <2>5
<1>4. ASSUME ClearLast, ~(Get /\ fifo # <<>>) PROVE ClearLast'
  <2>1. fifo' = fifo
    BY <1>4 DEF Boot, TakeEvt, Get, Free
  <2> QED BY <1>1, <1>2, <1>4, <2>1 DEF ClearLast
<1> QED BY <1>2, <1>3, <1>4
-----------------------------------------------------------------------------
(* Step by step, outside of the handlers.                                  *)

LEMMA StimulusKeys ==
  ASSUME OneLine, KInv, NEW e \in Stimuli, Stimulus(e)
  PROVE  Keys'
<1> USE DEF KInv, Keys
<1> DEFINE c == IF e \in Buttons THEN "gpio" ELSE "usbwq"
<1>1. /\ c \in Context /\ Alloc(c, e) /\ e \in Event /\ e # Stream
      /\ UNCHANGED <<mainAt, cur, at, ptr, ep, host, plugged>>
  BY EventFacts, EventsDiffer DEF Stimulus, Interrupt, Alloc, usbVars, Context
<1> HIDE DEF c
<1>2. string' = string \/ string' = Saved
  BY Copied DEF Stimulus, StringInv
<1>3. /\ \A f : Handled(f)' <=> Handled(f)
      /\ Waiting(Stream)' <=> Waiting(Stream)
      /\ Waiting(KeyClear) => Waiting(KeyClear)'
      /\ Doomed => Doomed'
      /\ StreamInv' /\ (ClearLast => ClearLast')
  BY <1>1, AllocMoves, AllocLast DEF Handled
<1>4. (Streaming' <=> Streaming) /\ (AtTheEnd' <=> AtTheEnd) /\ N' = N
  BY <1>1, <1>3 DEF Streaming, AtTheEnd, N, TheLine
<1>5. (HasText => HasText') /\ (HasText' => HasText \/ (ptr = 0 /\ N > 0))
  BY <1>2, TextFacts, SavedFacts DEF HasText
<1>6. StringInv'
  <2>1. (string \in {Blank, Saved})'
    BY <1>2 DEF StringInv, Blank, Saved, N, TheLine
  <2>2. (~HasText => ptr = 0 /\ ~Streaming)'
    BY <1>1, <1>4, <1>5 DEF StringInv
  <2> QED BY <2>1, <2>2 DEF StringInv
<1>7. PlaceInv'
  BY <1>1, <1>3, <1>4 DEF PlaceInv
<1>8. EndInv'
  <2>1. HasText' /\ ptr' >= N => HasText
    BY <1>1, <1>5, Numbers
  <2> QED BY <1>1, <1>3, <1>4, <2>1 DEF EndInv
<1>9. LastReport("hid1")' = LastReport("hid1") /\ (KeyDue => KeyDue')
  BY <1>1, <1>3, <1>4 DEF LastReport, KeyDue
<1> QED BY <1>1, <1>3, <1>6, <1>7, <1>8, <1>9 DEF KeyInv, KeyAway

\* What leaves main, its events and the string alone.
LEMMA OtherKeys ==
  ASSUME OneLine, KInv, UNCHANGED <<evtVars, string, ptr, at>>
  PROVE  /\ StringInv' /\ PlaceInv' /\ StreamInv' /\ EndInv' /\ (KeyDue => KeyDue')
<1> USE DEF KInv, Keys
<1>1. (HasText' <=> HasText) /\ (AtTheEnd' <=> AtTheEnd) /\ N' = N
  BY EventsSame DEF HasText, AtTheEnd, N, TheLine
<1>2. StringInv'
  BY <1>1, EventsSame DEF StringInv, Blank, Saved
<1>3. PlaceInv'
  <2>1. cur' = cur /\ (Handled(Stream)' <=> Handled(Stream))
    BY EventsSame DEF evtVars
  <2> QED BY <1>1, <2>1 DEF PlaceInv
<1>4. StreamInv' /\ EndInv' /\ (KeyDue => KeyDue')
  BY <1>1, EventsSame DEF EndInv, KeyDue
<1> QED BY <1>2, <1>3, <1>4

LEMMA HostKeys ==
  ASSUME OneLine, KInv, Unplug \/ Replug \/ \E h \in Endpoint : HostPolls(h)
  PROVE  Keys'
<1> USE DEF Keys
<1>1. CASE Unplug
  <2>1. /\ UNCHANGED <<evtVars, string, ptr, at>> /\ plugged' = FALSE
        /\ ep' = [h \in Endpoint |-> NoReport] /\ host' = [h \in Endpoint |-> Zero]
    BY <1>1 DEF Unplug, strVars
  <2>2. LastReport("hid1")'.key = "zero"
    BY <2>1, Units DEF LastReport, Zero
  <2> QED BY <2>1, <2>2, OtherKeys DEF KeyInv, KeyAway
<1>2. CASE Replug
  <2>1. UNCHANGED <<evtVars, string, ptr, at, ep, host>> /\ plugged' = TRUE
    BY <1>2 DEF Replug, strVars
  <2>2. LastReport("hid1")' = LastReport("hid1")
    BY <2>1 DEF LastReport
  <2> QED BY <2>1, <2>2, OtherKeys DEF KInv, KeyInv, KeyAway
<1>3. ASSUME NEW h \in Endpoint, HostPolls(h) PROVE Keys'
  <2>1. /\ UNCHANGED <<evtVars, string, ptr, at, plugged>> /\ ep[h] # NoReport
        /\ host' = [host EXCEPT ![h] = ep[h]] /\ ep' = [ep EXCEPT ![h] = NoReport]
    BY <1>3 DEF HostPolls, strVars
  <2>2. LastReport("hid1")' = LastReport("hid1")
    <3>1. DOMAIN ep = Endpoint /\ DOMAIN host = Endpoint
      BY DEF KInv, UsbInv, HostInv
    <3>2. CASE h = "hid1"
      BY <2>1, <3>1, <3>2 DEF LastReport
    <3>3. CASE h # "hid1"
      BY <2>1, <3>1, <3>3, Units DEF LastReport
    <3> QED BY <3>2, <3>3
  <2> QED BY <2>1, <2>2, OtherKeys DEF KInv, KeyInv, KeyAway
<1> QED BY <1>1, <1>2, <1>3

\* A context goes on raising its event, or main takes the next one.
LEMMA PlumbingKeys ==
  ASSUME OneLine, KInv, UNCHANGED appVars,
         \/ \E c \in Context : RaiseStep(c)
         \/ Boot \/ TakeEvt \/ Get \/ Free
  PROVE  Keys'
<1> USE DEF KInv, Keys
<1>1. /\ UNCHANGED <<string, ptr, at, ep, host, plugged>>
      /\ LastReport("hid1")' = LastReport("hid1") /\ N' = N
      /\ HasText' <=> HasText
  BY DEF appVars, usbVars, strVars, LastReport, HasText, N, TheLine
<1> DEFINE Goes ==
           /\ Handled(Stream)' => Handled(Stream) \/ at = "start"
           /\ Streaming' => Streaming
           /\ at = "write" => cur' = cur
           /\ StreamInv'
           /\ (ClearLast => Doomed' \/ ClearLast' \/ ~Streaming')
           /\ Doomed => Doomed'
           /\ AtTheEnd => AtTheEnd'
           /\ KeyDue => KeyDue'
<1>2. Goes
  <2>1. ASSUME NEW c \in Context, RaiseStep(c) PROVE Goes
    <3>1. /\ Doomed => Doomed'
          /\ \A f : Waiting(f) => Waiting(f)' \/ Doomed'
          /\ \A f : Waiting(f)' => Waiting(f)
          /\ cur' = cur /\ (mainAt' = mainAt \/ (mainAt = "raise" /\ mainAt' = "free"))
      BY <2>1, RaiseMoves
    <3>2. \A f : Handled(f)' <=> Handled(f)
      BY <3>1 DEF Handled
    <3>3. /\ Streaming' => Streaming
          /\ Streaming => Streaming' \/ Doomed'
          /\ AtTheEnd' <=> AtTheEnd
      BY <1>1, <3>1, <3>2 DEF Streaming, AtTheEnd
    <3>4. StreamInv' /\ (ClearLast => ClearLast' \/ Doomed')
      BY <2>1, RaiseLast
    <3>5. KeyDue => KeyDue'
      BY <1>1, <3>1, <3>2, <3>3 DEF KeyDue
    <3> QED BY <3>1, <3>2, <3>3, <3>4, <3>5
  <2>2. ASSUME Boot \/ TakeEvt \/ Get \/ Free PROVE Goes
    <3>1. /\ mainAt # "handle" /\ Doomed' = Doomed
          /\ \A f : Waiting(f) => Waiting(f)' \/ Handled(f)'
          /\ \A f : Waiting(f)' \/ Handled(f)' => Waiting(f)
      BY <2>2, LoopMoves
    <3>2. at = "start" /\ at' = "start"
      BY <1>1, <3>1 DEF AtShape
    <3>3. \A f : ~Handled(f)
      BY <3>1 DEF Handled
    <3>4. (Streaming' <=> Streaming) /\ ~AtTheEnd
      BY <3>1, <3>3 DEF Streaming, AtTheEnd
    <3>5. StreamInv' /\ (ClearLast => ClearLast' \/ ~Streaming')
      BY <2>2, LoopLast
    <3>6. KeyDue => KeyDue'
      BY <1>1, <3>1, <3>2, <3>3, <3>4 DEF KeyDue
    <3> QED BY <3>1, <3>2, <3>3, <3>4, <3>5, <3>6
  <2> QED BY <2>1, <2>2
<1>3. StringInv'
  BY <1>1, <1>2 DEF StringInv, Blank, Saved
<1>4. PlaceInv'
  BY <1>1, <1>2 DEF PlaceInv
<1>5. EndInv'
  BY <1>1, <1>2 DEF EndInv
<1> QED BY <1>1, <1>2, <1>3, <1>4, <1>5 DEF KeyInv, KeyAway
-----------------------------------------------------------------------------
(* Inside the handlers.                                                    *)

\* A step that leaves str_pointer and the string alone.
LEMMA HandlerKeys ==
  ASSUME OneLine, KInv, UNCHANGED <<evtVars, string, ptr>>, mainAt = "handle",
         at # "equal",
         Handled(Stream) => at' \notin {"text", "decide", "equal"},
         at' = "write" => cur \notin TextOnly
  PROVE  StringInv' /\ PlaceInv' /\ StreamInv' /\ EndInv'
<1> USE DEF KInv, Keys
<1>1. (HasText' <=> HasText) /\ ~AtTheEnd /\ N' = N /\ cur' = cur
  BY DEF HasText, AtTheEnd, N, TheLine, evtVars
<1>2. StringInv'
  BY <1>1, EventsSame DEF StringInv, Blank, Saved
<1>3. PlaceInv'
  BY <1>1, EventsSame DEF PlaceInv
<1>4. StreamInv' /\ EndInv'
  BY <1>1, EventsSame DEF EndInv
<1> QED BY <1>2, <1>3, <1>4

\* Reading the key, looking for SHIFT, waiting for the endpoint, writing a text.
LEMMA QuietKeys ==
  ASSUME OneLine, KInv, ReadKey \/ ReadShift \/ TakeUsb \/ WriteText
  PROVE  Keys'
<1> USE DEF KInv, Keys
<1>1. /\ UNCHANGED <<evtVars, string, plugged, ptr, ep, host>> /\ mainAt = "handle"
      /\ LastReport("hid1")' = LastReport("hid1") /\ N' = N
  BY DEF ReadKey, ReadShift, TakeUsb, WriteText, Handling, MainAt, InHandler, usbVars, strVars,
         LastReport, N, TheLine
<1> DEFINE Moves_ ==
             /\ at # "equal"
             /\ Handled(Stream) => at' \notin {"text", "decide", "equal"}
             /\ at' = "write" => cur \notin TextOnly
             /\ Handled(KeyClear) /\ at \in {"start", "write"} => at' \in {"start", "write"}
             /\ Handled("GPIO_BUTTON_3") /\ at \in {"text", "decide"} => at' \in {"text", "decide"}
<1>2. Moves_
  <2>1. CASE ReadKey
    <3>1. at = "start" /\ cur = Stream /\ at' \in {"shift", "count"}
      BY <2>1 DEF ReadKey, Handling, Stream
    <3> QED BY <3>1 DEF Handled, Stream, KeyClear
  <2>2. CASE ReadShift
    <3>1. at = "shift" /\ at' = "take" /\ cur = Stream
      BY <2>2, Zenon DEF ReadShift, Handling, AtShape, Stream
    <3> QED BY <3>1 DEF Handled, Stream, KeyClear
  <2>3. CASE TakeUsb
    <3>1. /\ at' = "write"
          /\ \/ at = "take" /\ cur = Stream
             \/ at = "start" /\ cur \notin TextOnly /\ cur # Stream
      BY <2>3 DEF TakeUsb, Handling, AtShape, Stream
    <3> QED BY <1>1, <3>1 DEF Handled, Stream, KeyClear, TextOnly
  <2>4. CASE WriteText
    <3>1. at' = "decide" /\ (at = "text" \/ (at = "start" /\ cur \in TextOnly))
      BY <2>4 DEF WriteText, Handling
    <3> QED BY <1>1, <3>1 DEF Handled, PlaceInv, Stream, KeyClear, TextOnly
  <2> QED BY <2>1, <2>2, <2>3, <2>4
<1>3. StringInv' /\ PlaceInv' /\ StreamInv' /\ EndInv'
  BY <1>1, <1>2, HandlerKeys
<1>4. KeyDue => KeyDue'
  BY <1>1, <1>2, EventsSame DEF KeyDue, AtTheEnd
<1> QED BY <1>1, <1>3, <1>4 DEF KeyInv, KeyAway

LEMMA CountKeys ==
  ASSUME OneLine, KInv, Count
  PROVE  Keys'
<1> USE DEF KInv, Keys
<1>1. /\ UNCHANGED <<evtVars, string, plugged, ep, host>> /\ mainAt = "handle"
      /\ at = "count" /\ cur = Stream /\ ptr' = ptr + 1
      /\ at' = IF Strlen(string) > ptr + 1 THEN "decide" ELSE "equal"
      /\ LastReport("hid1")' = LastReport("hid1") /\ N' = N
  BY DEF Count, Handling, MainAt, InHandler, usbVars, AtShape, Stream, LastReport, N, TheLine
<1>2. Handled(Stream) /\ HasText /\ string = Saved /\ Strlen(string) = N /\ N \in Nat /\ ptr \in Nat
  <2>1. Handled(Stream)
    BY <1>1 DEF Handled
  <2> QED BY <2>1, TextFacts, Numbers DEF Streaming
<1>3. /\ at' = "equal" => ptr' >= N
      /\ at' = "decide" => ptr' < N
      /\ at' \in {"decide", "equal"}
  BY <1>1, <1>2
<1>4. cur' = cur /\ mainAt' = "handle" /\ Handled(Stream)' /\ Streaming'
  BY <1>1, <1>2, EventsSame DEF evtVars, Streaming
<1>5. ASSUME ptr < N PROVE (at' = "decide" /\ ptr' < N) \/ AtTheEnd'
  BY <1>1, <1>2, <1>3, <1>4, <1>5 DEF AtTheEnd
<1>6. ASSUME ~(ptr < N) PROVE Doomed' \/ ClearLast'
  <2>1. ptr >= N /\ ~AtTheEnd
    BY <1>1, <1>2, <1>6 DEF AtTheEnd
  <2>2. Doomed \/ ClearLast
    BY <1>2, <2>1 DEF EndInv, Streaming
  <2> QED BY <1>1, <2>2, EventsSame
<1>7. StringInv'
  BY <1>1, <1>2, SavedFacts DEF StringInv, Saved, Blank, HasText
<1>8. PlaceInv'
  BY <1>1, <1>3 DEF PlaceInv
<1>9. StreamInv'
  BY <1>1, EventsSame
<1>10. EndInv'
  <2>1. CASE ptr < N
    <3>1. AtTheEnd' \/ ~(ptr >= N)'
      BY <1>1, <1>2, <1>5, <2>1
    <3> QED BY <3>1 DEF EndInv
  <2>2. CASE ~(ptr < N)
    BY <1>6, <2>2 DEF EndInv
  <2> QED BY <2>1, <2>2
<1>11. KeyDue => KeyDue'
  <2>1. CASE ptr < N
    <3>1. AtTheEnd' \/ (Streaming /\ ptr < N)'
      BY <1>1, <1>4, <1>5, <2>1
    <3> QED BY <3>1 DEF KeyDue
  <2>2. CASE ~(ptr < N)
    <3>1. ClearLast' => Waiting(KeyClear)'
      BY DEF ClearLast, Waiting, InFifo, InHand, Context
    <3> QED BY <1>6, <2>2, <3>1 DEF KeyDue
  <2> QED BY <2>1, <2>2
<1> QED BY <1>1, <1>7, <1>8, <1>9, <1>10, <1>11 DEF KeyInv, KeyAway

LEMMA WriteKeys ==
  ASSUME OneLine, KInv, WriteReport
  PROVE  Keys'
<1> USE DEF KInv, Keys
<1>1. /\ UNCHANGED <<evtVars, string, plugged, ptr, host>> /\ mainAt = "handle"
      /\ at = "write" /\ cur \notin TextOnly /\ cur \in Event /\ N' = N /\ ~AtTheEnd
  BY DEF WriteReport, Handling, MainAt, InHandler, PlaceInv, IInv, TypeOK, MainShape, N, TheLine, AtTheEnd
<1>2. /\ cur = Stream => at' = "count"
      /\ cur = KeyClear => at' = "decide"
      /\ cur = "GPIO_BUTTON_3" => at' = "text"
      /\ at' \in {"count", "decide", "text"}
  BY DEF WriteReport, ClearEvt, Stream, KeyClear
<1>3. StringInv' /\ PlaceInv' /\ StreamInv' /\ EndInv'
  BY <1>1, <1>2, HandlerKeys DEF Handled
<1>4. CASE ~plugged
  <2>1. LastReport("hid1")' = LastReport("hid1")
    BY <1>1, <1>4 DEF WriteReport, LastReport
  <2> QED BY <1>1, <1>3, <1>4, <2>1 DEF KeyInv, KeyAway
<1>5. CASE plugged /\ EndpointOf(cur) = "hid1"
  <2>1. LastReport("hid1")' = rep
    <3>1. ep' = [ep EXCEPT !["hid1"] = rep] /\ rep # NoReport /\ DOMAIN ep = Endpoint
      BY <1>5, Reports DEF WriteReport, UsbInv, Built
    <3> QED BY <3>1, Units DEF LastReport
  <2>2. cur \in {Stream, KeyClear, "GPIO_BUTTON_3"}
    BY <1>1, <1>5 DEF EndpointOf, Event, Buttons, CdcLine, Moves, Hid, TextOnly, MouseEvt, Stream, KeyClear
  <2>3. CASE cur = Stream
    <3>1. Handled(Stream) /\ Streaming /\ HasText
      BY <1>1, <2>3, TextFacts DEF Handled, Streaming
    <3>2. KeyDue'
      <4>1. CASE ptr < N
        BY <1>1, <3>1, <4>1, EventsSame DEF KeyDue
      <4>2. CASE ~(ptr < N)
        <5>1. ptr >= N
          BY <4>2, Numbers
        <5>2. Doomed \/ ClearLast
          BY <1>1, <3>1, <5>1 DEF EndInv
        <5>3. Doomed \/ Waiting(KeyClear)
          BY <5>2 DEF ClearLast, Waiting, InFifo, InHand, Context
        <5> QED BY <1>1, <5>3, EventsSame DEF KeyDue
      <4> QED BY <4>1, <4>2
    <3> QED BY <1>1, <1>3, <1>5, <3>2 DEF KeyInv, KeyAway
  <2>4. CASE cur = KeyClear
    <3>1. rep.key = "zero"
      BY <1>1, <2>4 DEF AtShape, FixedReport, ClearEvt, KeyClear, Zero
    <3> QED BY <1>3, <2>1, <3>1 DEF KeyInv, KeyAway
  <2>5. CASE cur = "GPIO_BUTTON_3"
    <3>1. KeyDue'
      BY <1>1, <1>2, <2>5, EventsSame DEF KeyDue, Handled
    <3> QED BY <1>1, <1>3, <1>5, <3>1 DEF KeyInv, KeyAway
  <2> QED BY <2>2, <2>3, <2>4, <2>5
<1>6. CASE plugged /\ EndpointOf(cur) # "hid1"
  <2>1. LastReport("hid1")' = LastReport("hid1")
    <3>1. ep' = [ep EXCEPT !["hid0"] = rep] /\ DOMAIN ep = Endpoint
      BY <1>6 DEF WriteReport, EndpointOf, UsbInv
    <3> QED BY <1>1, <3>1, Units DEF LastReport
  <2>2. ~Handled(Stream) /\ ~Handled(KeyClear) /\ ~Handled("GPIO_BUTTON_3")
    BY <1>6 DEF Handled, EndpointOf, MouseEvt, Moves, Stream, KeyClear
  <2>3. KeyDue => KeyDue'
    BY <1>1, <2>2, EventsSame DEF KeyDue
  <2> QED BY <1>1, <1>3, <1>6, <2>1, <2>3 DEF KeyInv, KeyAway
<1> QED BY <1>4, <1>5, <1>6

LEMMA RaiseNextKeys ==
  ASSUME OneLine, KInv, NEW f \in Hid, RaiseNext(f)
  PROVE  Keys'
<1> USE DEF KInv, Keys
<1>1. /\ UNCHANGED <<string, plugged, ep, host, cur>> /\ at' = "start"
      /\ mainAt = "handle" /\ mainAt' = "raise" /\ at \in {"decide", "equal"}
      /\ Raises(f) /\ f \in Event /\ Alloc("main", f) /\ "main" \in Context
      /\ ptr' = IF cur = Ask THEN 0 ELSE ptr
  BY EventFacts
     DEF RaiseNext, Raises, AtEnd, Handling, MainAt, FollowUp, Alloc, usbVars, Hid, Context, Ask
<1>2. /\ LastReport("hid1")' = LastReport("hid1") /\ N' = N /\ (HasText' <=> HasText)
      /\ N \in Nat /\ ptr \in Nat
  BY <1>1, Numbers DEF LastReport, N, TheLine, HasText
<1>3. /\ Doomed => Doomed'
      /\ \A g : Waiting(g) => Waiting(g)'
      /\ \A g : Waiting(g)' => Waiting(g) \/ g = f
      /\ Waiting(f)' \/ Doomed'
  BY <1>1, AllocMoves
<1>4. StreamInv' /\ (f # Stream => (ClearLast => ClearLast'))
  BY <1>1, AllocLast
<1>5. (\A g : ~Handled(g)') /\ ~AtTheEnd'
  BY <1>1 DEF Handled, AtTheEnd
<1>6. f = Stream => HasText /\ ptr' < N
  <2>1. ASSUME f = Stream, cur = Ask PROVE HasText /\ ptr' < N
    <3>1. at = "decide" /\ Strlen(string) > 0
      BY <1>1, <2>1 DEF Raises, Handling, Stream, Ask
    <3>2. HasText
      BY <3>1 DEF HasText
    <3> QED BY <1>1, <1>2, <2>1, <3>2, TextFacts
  <2>2. ASSUME f = Stream, cur # Ask PROVE HasText /\ ptr' < N
    <3>1. at = "decide" /\ cur = Stream
      BY <1>1, <2>2 DEF Raises, Handling, Stream, Ask
    <3>2. Handled(Stream)
      BY <1>1, <3>1 DEF Handled
    <3> QED BY <1>1, <2>2, <3>1, <3>2, TextFacts DEF PlaceInv, Streaming
  <2> QED BY <2>1, <2>2
<1>7. HasText' /\ ptr' >= N => ptr >= N /\ f # Stream
  BY <1>1, <1>2, <1>6, TextFacts
<1>8. StringInv'
  <2>1. ~HasText => ~Streaming' /\ ptr' = 0
    BY <1>1, <1>3, <1>5, <1>6, TextFacts DEF Streaming
  <2> QED BY <1>1, <1>2, <2>1 DEF StringInv, Blank, Saved
<1>9. PlaceInv'
  BY <1>1, <1>5 DEF PlaceInv
<1>10. EndInv'
  <2>1. f = KeyClear => Doomed' \/ ClearLast'
    <3>1. /\ step \in [Context -> Step] /\ new \in [Context -> Event \union {NoEvent}]
          /\ used \in Nat /\ Blocks \in Nat
      BY BlocksAssumption DEF IInv, TypeOK, Step
    <3>2. CASE used < Blocks
      <4>1. step' = [step EXCEPT !["main"] = "put"] /\ new' = [new EXCEPT !["main"] = f]
        BY <1>1, <3>1, <3>2 DEF Alloc, Goto
      <4>2. f = KeyClear => step'["main"] = "put" /\ new'["main"] = KeyClear
        BY <1>1, <3>1, <4>1
      <4> QED BY <4>2 DEF ClearLast
    <3>3. CASE ~(used < Blocks)
      <4>1. step' = [step EXCEPT !["main"] = "flush"]
        BY <1>1, <3>1, <3>3 DEF Alloc, Goto
      <4>2. step'["main"] = "flush"
        BY <1>1, <3>1, <4>1
      <4> QED BY <1>1, <4>2 DEF Doomed
    <3> QED BY <3>2, <3>3
  <2>2. ASSUME f = "HID_MOUSE_CLEAR" PROVE EndInv'
    <3>1. cur \in MouseEvt
      BY <1>1, <2>2 DEF Raises, Handling
    <3>2. ~AtTheEnd /\ ~Handled(Stream) /\ f # Stream
      BY <2>2, <3>1 DEF AtTheEnd, Handled, MouseEvt, Moves, Stream
    <3>3. Streaming' => Streaming
      BY <1>3, <1>5, <3>2 DEF Streaming
    <3> QED BY <1>2, <1>3, <1>4, <1>7, <3>2, <3>3 DEF EndInv
  <2>3. f \in {Stream, KeyClear, "HID_MOUSE_CLEAR"}
    BY DEF Hid, Stream, KeyClear
  <2>4. f = Stream => EndInv'
    BY <1>7 DEF EndInv
  <2>5. f = KeyClear => EndInv'
    BY <2>1 DEF EndInv
  <2> QED BY <2>2, <2>3, <2>4, <2>5
<1>11. KeyInv'
  <2>1. CASE f = Stream
    BY <1>2, <1>3, <1>6, <2>1 DEF KeyInv, KeyDue, Streaming
  <2>2. CASE f = KeyClear
    BY <1>3, <2>2 DEF KeyInv, KeyDue
  <2>3. CASE f = "HID_MOUSE_CLEAR"
    <3>1. cur \in MouseEvt
      BY <1>1, <2>3 DEF Raises, Handling
    <3>2. /\ ptr' = ptr /\ ~AtTheEnd /\ ~Handled(Stream) /\ ~Handled(KeyClear)
          /\ ~Handled("GPIO_BUTTON_3")
      BY <1>1, <3>1 DEF AtTheEnd, Handled, MouseEvt, Moves, Stream, KeyClear, Ask
    <3>3. Streaming => Streaming'
      BY <1>3, <3>2 DEF Streaming
    <3> QED BY <1>2, <1>3, <3>2, <3>3 DEF KeyInv, KeyDue
  <2> QED BY <2>1, <2>2, <2>3 DEF Hid, Stream, KeyClear
<1>12. KeyAway'
  BY <1>1, <1>2 DEF KeyAway
<1> QED BY <1>4, <1>8, <1>9, <1>10, <1>11, <1>12

LEMMA RaiseNoneKeys ==
  ASSUME OneLine, KInv, RaiseNone
  PROVE  Keys'
<1> USE DEF KInv, Keys
<1>1. /\ UNCHANGED <<string, plugged, ep, host, cur, ptr, fifo, step, new>> /\ at' = "start"
      /\ mainAt = "handle" /\ mainAt' = "free" /\ at \in {"decide", "equal"}
      /\ MainAt("handle") /\ ~Raises(Stream) /\ ~Raises(KeyClear)
  BY DEF RaiseNone, HandlerEnds, Handling, MainAt, usbVars, strVars, Hid, Stream, KeyClear
<1>2. /\ LastReport("hid1")' = LastReport("hid1") /\ N' = N /\ (HasText' <=> HasText)
      /\ N \in Nat /\ ptr \in Nat
  BY <1>1, Numbers DEF LastReport, N, TheLine, HasText
<1>3. /\ Doomed' <=> Doomed
      /\ \A g : (Waiting(g)' <=> Waiting(g)) /\ ~Handled(g)'
      /\ ClearLast' <=> ClearLast
      /\ StreamInv'
      /\ Streaming' => Streaming
  BY <1>1 DEF Doomed, Waiting, InFifo, InHand, Handled, ClearLast, StreamInv, Streaming
<1>4. ~AtTheEnd
  <2>1. Handled(Stream) => Strlen(string) = N
    BY TextFacts DEF Streaming
  <2> QED BY <1>1, <2>1 DEF Raises, AtEnd, Handling, KeyClear, AtTheEnd
<1>5. ~(Handled(Stream) /\ ptr < N)
  <2>1. ~(Handled(Stream) /\ at = "decide")
    BY <1>1 DEF Raises, Handling, Handled, Stream
  <2> QED BY <1>1, <1>2, <2>1 DEF PlaceInv
<1>6. StringInv'
  BY <1>1, <1>2, <1>3 DEF StringInv, Blank, Saved
<1>7. PlaceInv'
  BY <1>1, <1>3 DEF PlaceInv
<1>8. EndInv'
  BY <1>1, <1>2, <1>3, <1>4 DEF EndInv
<1>9. KeyDue => KeyDue'
  <2>1. ~(Handled("GPIO_BUTTON_3") /\ at \in {"text", "decide"})
    BY <1>1 DEF Raises, Handling, Handled, KeyClear
  <2>2. Streaming /\ ptr < N => (Streaming /\ ptr < N)'
    BY <1>1, <1>2, <1>3, <1>5 DEF Streaming
  <2> QED BY <1>1, <1>3, <1>4, <2>1, <2>2 DEF KeyDue
<1> QED BY <1>1, <1>2, <1>3, <1>6, <1>7, <1>8, <1>9 DEF KeyInv, KeyAway

LEMMA NextKeys == OneLine /\ KInv /\ [Next]_vars => Keys'
<1> SUFFICES ASSUME OneLine, KInv, [Next]_vars PROVE Keys'
  OBVIOUS
<1>1. CASE Handler
  BY <1>1, QuietKeys, CountKeys, WriteKeys, RaiseNextKeys, RaiseNoneKeys DEF Handler
<1>2. ASSUME NEW e \in Stimuli, Stimulus(e) PROVE Keys'
  BY <1>2, StimulusKeys
<1>3. CASE Unplug \/ Replug \/ \E h \in Endpoint : HostPolls(h)
  BY <1>3, HostKeys
<1>4. CASE \/ \E c \in Context : Plumbing(RaiseStep(c))
           \/ Plumbing(Boot) \/ Plumbing(TakeEvt) \/ Plumbing(Get) \/ Plumbing(Free)
  BY <1>4, PlumbingKeys DEF Plumbing
<1>5. CASE UNCHANGED vars
  <2>1. UNCHANGED <<evtVars, string, ptr, at, ep, host, plugged>>
    BY <1>5 DEF vars, appVars, usbVars, strVars
  <2>2. LastReport("hid1")' = LastReport("hid1")
    BY <2>1 DEF LastReport
  <2> QED BY <2>1, <2>2, OtherKeys DEF KInv, Keys, KeyInv, KeyAway
<1> QED BY <1>1, <1>2, <1>3, <1>4, <1>5 DEF Next

LEMMA InitKeys == OneLine /\ Init => Keys
<1> SUFFICES ASSUME OneLine, Init PROVE Keys
  OBVIOUS
<1>1. ~Waiting(Stream) /\ ~Handled(Stream) /\ StreamInv
  BY DEF Init, EvtInit, Waiting, InFifo, InHand, Handled, StreamInv
<1>2. string = Blank /\ ~HasText /\ ptr = 0
  BY SavedFacts DEF Init, Blank, HasText
<1>3. StringInv /\ PlaceInv /\ EndInv
  BY <1>1, <1>2 DEF StringInv, PlaceInv, EndInv, Streaming, Init
<1>4. LastReport("hid1").key = "zero"
  BY Units DEF Init, LastReport, Zero
<1> QED BY <1>1, <1>3, <1>4 DEF Keys, KeyInv, KeyAway

(***************************************************************************)
(* A key that the host has seen go down, or will see, always has its       *)
(* release on the way, whatever interrupts main, however often the host    *)
(* goes away or sends its line again, and also if button 2 is pressed      *)
(* while the string is being typed.                                        *)
(***************************************************************************)
THEOREM KeyIsReleased == OneLine => (Spec => []KeyReleaseComing)
<1> SUFFICES ASSUME OneLine PROVE Spec => []KeyReleaseComing
  OBVIOUS
<1>1. Init => KInv
  BY InitKeys, InitIInv, InitUsbInv, InitAppTyped, InitShape DEF KInv, Init
<1>2. KInv /\ [Next]_vars => KInv'
  BY NextIInv, StepsOfEvents, NextUsbInv, NextHost, NextAtShape, NextTyped, NextKeys DEF KInv
<1>3. KInv => KeyReleaseComing
  <2>1. Waiting(KeyClear) => Coming("HID_KBD_CLEAR")
    BY DEF Waiting, InFifo, InHand, Coming, KeyClear
  <2>2. Streaming => Coming("HID_KBD_STRING")
    BY DEF Streaming, Waiting, InFifo, InHand, Handled, Coming, Stream
  <2> QED BY <2>1, <2>2 DEF KInv, Keys, KeyInv, KeyDue, AtTheEnd, Handled, KeyReleaseComing, Coming, Stream, KeyClear
<1> QED BY <1>1, <1>2, <1>3, PTL DEF Spec

-----------------------------------------------------------------------------
(***************************************************************************)
(* The string is typed back.  The theorem is about one press of button 2,  *)
(* one line that the host may send again and again, and a host that stays. *)
(*                                                                         *)
(* The argument: the press becomes one HID_KBD_STRING that goes round, and *)
(* there is never a second one (Total counts them, and no step makes it    *)
(* grow).  As long as it has not come to the end of the string, what the   *)
(* host has seen, together with the key it is about to get, types the      *)
(* characters before str_pointer, or before the next one while main is     *)
(* about to count (Going).  The host takes a key only for pressed when the *)
(* last report had another one: hence no two in a row may be the same.     *)
(***************************************************************************)

LEMMA LeastNatural == ASSUME NEW T \in SUBSET Nat, T # {}
                      PROVE  \E m \in T : \A i \in T : m <= i
<1>1. \E x \in T : \A y \in T : ~ (<<y, x>> \in OpToRel(<, Nat))
  BY NatLessThanWellFounded, WFMin, Zenon
<1>2. \A x, y \in Nat : ~ (<<y, x>> \in OpToRel(<, Nat)) => x <= y
  BY DEF OpToRel
<1>3. \A x \in T : x \in Nat
  OBVIOUS
<1> QED BY <1>1, <1>2, <1>3, Zenon

\* Induction up to n, over a set of numbers.
LEMMA UpTo ==
  ASSUME NEW n \in Nat, NEW G, 0 \in G, \A i \in 0 .. n : i \in G /\ i < n => i + 1 \in G
  PROVE  0 .. n \subseteq G
<1> DEFINE Bad == {i \in 0 .. n : i \notin G}
<1>1. SUFFICES ASSUME NEW k \in Bad PROVE FALSE
  OBVIOUS
<1>2. Bad \subseteq Nat
  OBVIOUS
<1>3. PICK m \in Bad : \A i \in Bad : m <= i
  <2>1. Bad \in SUBSET Nat /\ Bad # {}
    BY <1>1, <1>2
  <2> HIDE DEF Bad
  <2> QED BY <2>1, LeastNatural
<1>4. m # 0 /\ m \in 0 .. n /\ m \notin G
  OBVIOUS
<1>5. m - 1 \in 0 .. n /\ m - 1 < n /\ m = (m - 1) + 1 /\ ~ (m <= m - 1)
  BY <1>4
<1>6. m - 1 \in G
  BY <1>3, <1>5
<1> QED BY <1>4, <1>5, <1>6

\* A place in a sequence that was extended by at most one.
LEMMA LastPlace ==
  ASSUME NEW m \in Nat, NEW k \in Nat, k <= 1, NEW i \in 1 .. m + k
  PROVE  i \in 1 .. m \/ (i = m + 1 /\ k = 1)
<1>1. CASE k = 0
  BY <1>1
<1>2. CASE k = 1
  BY <1>2
<1> QED BY <1>1, <1>2

(* The keys that type a line. *)

\* The pieces p[1] .. p[n], put end to end one by one: how Typing is defined.
IsJoining(f, p, n) == f = [i \in 0 .. n |-> IF i = 0 THEN <<>> ELSE f[i - 1] \o p[i]]

LEMMA JoiningExists ==
  ASSUME NEW p, NEW n \in Nat
  PROVE  \E f : IsJoining(f, p, n)
<1> DEFINE G == {k \in 0 .. n : \E f : IsJoining(f, p, k)}
<1>1. 0 \in G
  <2>1. IsJoining([i \in 0 .. 0 |-> <<>>], p, 0)
    BY DEF IsJoining
  <2> QED BY <2>1
<1>2. ASSUME NEW k \in 0 .. n, k \in G, k < n PROVE k + 1 \in G
  <2>1. PICK f : IsJoining(f, p, k)
    BY <1>2
  <2> DEFINE g == [i \in 0 .. k + 1 |-> IF i = 0 THEN <<>> ELSE f[i - 1] \o p[i]]
  <2>2. ASSUME NEW i \in 0 .. k + 1, i # 0 PROVE g[i - 1] = f[i - 1]
    <3>1. i - 1 \in 0 .. k /\ i - 1 \in 0 .. k + 1
      BY <2>2
    <3>2. f[i - 1] = IF i - 1 = 0 THEN <<>> ELSE f[(i - 1) - 1] \o p[i - 1]
      BY <2>1, <3>1, Zenon DEF IsJoining
    <3> QED BY <3>1, <3>2
  <2>3. IsJoining(g, p, k + 1)
    BY <2>2 DEF IsJoining
  <2>4. k + 1 \in 0 .. n
    BY <1>2
  <2> QED BY <2>3, <2>4
<1> HIDE DEF G
<1>3. 0 .. n \subseteq G
  BY <1>1, <1>2, UpTo
<1> QED BY <1>3 DEF G

LEMMA TypingSteps ==
  ASSUME NEW l, Len(l) \in Nat
  PROVE  /\ Typing(l)[0] = <<>>
         /\ \A i \in 0 .. Len(l) - 1 : Typing(l)[i + 1] = Typing(l)[i] \o Stroke(l[i + 1])
<1> DEFINE keys == CHOOSE f : f = [n \in 0 .. Len(l) |->
                                     IF n = 0 THEN <<>> ELSE f[n - 1] \o Stroke(l[n])]
<1>1. Typing(l) = keys
  BY DEF Typing
<1>2. \E f : f = [n \in 0 .. Len(l) |-> IF n = 0 THEN <<>> ELSE f[n - 1] \o Stroke(l[n])]
  <2> DEFINE p == [i \in 1 .. Len(l) |-> Stroke(l[i])]
  <2>1. PICK f : f = [n \in 0 .. Len(l) |-> IF n = 0 THEN <<>> ELSE f[n - 1] \o p[n]]
    BY JoiningExists DEF IsJoining
  <2>2. ASSUME NEW n \in 0 .. Len(l), n # 0 PROVE p[n] = Stroke(l[n])
    BY <2>2
  <2> HIDE DEF p
  <2>3. [n \in 0 .. Len(l) |-> IF n = 0 THEN <<>> ELSE f[n - 1] \o p[n]]
          = [n \in 0 .. Len(l) |-> IF n = 0 THEN <<>> ELSE f[n - 1] \o Stroke(l[n])]
    BY <2>2
  <2> QED BY <2>1, <2>3, Zenon
<1>3. keys = [n \in 0 .. Len(l) |-> IF n = 0 THEN <<>> ELSE keys[n - 1] \o Stroke(l[n])]
  BY <1>2, Zenon
<1> HIDE DEF keys
<1>4. keys[0] = <<>>
  BY <1>3
<1>5. ASSUME NEW i \in 0 .. Len(l) - 1 PROVE keys[i + 1] = keys[i] \o Stroke(l[i + 1])
  <2>1. i + 1 \in 0 .. Len(l) /\ i + 1 # 0 /\ (i + 1) - 1 = i
    OBVIOUS
  <2>2. keys[i + 1] = keys[(i + 1) - 1] \o Stroke(l[i + 1])
    BY <1>3, <2>1
  <2> QED BY <2>1, <2>2
<1> QED BY <1>1, <1>4, <1>5

All     == Strokes(TheLine)
Upto(n) == Typing(TheLine)[n]

LEMMA StrokeTyped ==
  ASSUME NEW c
  PROVE  /\ Stroke(c) \in Seq(Report)
         /\ c \in DOMAIN KeyOf => KeyReport(KeyOf[c], c \in Shifted) \in Report
<1>1. ASSUME c \in DOMAIN KeyOf PROVE KeyReport(KeyOf[c], c \in Shifted) \in Report
  <2>1. (c \in Shifted) \in BOOLEAN
    OBVIOUS
  <2> QED BY <1>1, <2>1, Reports, Zenon DEF Built
<1> HIDE DEF KeyReport
<1>2. CASE c \in DOMAIN KeyOf
  BY <1>1, <1>2 DEF Stroke
<1>3. CASE c \notin DOMAIN KeyOf
  BY <1>3 DEF Stroke
<1> QED BY <1>1, <1>2, <1>3

LEMMA StrokeExtends ==
  ASSUME NEW s \in Seq(Report), NEW c
  PROVE  /\ s \o Stroke(c) \in Seq(Report) /\ Len(s) \in Nat /\ Len(s \o Stroke(c)) \in Nat
         /\ Len(s) <= Len(s \o Stroke(c))
         /\ \A i \in 1 .. Len(s) : (s \o Stroke(c))[i] = s[i]
<1> DEFINE k == Stroke(c)
<1>1. k \in Seq(Report)
  BY StrokeTyped
<1> HIDE DEF k
<1>2. /\ s \o k \in Seq(Report) /\ Len(s) \in Nat /\ Len(k) \in Nat
      /\ Len(s \o k) = Len(s) + Len(k)
      /\ \A i \in 1 .. Len(s) : (s \o k)[i] = s[i]
  BY <1>1, ConcatProperties
<1>3. Len(s \o k) \in Nat /\ Len(s) <= Len(s \o k)
  BY <1>2
<1> QED BY <1>2, <1>3 DEF k

LEMMA UptoSteps ==
  ASSUME OneLine
  PROVE  /\ Upto(0) = <<>> /\ Upto(N) = All
         /\ \A n \in 0 .. N - 1 : Upto(n + 1) = Upto(n) \o Stroke(TheLine[n + 1])
BY LineFacts, TypingSteps DEF Upto, All, Strokes, N

LEMMA UptoTyped ==
  ASSUME OneLine, NEW n \in 0 .. N
  PROVE  Upto(n) \in Seq(Report)
<1> DEFINE G == {k \in 0 .. N : Upto(k) \in Seq(Report)}
<1>1. N \in Nat
  BY LineFacts
<1>2. 0 \in G
  <2>1. <<>> \in Seq(Report) /\ 0 \in 0 .. N
    BY <1>1
  <2> QED BY <2>1, UptoSteps
<1>3. ASSUME NEW k \in 0 .. N, k \in G, k < N PROVE k + 1 \in G
  <2>1. k \in 0 .. N - 1 /\ k + 1 \in 0 .. N
    BY <1>1, <1>3
  <2>2. Upto(k + 1) = Upto(k) \o Stroke(TheLine[k + 1])
    BY <2>1, UptoSteps
  <2> QED BY <1>3, <2>1, <2>2, StrokeExtends
<1> HIDE DEF G
<1>4. 0 .. N \subseteq G
  BY <1>1, <1>2, <1>3, UpTo
<1> QED BY <1>4 DEF G

\* What has been typed is the beginning of what will be.
LEMMA UptoPrefix ==
  ASSUME OneLine, NEW n \in 0 .. N
  PROVE  /\ All \in Seq(Report) /\ Len(Upto(n)) \in Nat /\ Len(All) \in Nat
         /\ Len(Upto(n)) <= Len(All)
         /\ \A i \in 1 .. Len(Upto(n)) : Upto(n)[i] = All[i]
<1> DEFINE Begins(s, t) == Len(s) <= Len(t) /\ \A i \in 1 .. Len(s) : s[i] = t[i]
           m == N - n
           G == {k \in 0 .. m : Begins(Upto(n), Upto(n + k))}
<1>1. N \in Nat /\ m \in Nat /\ n + m = N /\ n + 0 = n
  BY LineFacts
<1>2. /\ Upto(n) \in Seq(Report) /\ Len(Upto(n)) \in Nat
      /\ \A k \in 0 .. m : Upto(n + k) \in Seq(Report) /\ Len(Upto(n + k)) \in Nat
  <2>1. ASSUME NEW k \in 0 .. m PROVE n + k \in 0 .. N
    BY <1>1
  <2>2. ASSUME NEW k \in 0 .. N PROVE Upto(k) \in Seq(Report) /\ Len(Upto(k)) \in Nat
    BY UptoTyped
  <2> QED BY <2>1, <2>2
<1>3. 0 \in G
  BY <1>1, <1>2
<1>4. ASSUME NEW k \in 0 .. m, k \in G, k < m PROVE k + 1 \in G
  <2>1. n + k \in 0 .. N - 1 /\ k + 1 \in 0 .. m /\ n + (k + 1) = (n + k) + 1
    BY <1>1, <1>4
  <2>2. Upto(n + (k + 1)) = Upto(n + k) \o Stroke(TheLine[(n + k) + 1])
    BY <2>1, UptoSteps
  <2>3. Begins(Upto(n + k), Upto(n + (k + 1)))
    BY <1>2, <2>1, <2>2, StrokeExtends
  <2>4. Begins(Upto(n), Upto(n + k)) /\ Len(Upto(n + (k + 1))) \in Nat
    BY <1>2, <1>4, <2>1
  <2>5. Begins(Upto(n), Upto(n + (k + 1)))
    BY <1>2, <1>4, <2>3, <2>4
  <2> QED BY <2>1, <2>5
<1> HIDE DEF G
<1>5. m \in G
  <2>1. 0 .. m \subseteq G
    BY <1>1, <1>3, <1>4, UpTo
  <2> QED BY <1>1, <2>1
<1>6. Begins(Upto(n), Upto(n + m))
  BY <1>5 DEF G
<1> QED BY <1>1, <1>2, <1>6, UptoSteps, UptoTyped

\* The string that holds the line is the line.
LEMMA TextOfSaved == ASSUME OneLine PROVE Text(Saved) = TheLine
<1>1. Strlen(Saved) = N /\ N \in Nat /\ N < Size /\ Size \in Nat
  BY LineFacts, SavedFacts
<1>2. TheLine \in Seq(Char) /\ TheLine = [i \in 1 .. N |-> TheLine[i]]
  BY TheLineTyped DEF N
<1>3. ASSUME NEW i \in 1 .. N PROVE Saved[i - 1] = TheLine[i]
  BY <1>1, <1>3 DEF Saved
<1> QED BY <1>1, <1>2, <1>3 DEF Text

-----------------------------------------------------------------------------
(* One press of button 2, or the HID_KBD_STRING it became.                 *)

LEMMA CountAppend ==
  ASSUME NEW S, NEW T, NEW q \in Seq(S), NEW e \in S
  PROVE  /\ IsFiniteSet(Among(q, T)) /\ Cardinality(Among(q, T)) \in Nat
         /\ Cardinality(Among(Append(q, e), T))
              <= Cardinality(Among(q, T)) + IF e \in T THEN 1 ELSE 0
<1> DEFINE n == Len(q)
           A == Among(q, T)
           B == Among(Append(q, e), T)
<1>1. n \in Nat /\ DOMAIN q = 1 .. n
  OBVIOUS
<1>2. IsFiniteSet(A) /\ Cardinality(A) \in Nat
  <2>1. IsFiniteSet(1 .. n)
    BY <1>1, FS_Interval
  <2>2. A \in SUBSET (1 .. n)
    BY <1>1 DEF Among
  <2>3. IsFiniteSet(A)
    BY <2>1, <2>2, FS_Subset
  <2> QED BY <2>3, FS_CardinalityType
<1>3. /\ DOMAIN Append(q, e) = 1 .. n + 1 /\ Append(q, e)[n + 1] = e
      /\ \A i \in 1 .. n : Append(q, e)[i] = q[i]
  BY <1>1, AppendProperties
<1>4. CASE e \in T
  <2>1. B = A \union {n + 1} /\ n + 1 \notin A
    BY <1>1, <1>3, <1>4 DEF Among
  <2>2. Cardinality(A \union {n + 1}) = Cardinality(A) + 1
    BY <1>2, <2>1, FS_AddElement
  <2> QED BY <1>2, <1>4, <2>1, <2>2
<1>5. CASE e \notin T
  <2>1. B = A
    BY <1>1, <1>3, <1>5 DEF Among
  <2> QED BY <1>2, <1>5, <2>1
<1> QED BY <1>2, <1>4, <1>5

LEMMA CountTail ==
  ASSUME NEW S, NEW T, NEW q \in Seq(S), q # <<>>
  PROVE  /\ Cardinality(Among(Tail(q), T)) \in Nat
         /\ Cardinality(Among(Tail(q), T)) + (IF Head(q) \in T THEN 1 ELSE 0)
              <= Cardinality(Among(q, T))
<1> DEFINE n == Len(q)
           A == Among(q, T)
           R == A \ {1}
           B == Among(Tail(q), T)
           f == [i \in B |-> i + 1]
<1>1. /\ n \in Nat /\ n > 0 /\ DOMAIN q = 1 .. n /\ DOMAIN Tail(q) = 1 .. n - 1
      /\ \A i \in 1 .. n - 1 : Tail(q)[i] = q[i + 1]
      /\ Head(q) = q[1]
  OBVIOUS
<1>2. IsFiniteSet(A) /\ Cardinality(A) \in Nat
  <2>1. IsFiniteSet(1 .. n)
    BY <1>1, FS_Interval
  <2>2. A \in SUBSET (1 .. n)
    BY <1>1 DEF Among
  <2>3. IsFiniteSet(A)
    BY <2>1, <2>2, FS_Subset
  <2> QED BY <2>3, FS_CardinalityType
<1>3. /\ IsFiniteSet(R)
      /\ Cardinality(R) = IF 1 \in A THEN Cardinality(A) - 1 ELSE Cardinality(A)
  BY <1>2, FS_RemoveElement
<1>4. f \in Injection(B, R)
  <2>1. B \subseteq 1 .. n - 1
    BY <1>1 DEF Among
  <2>2. ASSUME NEW i \in B PROVE i + 1 \in R
    BY <1>1, <2>1 DEF Among
  <2>3. \A i, j \in B : i + 1 = j + 1 => i = j
    BY <1>1, <2>1
  <2> QED BY <2>2, <2>3 DEF Injection, IsInjective
<1>5. IsFiniteSet(B) /\ Cardinality(B) <= Cardinality(R)
  BY <1>3, <1>4, FS_Injection
<1>6. Cardinality(B) \in Nat
  BY <1>5, FS_CardinalityType
<1>7. 1 \in A <=> Head(q) \in T
  BY <1>1 DEF Among
<1> QED BY <1>2, <1>3, <1>5, <1>6, <1>7

\* The press of button 2 that is still to come, and what becomes of it: the
\* press, and then the HID_KBD_STRING that goes round.
Tokens   == {Ask, Stream}
AsksLeft == IF Ask \in Stimuli THEN left[Ask] ELSE 0
CurToken == IF mainAt = "handle" /\ cur \in Tokens THEN 1 ELSE 0
Total    == WaitingTokens(Tokens) + CurToken + AsksLeft

One(T, e) == IF e \in T THEN 1 ELSE 0

LEMMA TokenNumbers ==
  ASSUME IInv, NEW T
  PROVE  /\ FifoTokens(T) \in Nat /\ HandTokens(T) \in Nat /\ WaitingTokens(T) \in Nat
         /\ \A c \in Context : HandToken(T, c) \in {0, 1}
<1>1. FifoTokens(T) \in Nat
  <2>1. fifo \in Seq(Event) /\ Ask \in Event
    BY DEF IInv, TypeOK, Ask, Event, Buttons
  <2> QED BY <2>1, CountAppend DEF FifoTokens
<1>2. \A c \in Context : HandToken(T, c) \in {0, 1}
  BY DEF HandToken
<1>3. HandToken(T, "gpio") \in {0, 1} /\ HandToken(T, "usbwq") \in {0, 1} /\ HandToken(T, "main") \in {0, 1}
  BY <1>2 DEF Context
<1>4. HandTokens(T) \in Nat
  BY <1>3 DEF HandTokens
<1> QED BY <1>1, <1>2, <1>4 DEF WaitingTokens

LEMMA HandStep ==
  ASSUME NEW T, NEW c \in Context, \A d \in Context : d # c => HandToken(T, d)' = HandToken(T, d)
  PROVE  HandTokens(T)' = HandTokens(T) - HandToken(T, c) + HandToken(T, c)'
<1>1. \A d \in Context : HandToken(T, d) \in {0, 1} /\ HandToken(T, d)' \in {0, 1}
  BY DEF HandToken
<1>2. HandTokens(T)' = HandToken(T, "gpio")' + HandToken(T, "usbwq")' + HandToken(T, "main")'
  BY DEF HandTokens
<1>3. CASE c = "gpio"
  BY <1>1, <1>2, <1>3 DEF HandTokens, Context
<1>4. CASE c = "usbwq"
  BY <1>1, <1>2, <1>4 DEF HandTokens, Context
<1>5. CASE c = "main"
  BY <1>1, <1>2, <1>5 DEF HandTokens, Context
<1> QED BY <1>3, <1>4, <1>5 DEF Context

LEMMA AllocTokens ==
  ASSUME IInv, NEW T, NEW c \in Context, NEW e \in Event, Alloc(c, e)
  PROVE  WaitingTokens(T)' \in Nat /\ WaitingTokens(T)' <= WaitingTokens(T) + One(T, e)
<1>1. /\ step \in [Context -> Step] /\ new \in [Context -> Event \union {NoEvent}]
      /\ step[c] = "none" /\ fifo' = fifo /\ new' = [new EXCEPT ![c] = e]
      /\ \E s \in Step : step' = [step EXCEPT ![c] = s]
  BY DEF IInv, TypeOK, Step, Alloc, At, Goto
<1>2. \A d \in Context : d # c => HandToken(T, d)' = HandToken(T, d)
  BY <1>1 DEF HandToken
<1>3. HandToken(T, c) = 0 /\ HandToken(T, c)' \in {0, One(T, e)} /\ One(T, e) \in {0, 1}
  BY <1>1 DEF HandToken, One
<1>4. HandTokens(T)' = HandTokens(T) + HandToken(T, c)'
  BY <1>2, <1>3, HandStep, TokenNumbers
<1>5. FifoTokens(T)' = FifoTokens(T)
  BY <1>1 DEF FifoTokens
<1>6. WaitingTokens(T)' = FifoTokens(T)' + HandTokens(T)' /\ WaitingTokens(T) = FifoTokens(T) + HandTokens(T)
  BY DEF WaitingTokens
<1> QED BY <1>3, <1>4, <1>5, <1>6, TokenNumbers

LEMMA RaiseTokens ==
  ASSUME IInv, NEW T, NEW c \in Context, RaiseStep(c)
  PROVE  WaitingTokens(T)' \in Nat /\ WaitingTokens(T)' <= WaitingTokens(T)
<1>1. /\ step \in [Context -> Step] /\ new \in [Context -> Event \union {NoEvent}]
      /\ fifo \in Seq(Event)
  BY DEF IInv, TypeOK, Step
<1>2. WaitingTokens(T)' = FifoTokens(T)' + HandTokens(T)' /\ WaitingTokens(T) = FifoTokens(T) + HandTokens(T)
  BY DEF WaitingTokens
<1>3. /\ \E s \in Step : step' = [step EXCEPT ![c] = s]
      /\ new' = new \/ new' = [new EXCEPT ![c] = NoEvent]
      /\ step'[c] # "put"
  BY <1>1 DEF RaiseStep, Put, Give, FlushGet, FlushFree, FlushEnd, Retry, At, Goto, Step
<1>4. \A d \in Context : d # c => HandToken(T, d)' = HandToken(T, d)
  BY <1>1, <1>3 DEF HandToken
<1>5. HandToken(T, c)' = 0
  BY <1>3 DEF HandToken
<1>6. HandTokens(T)' = HandTokens(T) - HandToken(T, c)
  BY <1>4, <1>5, HandStep, TokenNumbers
<1>7. HandTokens(T)' \in Nat
  BY <1>4, <1>5, <1>6, TokenNumbers DEF HandTokens, HandToken, Context
<1>8. FifoTokens(T)' \in Nat /\ FifoTokens(T)' <= FifoTokens(T) + HandToken(T, c)
  <2>1. CASE Put(c)
    <3>1. /\ fifo' = Append(fifo, new[c]) /\ new[c] \in Event /\ step[c] = "put"
      BY <2>1 DEF Put, At, NewShape, IInv
    <3>2. HandToken(T, c) = IF new[c] \in T THEN 1 ELSE 0
      BY <3>1 DEF HandToken
    <3>3. Append(fifo, new[c]) \in Seq(Event)
      BY <1>1, <3>1, AppendProperties
    <3>4. FifoTokens(T)' <= FifoTokens(T) + HandToken(T, c)
      BY <1>1, <3>1, <3>2, CountAppend DEF FifoTokens
    <3>5. FifoTokens(T)' \in Nat
      BY <3>1, <3>3, CountAppend DEF FifoTokens
    <3> QED BY <3>4, <3>5
  <2>2. CASE FlushGet(c)
    <3>1. fifo # <<>> /\ fifo' = Tail(fifo)
      BY <2>2 DEF FlushGet
    <3>2. FifoTokens(T)' \in Nat /\ FifoTokens(T)' + One(T, Head(fifo)) <= FifoTokens(T)
      BY <1>1, <3>1, CountTail DEF FifoTokens, One
    <3>3. HandToken(T, c) \in {0, 1} /\ One(T, Head(fifo)) \in {0, 1}
      BY DEF HandToken, One
    <3> QED BY <3>2, <3>3, TokenNumbers
  <2>3. CASE fifo' = fifo
    <3>1. FifoTokens(T)' = FifoTokens(T)
      BY <2>3 DEF FifoTokens
    <3>2. HandToken(T, c) \in {0, 1}
      BY DEF HandToken
    <3> QED BY <3>1, <3>2, TokenNumbers
  <2> QED BY <2>1, <2>2, <2>3 DEF RaiseStep, Give, FlushFree, FlushEnd, Retry
<1>9. HandToken(T, c) \in {0, 1}
  BY DEF HandToken
<1> QED BY <1>2, <1>6, <1>7, <1>8, <1>9, TokenNumbers

LEMMA LoopTokens ==
  ASSUME IInv, NEW T, Boot \/ TakeEvt \/ Get \/ Free, NEW e \in {0, 1}, 
         e = 1 => mainAt' = "handle" /\ cur' \in T
  PROVE  WaitingTokens(T)' \in Nat /\ WaitingTokens(T)' + e <= WaitingTokens(T)
<1>1. UNCHANGED <<step, new>>
  BY DEF Boot, TakeEvt, Get, Free
<1>2. HandTokens(T)' = HandTokens(T)
  BY <1>1 DEF HandTokens, HandToken
<1>3. FifoTokens(T)' \in Nat /\ FifoTokens(T)' + e <= FifoTokens(T)
  <2>1. CASE Get /\ fifo # <<>>
    <3>1. cur' = Head(fifo) /\ fifo' = Tail(fifo) /\ fifo \in Seq(Event)
      BY <2>1 DEF Get, IInv, TypeOK
    <3>2. FifoTokens(T)' \in Nat /\ FifoTokens(T)' + One(T, Head(fifo)) <= FifoTokens(T)
      BY <2>1, <3>1, CountTail DEF FifoTokens, One
    <3>3. e <= One(T, Head(fifo)) /\ One(T, Head(fifo)) \in {0, 1}
      BY <3>1 DEF One
    <3> QED BY <3>2, <3>3, TokenNumbers
  <2>2. CASE ~(Get /\ fifo # <<>>)
    <3>1. fifo' = fifo /\ mainAt' # "handle"
      BY <2>2 DEF Boot, TakeEvt, Get, Free
    <3>2. FifoTokens(T)' = FifoTokens(T) /\ e = 0
      BY <3>1 DEF FifoTokens
    <3> QED BY <3>2, TokenNumbers
  <2> QED BY <2>1, <2>2
<1>4. WaitingTokens(T)' = FifoTokens(T)' + HandTokens(T)' /\ WaitingTokens(T) = FifoTokens(T) + HandTokens(T)
  BY DEF WaitingTokens
<1> QED BY <1>2, <1>3, <1>4, TokenNumbers

\* A token that waits is counted.
LEMMA TokenWaits ==
  ASSUME IInv, NEW T, NEW e \in T, Waiting(e)
  PROVE  WaitingTokens(T) >= 1
<1>1. /\ step \in [Context -> Step] /\ new \in [Context -> Event \union {NoEvent}]
      /\ fifo \in Seq(Event)
  BY DEF IInv, TypeOK, Step
<1>2. InFifo(e) => FifoTokens(T) >= 1
  <2>1. SUFFICES ASSUME NEW i \in DOMAIN fifo, fifo[i] = e PROVE FifoTokens(T) >= 1
    BY DEF InFifo
  <2>2. IsFiniteSet(Among(fifo, T)) /\ Cardinality(Among(fifo, T)) \in Nat
    <3>1. Ask \in Event
      BY DEF Ask, Event, Buttons
    <3> QED BY <1>1, <3>1, CountAppend
  <2>3. i \in Among(fifo, T)
    BY <2>1 DEF Among
  <2>4. Cardinality(Among(fifo, T)) # 0
    BY <2>2, <2>3, FS_EmptySet
  <2> QED BY <2>2, <2>4 DEF FifoTokens
<1>3. InHand(e) => HandTokens(T) >= 1
  <2>1. SUFFICES ASSUME NEW c \in Context, step[c] = "put", new[c] = e PROVE HandTokens(T) >= 1
    BY DEF InHand
  <2>2. HandToken(T, c) = 1
    BY <2>1 DEF HandToken
  <2> QED BY <2>2, TokenNumbers DEF HandTokens, Context
<1> QED BY <1>2, <1>3, TokenNumbers DEF Waiting, WaitingTokens

LEMMA TotalNumbers ==
  ASSUME IInv, AppTypeOK
  PROVE  /\ WaitingTokens(Tokens) \in Nat /\ CurToken \in {0, 1} /\ AsksLeft \in Nat
         /\ Total \in Nat /\ Total = WaitingTokens(Tokens) + CurToken + AsksLeft
<1>1. WaitingTokens(Tokens) \in Nat
  BY TokenNumbers
<1>2. CurToken \in {0, 1}
  BY DEF CurToken
<1>3. AsksLeft \in Nat
  BY DEF AppTypeOK, AsksLeft
<1> QED BY <1>1, <1>2, <1>3 DEF Total

\* With at most one of them there is nothing behind the one main handles.
LEMMA OnlyOne ==
  ASSUME IInv, AppTypeOK, Total <= 1, NEW e \in Tokens, Handled(e)
  PROVE  AsksLeft = 0 /\ \A f \in Tokens : ~Waiting(f) /\ (Handled(f) => f = e)
<1>1. CurToken = 1
  BY DEF CurToken, Handled
<1>2. WaitingTokens(Tokens) = 0 /\ AsksLeft = 0
  BY <1>1, TotalNumbers
<1>3. ASSUME NEW f \in Tokens PROVE ~Waiting(f)
  BY <1>2, TokenWaits
<1> QED BY <1>2, <1>3 DEF Handled

\* As long as a press is to come nothing else is under way.
LEMMA NothingYet ==
  ASSUME IInv, AppTypeOK, Total <= 1, AsksLeft # 0
  PROVE  \A e \in Tokens : ~Waiting(e) /\ ~Handled(e)
<1>1. WaitingTokens(Tokens) = 0 /\ CurToken = 0
  BY TotalNumbers
<1>2. ASSUME NEW e \in Tokens PROVE ~Waiting(e)
  BY <1>1, TokenWaits
<1>3. ASSUME NEW e \in Tokens PROVE ~Handled(e)
  BY <1>1 DEF CurToken, Handled
<1> QED BY <1>2, <1>3

\* Sums, for numbers of which the steps below put in primed ones.
LEMMA Sums ==
  ASSUME NEW w \in Nat, NEW c \in Nat, NEW a \in Nat,
         NEW w1 \in Nat, NEW c1 \in Nat, NEW a1 \in Nat, NEW o \in Nat
  PROVE  /\ w1 <= w /\ c1 = c /\ a1 = a => w1 + c1 + a1 <= w + c + a
         /\ w1 <= w + o /\ c1 = c /\ a1 = a - o => w1 + c1 + a1 <= w + c + a
         /\ w1 + c1 <= w /\ a1 = a => w1 + c1 + a1 <= w + c + a
         /\ w1 <= w + o /\ c1 = 0 /\ o <= c /\ a1 = a => w1 + c1 + a1 <= w + c + a
OBVIOUS

LEMMA AtMostOne ==
  ASSUME NEW n \in Nat, NEW m \in Nat, n <= m, m <= 1 PROVE n <= 1
OBVIOUS

LEMMA SumOfThree == ASSUME NEW a \in Nat, NEW b \in Nat, NEW c \in Nat PROVE a + b + c \in Nat
OBVIOUS

LEMMA SumOfTwo == ASSUME NEW a \in Nat, NEW b \in Nat PROVE a + b \in Nat
OBVIOUS

\* No step makes a second one of one of them.
LEMMA TotalShrinks ==
  ASSUME IInv, AppTypeOK, AtShape, IInv', AppTypeOK', [Next]_vars
  PROVE  Total' <= Total /\ Total' \in Nat
<1> DEFINE Goal == Total' <= Total
<1>1. /\ WaitingTokens(Tokens) \in Nat /\ CurToken \in Nat /\ AsksLeft \in Nat
      /\ Total = WaitingTokens(Tokens) + CurToken + AsksLeft
  BY TotalNumbers
<1>2. /\ WaitingTokens(Tokens)' \in Nat /\ CurToken' \in Nat /\ AsksLeft' \in Nat
      /\ Total' = WaitingTokens(Tokens)' + CurToken' + AsksLeft'
  <2>1. CurToken' \in Nat /\ Total' = WaitingTokens(Tokens)' + CurToken' + AsksLeft'
    BY DEF CurToken, Total
  <2>2. FifoTokens(Tokens)' \in Nat
    <3>1. fifo' \in Seq(Event) /\ Ask \in Event
      BY DEF IInv, TypeOK, Ask, Event, Buttons
    <3> QED BY <3>1, CountAppend DEF FifoTokens
  <2>3. HandTokens(Tokens)' \in Nat
    <3>1. HandToken(Tokens, "gpio")' \in Nat /\ HandToken(Tokens, "usbwq")' \in Nat /\ HandToken(Tokens, "main")' \in Nat
      BY DEF HandToken
    <3> QED BY <3>1, SumOfThree, Zenon DEF HandTokens
  <2>4. AsksLeft' \in Nat
    BY DEF AppTypeOK, AsksLeft
  <2>5. WaitingTokens(Tokens)' \in Nat
    BY <2>2, <2>3, SumOfTwo, Zenon DEF WaitingTokens
  <2> QED BY <2>1, <2>4, <2>5
<1>3. Total' \in Nat
  BY <1>2, SumOfThree, Zenon
<1> SUFFICES Goal
  BY <1>3
<1> HIDE DEF Goal
<1>4. ASSUME WaitingTokens(Tokens)' <= WaitingTokens(Tokens), CurToken' = CurToken, AsksLeft' = AsksLeft
      PROVE Goal
  BY <1>1, <1>2, <1>4, Sums, Zenon DEF Goal
<1>5. ASSUME UNCHANGED <<evtVars, left>> PROVE Goal
  <2>1. UNCHANGED <<fifo, step, new, mainAt, cur>>
    BY <1>5 DEF evtVars
  <2>2. WaitingTokens(Tokens)' = WaitingTokens(Tokens)
    BY <2>1 DEF WaitingTokens, FifoTokens, HandTokens, HandToken
  <2>3. CurToken' = CurToken /\ AsksLeft' = AsksLeft
    BY <1>5, <2>1 DEF CurToken, AsksLeft
  <2> QED BY <1>1, <1>4, <2>2, <2>3
<1>6. ASSUME NEW e \in Stimuli, Stimulus(e) PROVE Goal
  <2> DEFINE c == IF e \in Buttons THEN "gpio" ELSE "usbwq"
  <2>1. c \in Context /\ Alloc(c, e) /\ e \in Event /\ UNCHANGED <<mainAt, cur>>
    BY <1>6, EventFacts DEF Stimulus, Interrupt, Alloc, Context
  <2> HIDE DEF c
  <2>2. WaitingTokens(Tokens)' <= WaitingTokens(Tokens) + One(Tokens, e)
    BY <2>1, AllocTokens
  <2>3. CurToken' = CurToken
    BY <2>1 DEF CurToken
  <2>4. AsksLeft' = AsksLeft - One(Tokens, e)
    <3>1. left[e] > 0 /\ left' = [left EXCEPT ![e] = @ - 1] /\ left \in [Stimuli \union {"unplug"} -> Nat]
      BY <1>6 DEF Stimulus, AppTypeOK
    <3>2. CASE e = Ask
      BY <1>6, <3>1, <3>2 DEF AsksLeft, One, Tokens
    <3>3. CASE e # Ask
      <4>1. One(Tokens, e) = 0
        BY <3>3, EventsDiffer DEF One, Tokens
      <4>2. AsksLeft' = AsksLeft
        BY <3>1, <3>3 DEF AsksLeft
      <4> QED BY <1>1, <4>1, <4>2
    <3> QED BY <3>2, <3>3
  <2>5. One(Tokens, e) \in Nat
    BY DEF One
  <2> QED BY <1>1, <1>2, <2>2, <2>3, <2>4, <2>5, Sums, Zenon DEF Goal
<1>7. ASSUME NEW h \in Endpoint, HostPolls(h) PROVE Goal
  BY <1>5, <1>7 DEF HostPolls
<1>8. CASE Unplug \/ Replug
  <2>1. UNCHANGED evtVars /\ AsksLeft' = AsksLeft
    BY <1>8, UnplugIsNoStimulus DEF Unplug, Replug, AsksLeft, AppTypeOK
  <2>2. UNCHANGED <<fifo, step, new, mainAt, cur>>
    BY <2>1 DEF evtVars
  <2>3. WaitingTokens(Tokens)' = WaitingTokens(Tokens) /\ CurToken' = CurToken
    BY <2>2 DEF WaitingTokens, FifoTokens, HandTokens, HandToken, CurToken
  <2> QED BY <1>1, <1>4, <2>1, <2>3
<1>9. ASSUME NEW c \in Context, Plumbing(RaiseStep(c)) PROVE Goal
  <2>1. WaitingTokens(Tokens)' <= WaitingTokens(Tokens) /\ left' = left
    BY <1>9, RaiseTokens DEF Plumbing, appVars
  <2>2. cur' = cur /\ (mainAt' = mainAt \/ (mainAt = "raise" /\ mainAt' = "free"))
    BY <1>9, RaiseMoves DEF Plumbing
  <2>3. CurToken' = CurToken /\ AsksLeft' = AsksLeft
    BY <2>1, <2>2 DEF CurToken, AsksLeft
  <2> QED BY <1>4, <2>1, <2>3
<1>10. CASE Plumbing(Boot) \/ Plumbing(TakeEvt) \/ Plumbing(Get) \/ Plumbing(Free)
  <2>1. Boot \/ TakeEvt \/ Get \/ Free
    BY <1>10 DEF Plumbing
  <2>2. CurToken = 0 /\ AsksLeft' = AsksLeft
    BY <1>10, <2>1, LoopMoves DEF CurToken, Plumbing, appVars, AsksLeft
  <2>3. CurToken' = 1 => mainAt' = "handle" /\ cur' \in Tokens
    BY DEF CurToken
  <2>4. WaitingTokens(Tokens)' + CurToken' <= WaitingTokens(Tokens)
    <3>1. CurToken' \in {0, 1}
      BY DEF CurToken
    <3> QED BY <2>1, <2>3, <3>1, LoopTokens
  <2> QED BY <1>1, <1>2, <2>2, <2>4, Sums, Zenon DEF Goal
<1>11. CASE ReadKey \/ ReadShift \/ TakeUsb \/ WriteReport \/ WriteText \/ Count
  BY <1>5, <1>11 DEF ReadKey, ReadShift, TakeUsb, WriteReport, WriteText, Count, InHandler
<1>12. ASSUME NEW f \in Hid, RaiseNext(f) PROVE Goal
  <2>1. /\ Alloc("main", f) /\ Raises(f) /\ f \in Event /\ "main" \in Context
        /\ mainAt = "handle" /\ mainAt' = "raise" /\ left' = left
    BY <1>12, EventFacts DEF RaiseNext, FollowUp, MainAt, Context
  <2>2. WaitingTokens(Tokens)' <= WaitingTokens(Tokens) + One(Tokens, f)
    BY <2>1, AllocTokens
  <2>3. CurToken' = 0 /\ AsksLeft' = AsksLeft
    BY <2>1 DEF CurToken, AsksLeft
  <2>4. One(Tokens, f) <= CurToken
    <3>1. CASE f = Stream
      <4>1. cur \in Tokens
        BY <2>1, <3>1 DEF Raises, Tokens, Ask, Stream
      <4> QED BY <2>1, <4>1 DEF CurToken, One
    <3>2. CASE f # Stream
      <4>1. One(Tokens, f) = 0
        BY <3>2 DEF Hid, One, Tokens, Ask, Stream
      <4> QED BY <1>1, <4>1
    <3> QED BY <3>1, <3>2
  <2>5. One(Tokens, f) \in Nat
    BY DEF One
  <2> QED BY <1>1, <1>2, <2>2, <2>3, <2>4, <2>5, Sums, Zenon DEF Goal
<1>13. CASE RaiseNone
  <2>1. UNCHANGED <<fifo, step, new, left>> /\ mainAt' = "free"
    BY <1>13 DEF RaiseNone, HandlerEnds
  <2>2. WaitingTokens(Tokens)' = WaitingTokens(Tokens)
    BY <2>1 DEF WaitingTokens, FifoTokens, HandTokens, HandToken
  <2>3. CurToken' = 0 /\ AsksLeft' = AsksLeft
    BY <2>1 DEF CurToken, AsksLeft
  <2>4. CurToken' + 0 <= CurToken
    BY <2>3, <1>1
  <2> QED BY <1>1, <1>2, <2>2, <2>3, <2>4, Sums DEF Goal
<1>14. CASE UNCHANGED vars
  <2>1. UNCHANGED <<evtVars, left>>
    BY <1>14 DEF vars, appVars
  <2> QED BY <1>5, <2>1
<1> QED
  BY <1>6, <1>7, <1>8, <1>9, <1>10, <1>11, <1>12, <1>13, <1>14, Zenon DEF Next, Handler

-----------------------------------------------------------------------------
(* What has been typed, and what is still to come.                         *)

\* The host holds, or has in front of it, a key of the string.
Pressing == ep["hid1"] # NoReport /\ ep["hid1"].key \notin {"zero", "caps"}
Shown    == IF Pressing THEN Append(typed, ep["hid1"]) ELSE typed

\* main has left its start and its sleep.
Up == mainAt \notin {"init", "wait"}

\* The characters that have been typed.
Done == IF Handled(Stream) /\ at = "count" THEN ptr + 1 ELSE ptr

\* Before button 2 is pressed, and after it.
Idle  == wanted = <<>> /\ Shown = <<>> /\ ~Streaming
Going == /\ AsksLeft = 0 /\ ~Waiting(Ask) /\ ~Handled(Ask)
         /\ wanted = All /\ Done \in 0 .. N /\ Shown = Upto(Done)
         /\ Streaming => Up /\ (ptr < N \/ AtTheEnd)
         /\ Streaming \/ (Doomed /\ Up) \/ ptr = N

\* The report of the character that main is at.
Building ==
  Handled(Stream) /\ at \in {"shift", "take", "write"} =>
    /\ Saved[ptr] \in DOMAIN KeyOf /\ rep.key = KeyOf[Saved[ptr]]
    /\ at # "shift" => rep = KeyReport(KeyOf[Saved[ptr]], Saved[ptr] \in Shifted)

\* The key that is down is the last one typed.
KeyDown == \/ host["hid1"].key \in {"zero", "caps"}
           \/ typed # <<>> /\ host["hid1"].key = typed[Len(typed)].key

Present == plugged /\ left["unplug"] = 0

Typist == (Idle \/ Going) /\ Building /\ KeyDown
TInv   == KInv /\ Total <= 1 /\ Present /\ Typist

\* What TypedBack needs: one line, button 2 once, a host that stays, and no
\* key twice in a row.
Once     == Ask \in Stimuli => Presses[Ask] <= 1
NoDouble == \A i \in 1 .. Len(All) - 1 : All[i].key # All[i + 1].key
Steady   == OneLine /\ Once /\ Unplugs = 0 /\ NoDouble

LEMMA Fixed == N' = N /\ All' = All /\ Saved' = Saved /\ \A n : Upto(n)' = Upto(n)
BY DEF N, All, Saved, Strokes, Upto, Typing, Stroke, TheLine, KeyReport

LEMMA TypingFacts ==
  ASSUME Steady, TInv
  PROVE  /\ ptr \in Nat /\ N \in Nat /\ typed \in Seq(Report) /\ ep["hid1"] \in Report
         /\ Handled(Stream) => Going /\ string = Saved /\ Strlen(string) = N /\ N > 0
         /\ AsksLeft # 0 => Idle
         /\ Waiting(Ask) \/ Handled(Ask) => Idle
<1>1. ptr \in Nat /\ N \in Nat /\ typed \in Seq(Report)
  BY Numbers DEF TInv, KInv, AppTypeOK, Steady
<1>2. ep["hid1"] \in Report
  BY Units DEF TInv, KInv, UsbInv
<1>3. Handled(Stream) => Going /\ string = Saved /\ Strlen(string) = N /\ N > 0
  BY TextFacts DEF TInv, Typist, Idle, Streaming, KInv, Keys, Steady
<1> QED BY <1>1, <1>2, <1>3 DEF TInv, Typist, Going

LEMMA SameReports ==
  ASSUME TInv, UNCHANGED <<typed, ep, host>>
  PROVE  Shown' = Shown /\ KeyDown'
BY DEF Shown, Pressing, KeyDown, TInv, Typist

\* A step that adds nothing to what is typed.
LEMMA SamePlace ==
  ASSUME TInv, UNCHANGED <<wanted, ptr>>, Shown' = Shown, Done' = Done,
         AsksLeft = 0 => AsksLeft' = 0,
         Going => ~Waiting(Ask)' /\ ~Handled(Ask)',
         Streaming' => Streaming /\ Up' /\ (AtTheEnd => AtTheEnd'),
         Streaming => Streaming' \/ (Doomed' /\ Up'),
         Doomed /\ Up => Doomed' /\ Up'
  PROVE  (Idle \/ Going)'
<1>1. ASSUME Idle PROVE Idle'
  BY <1>1 DEF Idle
<1>2. ASSUME Going PROVE Going'
  BY <1>2, Fixed DEF Going
<1> QED BY <1>1, <1>2 DEF TInv, Typist

LEMMA StimulusTypes ==
  ASSUME Steady, TInv, NEW e \in Stimuli, Stimulus(e)
  PROVE  Typist'
<1> DEFINE c == IF e \in Buttons THEN "gpio" ELSE "usbwq"
<1>1. /\ c \in Context /\ Alloc(c, e) /\ e \in Event /\ e # Stream
      /\ UNCHANGED <<mainAt, cur, at, ptr, rep, ep, host, typed, wanted>>
      /\ left[e] > 0 /\ left' = [left EXCEPT ![e] = @ - 1] 
      /\ left \in [Stimuli \union {"unplug"} -> Nat]
  BY EventFacts, EventsDiffer
     DEF Stimulus, Interrupt, Alloc, usbVars, Context, TInv, KInv, AppTypeOK
<1> HIDE DEF c
<1>2. /\ \A f : Handled(f)' <=> Handled(f)
      /\ Waiting(Stream)' <=> Waiting(Stream)
      /\ Waiting(Ask)' => Waiting(Ask) \/ e = Ask
      /\ Doomed => Doomed'
  BY <1>1, AllocMoves DEF Handled, TInv, KInv
<1>3. (Streaming' <=> Streaming) /\ (AtTheEnd' <=> AtTheEnd) /\ Done' = Done /\ (Up' <=> Up)
  BY <1>1, <1>2, Fixed DEF Streaming, AtTheEnd, Done, Up
<1>4. e = Ask => AsksLeft # 0
  BY <1>1 DEF AsksLeft
<1>5. AsksLeft = 0 => AsksLeft' = 0
  BY <1>1, <1>4 DEF AsksLeft
<1>6. Going => ~Waiting(Ask)' /\ ~Handled(Ask)'
  BY <1>2, <1>4 DEF Going
<1>7. Streaming => Up
  BY DEF TInv, Typist, Idle, Going
<1>8. (Idle \/ Going)' /\ KeyDown'
  BY <1>1, <1>2, <1>3, <1>5, <1>6, <1>7, SameReports, SamePlace
<1>9. Building'
  BY <1>1, <1>2, Fixed DEF Building, TInv, Typist
<1> QED BY <1>8, <1>9 DEF Typist

\* The next key is another one than the last.
LEMMA NextKeyDiffers ==
  ASSUME Steady, TInv, Pressing
  PROVE  host["hid1"].key # ep["hid1"].key
<1>1. /\ typed \in Seq(Report) /\ Shown = Append(typed, ep["hid1"])
      /\ ep["hid1"] \in Report /\ ep["hid1"].key \notin {"zero", "caps"}
  BY TypingFacts DEF Shown, Pressing
<1>2. /\ Len(typed) \in Nat /\ Len(Shown) = Len(typed) + 1 /\ Shown # <<>>
      /\ Shown[Len(typed) + 1] = ep["hid1"]
      /\ \A i \in 1 .. Len(typed) : Shown[i] = typed[i]
  BY <1>1, AppendProperties
<1>3. Going
  BY <1>2 DEF TInv, Typist, Idle
<1>4. /\ Done \in 0 .. N /\ Shown = Upto(Done)
  BY <1>3 DEF Going
<1>5. /\ Len(All) \in Nat /\ Len(Shown) <= Len(All)
      /\ \A i \in 1 .. Len(Shown) : Shown[i] = All[i]
  BY <1>4, UptoPrefix DEF Steady
<1>6. CASE host["hid1"].key \in {"zero", "caps"}
  BY <1>1, <1>6
<1>7. CASE typed # <<>> /\ host["hid1"].key = typed[Len(typed)].key
  <2>1. Len(typed) # 0
    BY <1>1, <1>7
  <2>2. /\ Len(typed) \in 1 .. Len(typed) /\ Len(typed) \in 1 .. Len(Shown)
        /\ Len(typed) + 1 \in 1 .. Len(Shown) /\ Len(typed) \in 1 .. Len(All) - 1
    BY <1>2, <1>5, <2>1
  <2>3. All[Len(typed)] = typed[Len(typed)] /\ All[Len(typed) + 1] = ep["hid1"]
    BY <1>2, <1>5, <2>2
  <2>4. All[Len(typed)].key # All[Len(typed) + 1].key
    BY <2>2 DEF Steady, NoDouble
  <2> QED BY <1>7, <2>3, <2>4
<1> QED BY <1>6, <1>7 DEF TInv, Typist, KeyDown

LEMMA HostTypes ==
  ASSUME Steady, TInv, NEW h \in Endpoint, HostPolls(h)
  PROVE  Typist'
<1>1. /\ UNCHANGED <<evtVars, ptr, rep, wanted, at, left>> /\ ep[h] # NoReport
      /\ host' = [host EXCEPT ![h] = ep[h]] /\ ep' = [ep EXCEPT ![h] = NoReport]
      /\ typed' = IF h = "hid1" /\ ep[h].key \notin {"zero", "caps", host[h].key}
                  THEN Append(typed, ep[h]) ELSE typed
      /\ DOMAIN ep = Endpoint /\ DOMAIN host = Endpoint
  BY DEF HostPolls, strVars, TInv, KInv, UsbInv, HostInv
<1>2. /\ Doomed' <=> Doomed
      /\ \A f : (Waiting(f)' <=> Waiting(f)) /\ (Handled(f)' <=> Handled(f))
      /\ Streaming' <=> Streaming
      /\ mainAt' = mainAt
  BY <1>1, EventsSame DEF evtVars
<1>3. /\ AtTheEnd' <=> AtTheEnd
      /\ Done' = Done /\ (Up' <=> Up) /\ AsksLeft' = AsksLeft
  BY <1>1, <1>2, Fixed DEF AtTheEnd, Done, Up, AsksLeft
<1>4. Building'
  BY <1>1, <1>2, Fixed DEF Building, TInv, Typist
<1>5. Shown' = Shown /\ KeyDown'
  <2>1. CASE h = "hid1" /\ Pressing
    <3>1. typed' = Append(typed, ep["hid1"]) /\ Shown = Append(typed, ep["hid1"])
      BY <1>1, <2>1, NextKeyDiffers DEF Shown, Pressing
    <3>2. ~Pressing'
      BY <1>1, <2>1 DEF Pressing
    <3>3. typed \in Seq(Report) /\ ep["hid1"] \in Report
      BY TypingFacts
    <3>4. Append(typed, ep["hid1"]) # <<>>
          /\ Append(typed, ep["hid1"])[Len(Append(typed, ep["hid1"]))] = ep["hid1"]
      BY <3>3
    <3>5. host'["hid1"] = ep["hid1"]
      BY <1>1, <2>1
    <3> QED BY <3>1, <3>2, <3>4, <3>5 DEF Shown, KeyDown
  <2>2. CASE h = "hid1" /\ ~Pressing
    <3>1. ep["hid1"].key \in {"zero", "caps"} /\ typed' = typed /\ Shown = typed
      BY <1>1, <2>2 DEF Shown, Pressing
    <3>2. ~Pressing' /\ host'["hid1"] = ep["hid1"]
      BY <1>1, <2>2 DEF Pressing
    <3> QED BY <3>1, <3>2 DEF Shown, KeyDown
  <2>3. CASE h # "hid1"
    <3>1. typed' = typed /\ ep'["hid1"] = ep["hid1"] /\ host'["hid1"] = host["hid1"]
      BY <1>1, <2>3, Units
    <3> QED BY <3>1 DEF Shown, Pressing, KeyDown, TInv, Typist
  <2> QED BY <2>1, <2>2, <2>3
<1>6. (Going => ~Waiting(Ask)' /\ ~Handled(Ask)') /\ (Streaming => Up)
  BY <1>2 DEF Going, TInv, Typist, Idle
<1>7. (Idle \/ Going)'
  BY <1>1, <1>2, <1>3, <1>5, <1>6, SamePlace
<1> QED BY <1>4, <1>5, <1>7 DEF Typist

LEMMA PlumbingTypes ==
  ASSUME Steady, TInv, UNCHANGED appVars,
         \/ \E c \in Context : RaiseStep(c)
         \/ Boot \/ TakeEvt \/ Get \/ Free
  PROVE  Typist'
<1>1. /\ UNCHANGED <<typed, ep, host, wanted, ptr, rep, at>> /\ AsksLeft' = AsksLeft
      /\ Streaming => Up
  BY DEF appVars, usbVars, strVars, AsksLeft, TInv, Typist, Idle, Going
<1>2. ASSUME NEW c \in Context, RaiseStep(c) PROVE Typist'
  <2>1. /\ Doomed => Doomed'
        /\ \A f : Waiting(f) => Waiting(f)' \/ Doomed'
        /\ \A f : Waiting(f)' => Waiting(f)
        /\ cur' = cur /\ (mainAt' = mainAt \/ (mainAt = "raise" /\ mainAt' = "free"))
    BY <1>2, RaiseMoves DEF TInv, KInv
  <2>2. (\A f : Handled(f)' <=> Handled(f)) /\ (Up => Up')
    BY <2>1 DEF Handled, Up
  <2>3. /\ Streaming' => Streaming
        /\ Streaming => Streaming' \/ Doomed'
        /\ AtTheEnd' <=> AtTheEnd
        /\ Done' = Done
    BY <1>1, <2>1, <2>2, Fixed DEF Streaming, AtTheEnd, Done
  <2>4. Going => ~Waiting(Ask)' /\ ~Handled(Ask)'
    BY <2>1, <2>2 DEF Going
  <2>5. (Idle \/ Going)' /\ KeyDown'
    BY <1>1, <2>1, <2>2, <2>3, <2>4, SameReports, SamePlace
  <2>6. Building'
    BY <1>1, <2>2, Fixed DEF Building, TInv, Typist
  <2> QED BY <2>5, <2>6 DEF Typist
<1>3. ASSUME Boot \/ TakeEvt \/ Get \/ Free PROVE Typist'
  <2>1. /\ mainAt # "handle" /\ Doomed' = Doomed
        /\ \A f : Waiting(f) => Waiting(f)' \/ Handled(f)'
        /\ \A f : Waiting(f)' \/ Handled(f)' => Waiting(f)
    BY <1>3, LoopMoves DEF TInv, KInv
  <2>2. at = "start" /\ at' = "start"
    BY <1>1, <2>1 DEF AtShape, TInv, KInv
  <2>3. (\A f : ~Handled(f)) /\ ~Doomed
    <3>1. step["main"] = "none" /\ \A d \in Above("main") : step[d] = "none"
      BY <1>3 DEF Boot, TakeEvt, Get, Free, MainAt, At, Runs
    <3>2. Above("main") = {"gpio", "usbwq"}
      BY DEF Above
    <3>3. \A c \in Context : step[c] = "none"
      BY <3>1, <3>2 DEF Context
    <3> QED BY <2>1, <3>3 DEF Handled, Doomed
  <2>4. (Streaming' <=> Streaming) /\ ~AtTheEnd /\ Done' = Done
    BY <1>1, <2>1, <2>2, <2>3 DEF Streaming, AtTheEnd, Done
  <2>5. Streaming' => Up'
    <3>1. CASE Get /\ fifo = <<>>
      <4>1. ~InFifo(Stream)' /\ step["main"] = "none" /\ UNCHANGED <<step, new>>
            /\ mainAt' # "handle"
        BY <3>1 DEF Get, InFifo, MainAt, At
      <4>2. ~InHand(Stream)'
        BY <4>1 DEF InHand, TInv, KInv, Keys, StreamInv
      <4> QED BY <4>1, <4>2 DEF Streaming, Waiting, Handled
    <3>2. CASE Boot
      <4>1. ~Up
        BY <3>2 DEF Boot, MainAt, Up
      <4> QED BY <1>1, <2>4, <4>1
    <3>3. CASE TakeEvt \/ Free \/ (Get /\ fifo # <<>>)
      <4>1. Up'
        BY <3>3 DEF TakeEvt, Free, Get, Up
      <4> QED BY <4>1
    <3> QED BY <1>3, <3>1, <3>2, <3>3
  <2>6. Going => ~Waiting(Ask)' /\ ~Handled(Ask)'
    BY <2>1 DEF Going
  <2>7. (Idle \/ Going)' /\ KeyDown'
    BY <1>1, <2>3, <2>4, <2>5, <2>6, SameReports, SamePlace
  <2>8. Building'
    BY <2>2 DEF Building
  <2> QED BY <2>7, <2>8 DEF Typist
<1> QED BY <1>2, <1>3

\* A step in the middle of a handler.
LEMMA SameHandler ==
  ASSUME TInv, UNCHANGED <<evtVars, wanted, ptr, left>>, mainAt = "handle", at # "equal",
         Shown' = Shown, Done' = Done
  PROVE  (Idle \/ Going)'
<1>1. /\ Doomed' <=> Doomed
      /\ \A f : (Waiting(f)' <=> Waiting(f)) /\ (Handled(f)' <=> Handled(f))
      /\ Streaming' <=> Streaming
      /\ ~AtTheEnd
  BY EventsSame DEF AtTheEnd
<1>2. Up' /\ (AsksLeft = 0 => AsksLeft' = 0)
  BY DEF evtVars, Up, AsksLeft
<1>3. Going => ~Waiting(Ask)' /\ ~Handled(Ask)'
  BY <1>1 DEF Going
<1> QED BY <1>1, <1>2, <1>3, SamePlace

\* The string of the character at str_pointer.
LEMMA AtPtr ==
  ASSUME Steady, TInv, Handled(Stream), at \notin {"count", "equal"}
  PROVE  /\ ptr \in 0 .. N /\ ptr + 1 \in 0 .. N /\ ptr < N /\ PtrChar = {Saved[ptr]}
         /\ Saved[ptr] = TheLine[ptr + 1]
         /\ Done = ptr /\ Shown = Upto(ptr) /\ Going
         /\ Upto(ptr + 1) = Upto(ptr) \o Stroke(Saved[ptr])
<1>1. /\ ptr \in Nat /\ N \in Nat /\ N < Size /\ Size \in Nat
      /\ Going /\ string = Saved
  BY TypingFacts, LineFacts DEF Steady
<1>2. ptr < N
  <2>1. ~AtTheEnd /\ Streaming
    BY DEF AtTheEnd, Streaming
  <2> QED BY <1>1, <2>1 DEF Going
<1>3. ptr \in 0 .. N - 1 /\ ptr < Size
  BY <1>1, <1>2
<1>4. Saved[ptr] = TheLine[ptr + 1]
  <2>1. ptr \in 0 .. Size - 1
    BY <1>1, <1>2
  <2> QED BY <1>2, <2>1 DEF Saved
<1>5. Done = ptr /\ Shown = Upto(ptr)
  BY <1>1 DEF Done, Going
<1>6. Upto(ptr + 1) = Upto(ptr) \o Stroke(Saved[ptr])
  BY <1>3, <1>4, UptoSteps DEF Steady
<1>7. ptr \in 0 .. N /\ ptr + 1 \in 0 .. N
  BY <1>1, <1>2
<1> QED BY <1>1, <1>2, <1>3, <1>4, <1>5, <1>6, <1>7 DEF PtrChar

LEMMA ReadKeyTypes ==
  ASSUME Steady, TInv, ReadKey
  PROVE  Typist'
<1>1. /\ UNCHANGED <<evtVars, typed, ep, host, wanted, ptr, left>> /\ mainAt = "handle"
      /\ at = "start" /\ cur = Stream
  BY DEF ReadKey, Handling, MainAt, InHandler, usbVars, Stream
<1>2. Handled(Stream) /\ Handled(Stream)'
  BY <1>1, EventsSame DEF Handled
<1>3. /\ ptr \in 0 .. N /\ ptr + 1 \in 0 .. N /\ ptr < N /\ PtrChar = {Saved[ptr]} /\ Done = ptr
      /\ Shown = Upto(ptr) /\ Upto(ptr + 1) = Upto(ptr) \o Stroke(Saved[ptr]) /\ Going
  BY <1>1, <1>2, AtPtr
<1>4. Shown' = Shown /\ KeyDown'
  BY <1>1, SameReports
<1>5. CASE Saved[ptr] \in DOMAIN KeyOf
  <2>1. rep' = KeyReport(KeyOf[Saved[ptr]], FALSE) /\ at' = "shift"
    BY <1>3, <1>5 DEF ReadKey
  <2>2. Done' = Done
    BY <1>1, <1>3, <2>1 DEF Done
  <2>3. Building'
    BY <1>1, <1>5, <2>1, Fixed DEF Building, KeyReport
  <2>4. (Idle \/ Going)'
    BY <1>1, <1>4, <2>2, SameHandler
  <2> QED BY <1>4, <2>3, <2>4 DEF Typist
<1>6. CASE Saved[ptr] \notin DOMAIN KeyOf
  <2>1. at' = "count"
    BY <1>3, <1>6 DEF ReadKey
  <2>2. Building'
    BY <2>1 DEF Building
  <2>3. Done' = ptr + 1
    BY <1>1, <1>2, <2>1 DEF Done
  <2>4. Upto(ptr + 1) = Upto(ptr)
    <3>1. Stroke(Saved[ptr]) = <<>>
      BY <1>6, Zenon DEF Stroke
    <3>2. Upto(ptr) \in Seq(Report)
      BY <1>3, UptoTyped DEF Steady
    <3> QED BY <1>3, <3>1, <3>2
  <2>5. Going'
    <3>1. /\ \A f : (Waiting(f)' <=> Waiting(f)) /\ (Handled(f)' <=> Handled(f))
          /\ Streaming' /\ Up' /\ AsksLeft' = AsksLeft
      BY <1>1, <1>2, EventsSame DEF evtVars, Up, AsksLeft, Streaming
    <3>2. /\ AsksLeft' = 0 /\ ~Waiting(Ask)' /\ ~Handled(Ask)' /\ wanted' = All
      BY <1>1, <1>3, <3>1 DEF Going
    <3>3. Shown' = Upto(ptr + 1)
      BY <1>3, <1>4, <2>4
    <3>4. ptr' < N
      BY <1>1, <1>3
    <3> QED BY <1>3, <2>3, <3>1, <3>2, <3>3, <3>4, Fixed DEF Going
  <2> QED BY <1>4, <2>2, <2>5 DEF Typist
<1> QED BY <1>5, <1>6

LEMMA ReadShiftTypes ==
  ASSUME Steady, TInv, ReadShift
  PROVE  Typist'
<1>1. /\ UNCHANGED <<evtVars, typed, ep, host, wanted, ptr, left>> /\ mainAt = "handle"
      /\ at = "shift" /\ at' = "take" /\ cur = Stream
  BY Zenon DEF ReadShift, Handling, MainAt, InHandler, usbVars, Stream, TInv, KInv, AtShape
<1>2. Handled(Stream) /\ Handled(Stream)'
  BY <1>1, EventsSame DEF Handled
<1>3. PtrChar = {Saved[ptr]} /\ Saved[ptr] \in DOMAIN KeyOf /\ rep.key = KeyOf[Saved[ptr]]
  BY <1>1, <1>2, AtPtr DEF Building, TInv, Typist
<1>4. rep' = KeyReport(KeyOf[Saved[ptr]], Saved[ptr] \in Shifted)
  <2>1. PICK c \in PtrChar : rep' = KeyReport(rep.key, c \in Shifted)
    BY Zenon DEF ReadShift
  <2>2. c = Saved[ptr]
    BY <1>3, <2>1
  <2> QED BY <1>3, <2>1, <2>2, Zenon
<1>5. Building'
  <2>1. rep'.key = KeyOf[Saved[ptr]]
    BY <1>4, Zenon DEF KeyReport
  <2> QED BY <1>1, <1>3, <1>4, <2>1, Fixed, Zenon DEF Building
<1>6. Shown' = Shown /\ KeyDown' /\ Done' = Done
  BY <1>1, SameReports DEF Done
<1>7. (Idle \/ Going)'
  BY <1>1, <1>6, SameHandler
<1> QED BY <1>5, <1>6, <1>7 DEF Typist

LEMMA TakeUsbTypes ==
  ASSUME Steady, TInv, TakeUsb \/ WriteText
  PROVE  Typist'
<1>1. /\ UNCHANGED <<evtVars, typed, ep, host, wanted, ptr, left>> /\ mainAt = "handle"
  BY DEF TakeUsb, WriteText, Handling, MainAt, InHandler, usbVars, strVars
<1>2. /\ at # "equal" /\ at # "count" /\ at' # "count"
      /\ Handled(Stream) => at = "take" /\ at' = "write" /\ rep' = rep
  <2>1. CASE TakeUsb
    <3>1. /\ at' = "write"
          /\ \/ at = "take" /\ rep' = rep
             \/ at = "start" /\ cur # Stream
      BY <2>1 DEF TakeUsb, Handling, Stream
    <3> QED BY <3>1 DEF Handled
  <2>2. CASE WriteText
    <3>1. at' = "decide" /\ (at = "text" \/ (at = "start" /\ cur \in TextOnly))
      BY <2>2 DEF WriteText, Handling
    <3> QED BY <3>1 DEF Handled, TInv, KInv, Keys, PlaceInv, Stream, TextOnly
  <2> QED BY <2>1, <2>2
<1>3. Building'
  <2>1. Handled(Stream)' <=> Handled(Stream)
    BY <1>1, EventsSame
  <2>2. CASE Handled(Stream)
    <3>1. /\ Saved[ptr] \in DOMAIN KeyOf /\ rep.key = KeyOf[Saved[ptr]]
          /\ rep = KeyReport(KeyOf[Saved[ptr]], Saved[ptr] \in Shifted)
      BY <1>2, <2>2, Zenon DEF TInv, Typist, Building
    <3> QED BY <1>1, <1>2, <2>2, <3>1, Fixed, Zenon DEF Building
  <2>3. CASE ~Handled(Stream)
    BY <2>1, <2>3 DEF Building
  <2> QED BY <2>2, <2>3
<1>4. Shown' = Shown /\ KeyDown' /\ Done' = Done
  BY <1>1, <1>2, SameReports DEF Done
<1>5. (Idle \/ Going)'
  BY <1>1, <1>2, <1>4, SameHandler
<1> QED BY <1>3, <1>4, <1>5 DEF Typist

\* main writes a report only if there is room for one.
LEMMA EndpointsEmpty ==
  ASSUME UsbInv, at = "write"
  PROVE  ep["hid1"] = NoReport
<1>1. UsbUnits <= 1 /\ Writing = 1 /\ usbSem \in {0, 1}
  BY DEF UsbInv, UsbSemAccounting, Writing
<1>2. InFlight("hid0") \in {0, 1} /\ InFlight("hid1") \in {0, 1}
  BY Units
<1>3. InFlight("hid1") = 0
  BY <1>1, <1>2 DEF UsbUnits
<1> QED BY <1>3 DEF InFlight

\* A report without a key of the string.
LEMMA NoKeyWritten ==
  ASSUME TInv, WriteReport, cur # Stream
  PROVE  Shown' = Shown /\ KeyDown'
<1>1. /\ UNCHANGED <<evtVars, typed, host>> /\ at = "write" /\ mainAt = "handle" /\ plugged
      /\ cur \notin TextOnly /\ cur \in Event /\ rep = FixedReport(cur)
      /\ ep' = [ep EXCEPT ![EndpointOf(cur)] = rep] /\ DOMAIN ep = Endpoint
  BY DEF WriteReport, Handling, MainAt, InHandler, TInv, KInv, Keys, PlaceInv, IInv, TypeOK,
         MainShape, AtShape, Present, UsbInv, Stream
<1>2. KeyDown'
  BY <1>1 DEF KeyDown, TInv, Typist
<1>3. CASE EndpointOf(cur) = "hid1"
  <2>1. cur \in {KeyClear, "GPIO_BUTTON_3"}
    BY <1>1, <1>3 DEF EndpointOf, Event, Buttons, CdcLine, Moves, Hid, TextOnly, MouseEvt, Stream,
                      KeyClear
  <2>2. rep.key \in {"zero", "caps"}
    BY <1>1, <2>1 DEF FixedReport, ClearEvt, MouseEvt, Moves, KeyClear, Zero, Caps
  <2>3. ep'["hid1"] = rep
    BY <1>1, <1>3, Units
  <2>4. ~Pressing /\ ~Pressing'
    BY <1>1, <2>2, <2>3, EndpointsEmpty DEF Pressing, TInv, KInv
  <2> QED BY <1>1, <1>2, <2>4 DEF Shown
<1>4. CASE EndpointOf(cur) # "hid1"
  <2>1. ep'["hid1"] = ep["hid1"]
    BY <1>1, <1>4, Units DEF EndpointOf
  <2> QED BY <1>1, <1>2, <2>1 DEF Shown, Pressing
<1> QED BY <1>3, <1>4

\* The report with the key of the character at str_pointer.
LEMMA KeyWritten ==
  ASSUME Steady, TInv, WriteReport, cur = Stream
  PROVE  /\ Handled(Stream) /\ at = "write" /\ at' = "count" /\ KeyDown'
         /\ Shown' = Upto(ptr + 1) /\ ptr < N /\ ptr + 1 \in 0 .. N /\ Going
<1>1. /\ UNCHANGED <<evtVars, typed, host>> /\ at = "write" /\ mainAt = "handle" /\ plugged
      /\ at' = "count"
      /\ ep' = [ep EXCEPT !["hid1"] = rep] /\ DOMAIN ep = Endpoint
  BY DEF WriteReport, Handling, MainAt, InHandler, TInv, KInv, Present, UsbInv, Stream,
         EndpointOf, MouseEvt, Moves, ClearEvt
<1>2. Handled(Stream)
  BY <1>1 DEF Handled
<1>3. /\ ptr \in 0 .. N /\ ptr + 1 \in 0 .. N /\ ptr < N /\ Shown = Upto(ptr) /\ Going
      /\ Upto(ptr + 1) = Upto(ptr) \o Stroke(Saved[ptr])
  BY <1>1, <1>2, AtPtr
<1>4. Saved[ptr] \in DOMAIN KeyOf /\ rep = KeyReport(KeyOf[Saved[ptr]], Saved[ptr] \in Shifted)
  BY <1>1, <1>2, Zenon DEF TInv, Typist, Building
<1>5. Stroke(Saved[ptr]) = <<rep>>
  BY <1>4, Zenon DEF Stroke
<1>6. Upto(ptr) \in Seq(Report) /\ rep \in Report /\ rep.key \notin {"empty", "zero", "caps"}
  <2>1. rep.key = KeyOf[Saved[ptr]]
    BY <1>1, <1>2, Zenon DEF TInv, Typist, Building
  <2>2. KeyOf[Saved[ptr]] \notin {"empty", "zero", "active", "caps"}
    BY <1>4, CharAssumption
  <2>3. rep \in Report
    BY DEF TInv, KInv, UsbInv, Built
  <2>4. Upto(ptr) \in Seq(Report)
    BY <1>3, UptoTyped DEF Steady
  <2> QED BY <2>1, <2>2, <2>3, <2>4
<1>7. Shown = typed
  BY <1>1, EndpointsEmpty DEF Shown, Pressing, TInv, KInv
<1>8. ep'["hid1"] = rep /\ rep # NoReport
  BY <1>1, <1>6, Units DEF NoReport
<1>9. Shown' = Append(typed, rep)
  BY <1>1, <1>6, <1>8 DEF Shown, Pressing
<1>10. Upto(ptr) \o <<rep>> = Append(Upto(ptr), rep)
  BY <1>6
<1>11. KeyDown'
  BY <1>1 DEF KeyDown, TInv, Typist
<1> QED BY <1>1, <1>2, <1>3, <1>5, <1>7, <1>9, <1>10, <1>11

LEMMA WriteTypes ==
  ASSUME Steady, TInv, WriteReport
  PROVE  Typist'
<1>1. /\ UNCHANGED <<evtVars, wanted, ptr, left>> /\ mainAt = "handle" /\ at = "write"
      /\ at' # "count" => cur # Stream
      /\ at' \in {"decide", "count", "text"}
  BY DEF WriteReport, Handling, MainAt, InHandler, Stream, ClearEvt
<1>2. Building'
  BY <1>1 DEF Building
<1>3. CASE cur # Stream
  <2>1. Shown' = Shown /\ KeyDown'
    BY <1>3, NoKeyWritten
  <2>2. ~Handled(Stream) /\ ~Handled(Stream)'
    BY <1>1, <1>3, EventsSame DEF Handled
  <2>3. Done' = Done
    BY <1>1, <2>2 DEF Done
  <2>4. (Idle \/ Going)'
    BY <1>1, <2>1, <2>3, SameHandler
  <2> QED BY <1>2, <2>1, <2>4 DEF Typist
<1>4. CASE cur = Stream
  <2>1. /\ Handled(Stream) /\ at' = "count" /\ KeyDown' /\ Shown' = Upto(ptr + 1)
        /\ ptr < N /\ ptr + 1 \in 0 .. N /\ Going
    BY <1>4, KeyWritten
  <2>2. /\ \A f : (Waiting(f)' <=> Waiting(f)) /\ (Handled(f)' <=> Handled(f))
        /\ Streaming' /\ Up' /\ AsksLeft' = AsksLeft
    BY <1>1, <2>1, EventsSame DEF evtVars, Up, AsksLeft, Streaming
  <2>3. Done' = ptr + 1
    BY <1>1, <2>1, <2>2 DEF Done
  <2>4. /\ AsksLeft' = 0 /\ ~Waiting(Ask)' /\ ~Handled(Ask)' /\ wanted' = All /\ ptr' < N
    BY <1>1, <2>1, <2>2, Fixed DEF Going
  <2>5. Going'
    BY <2>1, <2>2, <2>3, <2>4, Fixed DEF Going
  <2> QED BY <1>2, <2>1, <2>5 DEF Typist
<1> QED BY <1>3, <1>4

LEMMA CountTypes ==
  ASSUME Steady, TInv, Count
  PROVE  Typist'
<1>1. /\ UNCHANGED <<evtVars, typed, ep, host, wanted, left>> /\ mainAt = "handle"
      /\ at = "count" /\ cur = Stream /\ ptr' = ptr + 1
      /\ at' = IF Strlen(string) > ptr + 1 THEN "decide" ELSE "equal"
  BY DEF Count, Handling, MainAt, InHandler, usbVars, TInv, KInv, AtShape, Stream
<1>2. /\ Handled(Stream) /\ Handled(Stream)'
      /\ \A f : (Waiting(f)' <=> Waiting(f)) /\ (Handled(f)' <=> Handled(f))
  BY <1>1, EventsSame DEF Handled
<1>3. Going /\ Strlen(string) = N /\ N \in Nat /\ ptr \in Nat
  BY <1>2, TypingFacts
<1>4. Shown' = Shown /\ KeyDown'
  BY <1>1, SameReports
<1>5. Building'
  BY <1>1 DEF Building
<1>6. ptr < N
  <2>1. ~AtTheEnd /\ Streaming
    BY <1>1, <1>2 DEF AtTheEnd, Streaming
  <2> QED BY <1>3, <2>1 DEF Going
<1>7. Done = ptr + 1 /\ Done' = ptr + 1
  BY <1>1, <1>2 DEF Done
<1>8. ptr' < N \/ (at' = "equal" /\ ptr' = N)
  BY <1>1, <1>3, <1>6
<1>9. ptr' < N \/ AtTheEnd'
  BY <1>2, <1>8, Fixed DEF AtTheEnd
<1>10. Streaming' /\ Up' /\ AsksLeft' = AsksLeft
  BY <1>1, <1>2 DEF evtVars, Up, AsksLeft, Streaming
<1>11. /\ AsksLeft' = 0 /\ ~Waiting(Ask)' /\ ~Handled(Ask)' /\ wanted' = All
       /\ Done' \in 0 .. N /\ Shown' = Upto(Done')
  BY <1>1, <1>2, <1>3, <1>4, <1>7, <1>10 DEF Going
<1>12. Going'
  BY <1>9, <1>10, <1>11, Fixed DEF Going
<1> QED BY <1>4, <1>5, <1>12 DEF Typist

\* The press of button 2 is carried out: the string starts.
LEMMA AskRaises ==
  ASSUME Steady, TInv, RaiseNext(Stream), cur = Ask
  PROVE  Going'
<1>1. /\ UNCHANGED <<typed, ep, host, left>> /\ mainAt = "handle" /\ mainAt' = "raise"
      /\ at = "decide" /\ Strlen(string) > 0 /\ Alloc("main", Stream) /\ "main" \in Context
      /\ ptr' = 0 /\ wanted' = wanted \o Strokes(Text(string))
  BY DEF RaiseNext, Raises, Handling, FollowUp, MainAt, usbVars, Context, Ask, Stream
<1>2. Handled(Ask)
  BY <1>1 DEF Handled
<1>3. Idle /\ AsksLeft = 0 /\ ~Waiting(Ask)
  BY <1>2, TypingFacts, OnlyOne DEF TInv, KInv, Tokens
<1>4. wanted' = All
  <2>1. string = Saved
    BY <1>1, TextFacts DEF HasText, TInv, KInv, Keys, Steady
  <2>2. wanted' = <<>> \o All
    BY <1>1, <1>3, <2>1, TextOfSaved DEF Idle, All, Steady
  <2>3. All \in Seq(Report)
    BY LineFacts, UptoPrefix DEF Steady
  <2> QED BY <2>2, <2>3
<1>5. /\ Doomed => Doomed'
      /\ \A g : Waiting(g)' => Waiting(g) \/ g = Stream
      /\ Waiting(Stream)' \/ Doomed'
  BY <1>1, AllocMoves, EventsDiffer DEF TInv, KInv
<1>6. ~Waiting(Ask)' /\ (\A g : ~Handled(g)') /\ Up' /\ AsksLeft' = 0
  BY <1>1, <1>3, <1>5, EventsDiffer DEF Handled, Up, AsksLeft
<1>7. Shown' = <<>>
  BY <1>1, <1>3, SameReports DEF Idle
<1>8. Done' = 0
  BY <1>1, <1>6 DEF Done
<1>9. N \in Nat /\ N > 0 /\ Upto(0) = <<>>
  BY <1>1, TextFacts, LineFacts, UptoSteps DEF HasText, TInv, KInv, Keys, Steady
<1>10. 0 \in 0 .. N /\ ptr' < N
  BY <1>1, <1>9
<1> QED BY <1>4, <1>5, <1>6, <1>7, <1>8, <1>9, <1>10, Fixed DEF Going, Streaming

\* The string goes on, or it is over and its last key is released.
LEMMA StreamRaises ==
  ASSUME Steady, TInv, NEW f \in Hid, RaiseNext(f), cur = Stream
  PROVE  Going'
<1>1. /\ UNCHANGED <<typed, ep, host, wanted, left, ptr>> /\ mainAt = "handle"
      /\ mainAt' = "raise" /\ Alloc("main", f) /\ "main" \in Context /\ f \in Event
      /\ \/ f = Stream /\ at = "decide"
         \/ f = KeyClear /\ at = "equal" /\ Strlen(string) = ptr
  BY EventFacts
     DEF RaiseNext, Raises, AtEnd, Handling, FollowUp, MainAt, usbVars, Context, Stream, KeyClear,
         Hid, MouseEvt, Moves
<1>2. Handled(Stream)
  BY <1>1 DEF Handled
<1>3. Going /\ Strlen(string) = N /\ ptr \in Nat /\ N \in Nat
  BY <1>2, TypingFacts
<1>4. Done = ptr
  BY <1>1 DEF Done
<1>5. /\ Doomed => Doomed'
      /\ \A g : Waiting(g)' => Waiting(g) \/ g = f
      /\ Waiting(f)' \/ Doomed'
  BY <1>1, AllocMoves DEF TInv, KInv
<1>6. ~Waiting(Stream) /\ ~Waiting(Ask) /\ AsksLeft = 0
  BY <1>2, OnlyOne DEF TInv, KInv, Tokens
<1>7. ~Waiting(Ask)' /\ (\A g : ~Handled(g)') /\ Up' /\ AsksLeft' = 0
  BY <1>1, <1>5, <1>6, EventsDiffer DEF Handled, Up, AsksLeft
<1>8. Shown' = Shown
  BY <1>1, SameReports
<1>9. Done' = ptr
  BY <1>1, <1>7 DEF Done
<1>10. /\ Streaming' => ptr < N
       /\ Streaming' \/ Doomed' \/ ptr = N
  <2>1. CASE f = Stream
    <3>1. ptr < N
      BY <1>1, <1>2, <2>1, EventsDiffer DEF TInv, KInv, Keys, PlaceInv
    <3> QED BY <1>5, <2>1, <3>1 DEF Streaming
  <2>2. CASE f = KeyClear
    <3>1. ptr = N
      BY <1>1, <1>3, <2>2, EventsDiffer
    <3>2. ~Streaming'
      BY <1>5, <1>6, <1>7, <2>2, EventsDiffer DEF Streaming
    <3> QED BY <3>1, <3>2
  <2> QED BY <1>1, <2>1, <2>2
<1>11. wanted' = All /\ ptr \in 0 .. N /\ Shown' = Upto(ptr)
  BY <1>1, <1>3, <1>4, <1>8 DEF Going
<1> QED BY <1>1, <1>7, <1>9, <1>10, <1>11, Fixed DEF Going

LEMMA RaiseNextTypes ==
  ASSUME Steady, TInv, NEW f \in Hid, RaiseNext(f)
  PROVE  Typist'
<1>1. /\ UNCHANGED <<typed, ep, host, left>> /\ at' = "start" /\ mainAt = "handle"
      /\ mainAt' = "raise" /\ Alloc("main", f) /\ "main" \in Context /\ f \in Event
      /\ at \in {"decide", "equal"}
  BY EventFacts
     DEF RaiseNext, Raises, AtEnd, Handling, FollowUp, MainAt, usbVars, Context, Hid
<1>2. KeyDown' /\ Shown' = Shown /\ Building'
  BY <1>1, SameReports DEF Building
<1>3. CASE cur = Ask
  <2>1. f = Stream
    BY <1>3 DEF RaiseNext, Raises, AtEnd, Handling, Hid, Ask, Stream, MouseEvt, Moves, TInv, KInv, Keys,
                PlaceInv, AtShape
  <2> QED BY <1>2, <1>3, <2>1, AskRaises DEF Typist
<1>4. CASE cur = Stream
  BY <1>2, <1>4, StreamRaises DEF Typist
<1>5. CASE cur # Ask /\ cur # Stream
  <2>1. UNCHANGED <<wanted, ptr>> /\ f # Stream
    BY <1>5 DEF RaiseNext, Raises, Ask, Stream
  <2>2. /\ Doomed => Doomed'
        /\ \A g : Waiting(g) => Waiting(g)'
        /\ \A g : Waiting(g)' => Waiting(g) \/ g = f
    BY <1>1, AllocMoves DEF TInv, KInv
  <2>3. /\ \A g : ~Handled(g)'
        /\ ~Handled(Stream) /\ ~Handled(Ask) /\ Up' /\ AsksLeft' = AsksLeft /\ f # Ask
    BY <1>1, <1>5 DEF Handled, Up, AsksLeft, Hid, Ask
  <2>4. (Streaming' <=> Streaming) /\ ~AtTheEnd /\ Done' = Done
    BY <2>1, <2>2, <2>3 DEF Streaming, AtTheEnd, Done
  <2>5. Going => ~Waiting(Ask)' /\ ~Handled(Ask)'
    BY <2>2, <2>3 DEF Going
  <2>6. (Idle \/ Going)'
    BY <1>2, <2>1, <2>2, <2>3, <2>4, <2>5, SamePlace
  <2> QED BY <1>2, <2>6 DEF Typist
<1> QED BY <1>3, <1>4, <1>5

LEMMA RaiseNoneTypes ==
  ASSUME Steady, TInv, RaiseNone
  PROVE  Typist'
<1>1. /\ UNCHANGED <<fifo, step, new, cur, typed, ep, host, wanted, ptr, left>> /\ at' = "start"
      /\ mainAt = "handle" /\ mainAt' = "free" /\ at \in {"decide", "equal"}
      /\ MainAt("handle") /\ ~Raises(Stream) /\ ~Raises(KeyClear)
  BY DEF RaiseNone, HandlerEnds, Handling, MainAt, usbVars, strVars, Hid, Stream, KeyClear
<1>2. /\ Doomed' <=> Doomed
      /\ \A g : (Waiting(g)' <=> Waiting(g)) /\ ~Handled(g)'
  BY <1>1 DEF Doomed, Waiting, InFifo, InHand, Handled
<1>3. KeyDown' /\ Shown' = Shown /\ Building' /\ Up' /\ AsksLeft' = AsksLeft
  BY <1>1, SameReports DEF Building, Up, AsksLeft
<1>4. ~Handled(Stream)
  <2>1. SUFFICES ASSUME Handled(Stream) PROVE FALSE
    OBVIOUS
  <2>2. Going /\ Strlen(string) = N /\ Streaming /\ ptr \in Nat /\ N \in Nat
    BY <2>1, TypingFacts DEF Streaming
  <2>3. at = "equal"
    BY <1>1, <2>1 DEF Raises, Handling, Handled, Stream
  <2>4. ptr = N
    BY <2>1, <2>2, <2>3 DEF Going, AtTheEnd, TInv, KInv, Keys, PlaceInv
  <2> QED BY <1>1, <2>2, <2>3, <2>4 DEF Raises, AtEnd, Handling, KeyClear
<1>5. (Streaming' <=> Streaming) /\ ~AtTheEnd /\ Done' = Done
  BY <1>1, <1>2, <1>4 DEF Streaming, AtTheEnd, Done
<1>6. Going => ~Waiting(Ask)' /\ ~Handled(Ask)'
  BY <1>2 DEF Going
<1>7. (Idle \/ Going)'
  BY <1>1, <1>2, <1>3, <1>5, <1>6, SamePlace
<1> QED BY <1>3, <1>7 DEF Typist

LEMMA NextTypes == Steady /\ TInv /\ [Next]_vars => Typist'
<1> SUFFICES ASSUME Steady, TInv, [Next]_vars PROVE Typist'
  OBVIOUS
<1>1. CASE Handler
  BY <1>1, ReadKeyTypes, ReadShiftTypes, TakeUsbTypes, WriteTypes, CountTypes, RaiseNextTypes,
     RaiseNoneTypes DEF Handler
<1>2. ASSUME NEW e \in Stimuli, Stimulus(e) PROVE Typist'
  BY <1>2, StimulusTypes
<1>3. ASSUME NEW h \in Endpoint, HostPolls(h) PROVE Typist'
  BY <1>3, HostTypes
<1>4. ~Unplug /\ ~Replug
  BY DEF Unplug, Replug, TInv, Present
<1>5. CASE \/ \E c \in Context : Plumbing(RaiseStep(c))
           \/ Plumbing(Boot) \/ Plumbing(TakeEvt) \/ Plumbing(Get) \/ Plumbing(Free)
  BY <1>5, PlumbingTypes DEF Plumbing
<1>6. CASE UNCHANGED vars
  <2>1. UNCHANGED <<evtVars, typed, ep, host, wanted, ptr, at, rep, left>>
    BY <1>6 DEF vars, appVars, usbVars, strVars
  <2>2. /\ Doomed' <=> Doomed
        /\ \A f : (Waiting(f)' <=> Waiting(f)) /\ (Handled(f)' <=> Handled(f))
        /\ Streaming' <=> Streaming
        /\ mainAt' = mainAt
    BY <2>1, EventsSame DEF evtVars
  <2>3. (AtTheEnd' <=> AtTheEnd) /\ Done' = Done /\ (Up' <=> Up) /\ AsksLeft' = AsksLeft
    BY <2>1, <2>2, Fixed DEF AtTheEnd, Done, Up, AsksLeft
  <2>4. (Going => ~Waiting(Ask)' /\ ~Handled(Ask)') /\ (Streaming => Up)
    BY <2>2 DEF Going, TInv, Typist, Idle
  <2>5. (Idle \/ Going)' /\ KeyDown'
    BY <2>1, <2>2, <2>3, <2>4, SameReports, SamePlace
  <2>6. Building'
    BY <2>1, <2>2, Fixed DEF Building, TInv, Typist
  <2> QED BY <2>5, <2>6 DEF Typist
<1> QED BY <1>1, <1>2, <1>3, <1>4, <1>5, <1>6 DEF Next

LEMMA NextPresent == TInv /\ [Next]_vars => Present'
<1> SUFFICES ASSUME TInv, [Next]_vars PROVE Present'
  OBVIOUS
<1> USE DEF TInv, Present
<1>1. ASSUME NEW e \in Stimuli, Stimulus(e) PROVE Present'
  BY <1>1, UnplugIsNoStimulus DEF Stimulus, usbVars, KInv, AppTypeOK
<1>2. CASE Unplug \/ Replug
  BY <1>2 DEF Unplug, Replug
<1>3. CASE UNCHANGED <<plugged, left>>
  BY <1>3
<1>4. CASE \/ (\E h \in Endpoint : HostPolls(h)) \/ ReadKey \/ ReadShift \/ TakeUsb
           \/ WriteReport \/ WriteText \/ Count \/ (\E f \in Hid : RaiseNext(f)) \/ RaiseNone
  BY <1>3, <1>4
     DEF HostPolls, ReadKey, ReadShift, TakeUsb, WriteReport, WriteText, Count, RaiseNext,
         RaiseNone, usbVars
<1>5. CASE \/ (\E c \in Context : Plumbing(RaiseStep(c)))
           \/ Plumbing(Boot) \/ Plumbing(TakeEvt) \/ Plumbing(Get) \/ Plumbing(Free)
           \/ UNCHANGED vars
  BY <1>3, <1>5 DEF Plumbing, vars, appVars, usbVars
<1> QED BY <1>1, <1>2, <1>4, <1>5 DEF Next, Handler

LEMMA InitTInv == Steady /\ Init => TInv
<1> SUFFICES ASSUME Steady, Init PROVE TInv
  OBVIOUS
<1>1. KInv
  BY InitKeys, InitIInv, InitUsbInv, InitAppTyped, InitShape DEF KInv, Init, Steady
<1>2. /\ fifo = <<>> /\ (\A c \in Context : step[c] = "none") /\ mainAt = "init"
      /\ ep["hid1"] = NoReport /\ host["hid1"] = Zero /\ typed = <<>> /\ wanted = <<>>
      /\ at = "start" /\ plugged = TRUE /\ left["unplug"] = 0
      /\ Ask \in Stimuli => left[Ask] = Presses[Ask]
  BY Units, UnplugIsNoStimulus DEF Init, EvtInit, Steady
<1>3. Total <= 1
  <2>1. FifoTokens(Tokens) = 0
    <3>1. Among(fifo, Tokens) = {}
      BY <1>2 DEF Among
    <3> QED BY <3>1, FS_EmptySet DEF FifoTokens
  <2>2. HandTokens(Tokens) = 0 /\ CurToken = 0
    BY <1>2 DEF HandTokens, HandToken, CurToken, Context
  <2>3. AsksLeft \in Nat /\ AsksLeft <= 1
    BY <1>2, CharAssumption DEF AsksLeft, Steady, Once
  <2> QED BY <2>1, <2>2, <2>3 DEF Total, WaitingTokens
<1>4. ~Streaming
  BY <1>2 DEF Streaming, Waiting, InFifo, InHand, Handled
<1>5. Idle /\ Building /\ KeyDown /\ Present
  BY <1>2, <1>4 DEF Idle, Shown, Pressing, Building, KeyDown, Present, Zero
<1> QED BY <1>1, <1>3, <1>5 DEF TInv, Typist

LEMMA TypedSoFar ==
  ASSUME Steady, TInv
  PROVE  TypedBack /\ ((wanted = <<>> /\ typed = <<>>) \/ wanted = All)
<1>1. typed \in Seq(Report) /\ ep["hid1"] \in Report /\ ptr \in Nat /\ N \in Nat
  BY TypingFacts
<1>2. /\ Len(typed) \in Nat /\ Len(Shown) \in Nat /\ Len(typed) <= Len(Shown)
      /\ DOMAIN typed = 1 .. Len(typed)
      /\ \A i \in 1 .. Len(typed) : Shown[i] = typed[i]
      /\ Pressing => Shown # <<>>
  <2>1. CASE Pressing
    BY <1>1, <2>1, AppendProperties DEF Shown
  <2>2. CASE ~Pressing
    BY <1>1, <2>2 DEF Shown
  <2> QED BY <2>1, <2>2
<1>3. CASE Idle
  <2>1. wanted = <<>> /\ typed = <<>>
    BY <1>2, <1>3 DEF Idle, Shown
  <2> QED BY <2>1 DEF TypedBack
<1>4. CASE Going
  <2>1. Done \in 0 .. N /\ Shown = Upto(Done) /\ wanted = All
    BY <1>4 DEF Going
  <2>2. /\ Len(All) \in Nat /\ Len(Shown) <= Len(All)
        /\ \A i \in 1 .. Len(Shown) : Shown[i] = All[i]
    BY <2>1, UptoPrefix DEF Steady
  <2>3. Len(typed) <= Len(wanted) /\ \A i \in DOMAIN typed : typed[i] = wanted[i]
    BY <1>2, <2>1, <2>2
  <2>4. ASSUME Quiet PROVE Len(typed) = Len(wanted)
    <3>1. mainAt = "wait" /\ fifo = <<>> /\ ep["hid1"] = NoReport
      BY <2>4, Units DEF Quiet
    <3>2. ~Handled(Stream) /\ ~Up
      BY <3>1 DEF Handled, Up
    <3>3. ~InFifo(Stream)
      BY <3>1 DEF InFifo
    <3>4. ~InHand(Stream)
      <4>1. step["main"] = "none"
        BY <3>1 DEF TInv, KInv, IInv, MainShape
      <4> QED BY <4>1 DEF InHand, TInv, KInv, Keys, StreamInv
    <3>5. ptr = N
      BY <1>4, <3>2, <3>3, <3>4 DEF Going, Streaming, Waiting
    <3>6. Shown = typed /\ Done = N
      BY <3>1, <3>2, <3>5 DEF Shown, Pressing, Done
    <3> QED BY <2>1, <3>6, UptoSteps DEF Steady
  <2> QED BY <2>1, <2>3, <2>4 DEF TypedBack
<1> QED BY <1>3, <1>4 DEF TInv, Typist

LEMMA LineKept == Steady => (Spec => []TInv)
<1> SUFFICES ASSUME Steady PROVE Spec => []TInv
  OBVIOUS
<1>1. Init => TInv
  BY InitTInv
<1>2. TInv /\ [Next]_vars => TInv'
  <2> SUFFICES ASSUME TInv, [Next]_vars PROVE TInv'
    OBVIOUS
  <2>1. KInv'
    BY NextIInv, StepsOfEvents, NextUsbInv, NextHost, NextAtShape, NextTyped, NextKeys
       DEF KInv, TInv, Steady
  <2>2. (Total <= 1)'
    <3>1. Total' <= Total /\ Total <= 1
      BY <2>1, TotalShrinks DEF TInv, KInv
    <3>2. Total \in Nat
      BY TotalNumbers DEF TInv, KInv
    <3>3. Total' \in Nat
      BY <2>1, TotalShrinks DEF TInv, KInv
    <3> QED BY <3>1, <3>2, <3>3, AtMostOne, Zenon
  <2> QED BY <2>1, <2>2, NextTypes, NextPresent DEF TInv
<1> QED BY <1>1, <1>2, PTL DEF Spec

(***************************************************************************)
(* One press of button 2 types the line that the host sends, however often *)
(* it sends it and whatever other events there are: every key and no other *)
(* in the order of the line, and all of them when the device is at rest.   *)
(* No two keys in a row may be the same (a finding), and the host stays.   *)
(***************************************************************************)
THEOREM LineIsTyped == Steady => (Spec => []TypedBack)
<1> SUFFICES ASSUME Steady PROVE Spec => []TypedBack
  OBVIOUS
<1>1. Spec => []TInv
  BY LineKept
<1>2. TInv => TypedBack
  BY TypedSoFar
<1> QED BY <1>1, <1>2, PTL

-----------------------------------------------------------------------------
(***************************************************************************)
(* str_pointer, for any lines and any number of presses.  Every press of   *)
(* button 2 sets another HID_KBD_STRING going, all of them move the one    *)
(* str_pointer, and each looks at the end of the string only after it has  *)
(* moved it: the last of n may read n - 1 places behind the place that     *)
(* stopped the first.                                                      *)
(***************************************************************************)

\* strcpy never takes the last terminator away.
HasNul == \E i \in 0 .. Size - 1 : string[i] = Nul

StrInv == IInv /\ UsbInv /\ AtShape /\ AppTypeOK /\ HasNul

PtrInv(n) == ptr + Streams + 2 <= Size + n

LEMMA StrlenInside ==
  ASSUME AppTypeOK, HasNul
  PROVE  Strlen(string) \in 0 .. Size - 1
<1> DEFINE T == {i \in 0 .. Size - 1 : string[i] = Nul}
<1>1. DOMAIN string = 0 .. Size - 1
  BY DEF AppTypeOK
<1>2. T \in SUBSET Nat /\ T # {}
  BY DEF HasNul
<1>3. PICK m \in T : \A i \in T : m <= i
  <2> HIDE DEF T
  <2> QED BY <1>2, LeastNatural
<1>4. \A i \in 0 .. m - 1 : i \in 0 .. Size - 1 /\ ~ (m <= i)
  <2>1. m \in 0 .. Size - 1 /\ Size \in Nat
    BY CharAssumption
  <2> HIDE DEF T
  <2> QED BY <2>1
<1>5. m \in DOMAIN string /\ string[m] = Nul /\ \A i \in 0 .. m - 1 : string[i] # Nul
  BY <1>1, <1>3, <1>4
<1> QED BY <1>1, <1>5, Zenon DEF Strlen

LEMMA NextHasNul == AppTypeOK /\ HasNul /\ [Next]_vars => HasNul'
<1> SUFFICES ASSUME AppTypeOK, HasNul, [Next]_vars PROVE HasNul'
  OBVIOUS
<1>1. ASSUME NEW l \in Lines, string' = Strcpy(string, l) PROVE HasNul'
  <2>1. DOMAIN string = 0 .. Size - 1 /\ Len(l) \in Nat /\ Len(l) < Size /\ Size \in Nat
    BY CharAssumption DEF AppTypeOK
  <2>2. Len(l) \in 0 .. Size - 1 /\ ~ (Len(l) < Len(l))
    BY <2>1
  <2>3. string'[Len(l)] = Nul
    BY <1>1, <2>1, <2>2 DEF Strcpy
  <2> QED BY <2>2, <2>3 DEF HasNul
<1>2. ASSUME UNCHANGED string PROVE HasNul'
  BY <1>2 DEF HasNul
<1>3. ASSUME NEW e \in Stimuli, Stimulus(e) PROVE HasNul'
  BY <1>1, <1>2, <1>3, Zenon DEF Stimulus
<1>4. CASE Handler
  BY <1>2, <1>4 DEF Handler, ReadKey, ReadShift, TakeUsb, WriteReport, WriteText, Count,
                    RaiseNext, RaiseNone, strVars
<1>5. ASSUME NEW h \in Endpoint, HostPolls(h) PROVE HasNul'
  BY <1>2, <1>5 DEF HostPolls, strVars
<1>6. CASE Unplug \/ Replug
  BY <1>2, <1>6 DEF Unplug, Replug, strVars
<1>7. CASE UNCHANGED appVars
  BY <1>2, <1>7 DEF appVars, strVars
<1> QED BY <1>3, <1>4, <1>5, <1>6, <1>7, Zenon DEF Next, Plumbing, vars

LEMMA NextStrInv == StrInv /\ [Next]_vars => StrInv'
BY NextIInv, StepsOfEvents, NextUsbInv, NextAtShape, NextTyped, NextHasNul DEF StrInv

LEMMA InitStrInv == Init => StrInv
<1>1. Init => HasNul
  BY CharAssumption DEF Init, HasNul
<1> QED BY <1>1, InitIInv, InitUsbInv, InitAppTyped, InitShape DEF StrInv, Init

LEMMA StreamNumbers ==
  ASSUME StrInv
  PROVE  /\ WaitingTokens({Stream}) \in Nat /\ Pending \in {0, 1} /\ Streams \in Nat
         /\ Streams = WaitingTokens({Stream}) + Pending
<1>1. WaitingTokens({Stream}) \in Nat
  BY TokenNumbers DEF StrInv
<1>2. Pending \in {0, 1}
  BY DEF Pending
<1> QED BY <1>1, <1>2 DEF Streams

\* Each of them has a block of the pool.
LEMMA StreamsInPool ==
  ASSUME StrInv
  PROVE  Streams <= Blocks
<1> DEFINE T == {Stream}
<1>1. /\ fifo \in Seq(Event) /\ used \in Nat /\ used <= Blocks /\ leaked \in Nat
      /\ Blocks \in Nat /\ Held \in Nat
      /\ used = Len(fifo) + Held + (IF cur = NoEvent THEN 0 ELSE 1) + leaked
  BY Counts, BlocksAssumption DEF StrInv, IInv, TypeOK, PoolAccounting
<1>2. FifoTokens(T) \in Nat /\ FifoTokens(T) <= Len(fifo)
  <2>1. IsFiniteSet(1 .. Len(fifo)) /\ Cardinality(1 .. Len(fifo)) = Len(fifo)
    <3>1. Len(fifo) \in Nat /\ 1 \in Int /\ Len(fifo) \in Int
      BY <1>1
    <3> QED BY <3>1, FS_Interval
  <2>2. Among(fifo, T) \subseteq 1 .. Len(fifo)
    BY <1>1 DEF Among
  <2>3. Cardinality(Among(fifo, T)) <= Len(fifo)
    BY <2>1, <2>2, FS_Subset
  <2> QED BY <2>3, TokenNumbers DEF FifoTokens, StrInv
<1>3. HandTokens(T) <= Held /\ HandTokens(T) \in Nat
  <2>1. ASSUME NEW c \in Context
        PROVE  HandToken(T, c) \in Nat /\ Holds(c) \in Nat /\ HandToken(T, c) <= Holds(c)
    BY DEF HandToken, Holds, Holding
  <2> QED BY <2>1 DEF HandTokens, Held, Context
<1>4. Pending <= (IF cur = NoEvent THEN 0 ELSE 1) /\ Pending \in {0, 1}
  BY DEF Pending, Handled, Stream, NoEvent
<1>5. Streams = FifoTokens(T) + HandTokens(T) + Pending
  BY DEF Streams, WaitingTokens
<1> HIDE DEF T
<1> QED BY <1>1, <1>2, <1>3, <1>4, <1>5

\* What a step does to the sum of str_pointer and Streams.
LEMMA StreamSums ==
  ASSUME NEW w \in Nat, NEW p \in Nat, NEW w1 \in Nat, NEW p1 \in Nat, NEW o \in Nat
  PROVE  /\ w1 <= w /\ p1 <= p => w1 + p1 <= w + p
         /\ w1 <= w + o /\ o + p1 <= p => w1 + p1 <= w + p
         /\ w1 + p1 <= w => w1 + p1 <= w + p
OBVIOUS

LEMMA StreamStep ==
  ASSUME Size > 1, StrInv, StrInv', [Next]_vars
  PROVE  \/ ptr' = ptr /\ Streams' <= Streams
         \/ ptr' + 2 <= Size
         \/ ptr' = ptr + 1 /\ Streams' + 1 = Streams
<1> DEFINE T    == {Stream}
           Fewer == Streams' <= Streams
           Goal == \/ ptr' = ptr /\ Fewer
                   \/ ptr' + 2 <= Size
                   \/ ptr' = ptr + 1 /\ Streams' + 1 = Streams
<1>1. /\ WaitingTokens(T) \in Nat /\ Pending \in Nat /\ Streams = WaitingTokens(T) + Pending
      /\ Pending \in {0, 1}
  BY StreamNumbers
<1>2. Streams' = WaitingTokens(T)' + Pending' /\ Pending' \in Nat /\ Pending' \in {0, 1}
  BY DEF Streams, Pending
<1>3. ptr \in Nat /\ Size \in Nat
  BY CharAssumption DEF StrInv, AppTypeOK
<1>4. IInv /\ AtShape
  BY DEF StrInv
<1> SUFFICES Goal
  OBVIOUS
<1> HIDE DEF Goal, T, Fewer
<1>5. ASSUME ptr' = ptr, Fewer PROVE Goal
  BY <1>5 DEF Goal
<1>6. ASSUME UNCHANGED <<fifo, step, new>>, WaitingTokens(T)' = WaitingTokens(T) => Goal
      PROVE Goal
  BY <1>6 DEF WaitingTokens, FifoTokens, HandTokens, HandToken
<1>7. ASSUME UNCHANGED <<fifo, step, new, ptr>>, Pending' <= Pending PROVE Goal
  <2>1. SUFFICES ASSUME WaitingTokens(T)' = WaitingTokens(T) PROVE Goal
    BY <1>6, <1>7
  <2>2. WaitingTokens(T)' \in Nat /\ WaitingTokens(T)' <= WaitingTokens(T)
    BY <2>1, <1>1
  <2>3. Fewer
    BY <1>1, <1>2, <1>7, <2>2, StreamSums, Zenon DEF Fewer
  <2> QED BY <1>5, <1>7, <2>3
<1>8. ASSUME UNCHANGED <<evtVars, ptr, at>> PROVE Goal
  <2>1. UNCHANGED <<fifo, step, new, ptr>> /\ Pending' = Pending
    BY <1>8 DEF evtVars, Pending, Handled
  <2> QED BY <1>1, <1>7, <2>1
<1>9. ASSUME NEW e \in Stimuli, Stimulus(e) PROVE Goal
  <2> DEFINE c == IF e \in Buttons THEN "gpio" ELSE "usbwq"
  <2>1. c \in Context /\ Alloc(c, e) /\ e \in Event /\ UNCHANGED <<mainAt, cur, ptr, at>>
    BY <1>9, EventFacts DEF Stimulus, Interrupt, Alloc, Context
  <2> HIDE DEF c
  <2>2. One(T, e) = 0
    BY <1>9, StimuliAssumption DEF One, T, Stream, Buttons, CdcLine, Moves
  <2>3. WaitingTokens(T)' \in Nat /\ WaitingTokens(T)' <= WaitingTokens(T) + 0
    BY <1>4, <2>1, <2>2, AllocTokens
  <2>4. WaitingTokens(T)' <= WaitingTokens(T)
    BY <1>1, <2>3
  <2>5. Pending' = Pending
    BY <2>1 DEF Pending, Handled
  <2>6. Pending' <= Pending
    BY <1>1, <2>5
  <2>7. Fewer
    BY <1>1, <1>2, <2>3, <2>4, <2>6, StreamSums, Zenon DEF Fewer
  <2> QED BY <1>5, <2>1, <2>7
<1>10. ASSUME NEW h \in Endpoint, HostPolls(h) PROVE Goal
  BY <1>8, <1>10 DEF HostPolls, strVars
<1>11. CASE Unplug \/ Replug
  BY <1>8, <1>11 DEF Unplug, Replug, strVars
<1>12. ASSUME NEW c \in Context, Plumbing(RaiseStep(c)) PROVE Goal
  <2>1. WaitingTokens(T)' \in Nat /\ WaitingTokens(T)' <= WaitingTokens(T)
    BY <1>4, <1>12, RaiseTokens DEF Plumbing
  <2>2. cur' = cur /\ (mainAt' = mainAt \/ (mainAt = "raise" /\ mainAt' = "free"))
    BY <1>4, <1>12, RaiseMoves DEF Plumbing
  <2>3. ptr' = ptr /\ at' = at
    BY <1>12 DEF Plumbing, appVars, strVars
  <2>4. Pending' = Pending
    BY <2>2, <2>3 DEF Pending, Handled
  <2>5. Pending' <= Pending
    BY <1>1, <2>4
  <2>6. Fewer
    BY <1>1, <1>2, <2>1, <2>5, StreamSums, Zenon DEF Fewer
  <2> QED BY <1>5, <2>3, <2>6
<1>13. CASE Plumbing(Boot) \/ Plumbing(TakeEvt) \/ Plumbing(Get) \/ Plumbing(Free)
  <2>1. (Boot \/ TakeEvt \/ Get \/ Free) /\ ptr' = ptr
    BY <1>13 DEF Plumbing, appVars, strVars
  <2>2. Pending' = 1 => mainAt' = "handle" /\ cur' \in T
    BY DEF Pending, Handled, T
  <2>3. WaitingTokens(T)' \in Nat /\ WaitingTokens(T)' + Pending' <= WaitingTokens(T)
    BY <1>2, <1>4, <2>1, <2>2, LoopTokens
  <2>4. Fewer
    BY <1>1, <1>2, <2>3, StreamSums, Zenon DEF Fewer
  <2> QED BY <1>5, <2>1, <2>4
<1>14. CASE ReadKey \/ ReadShift \/ TakeUsb \/ WriteReport \/ WriteText
  <2>1. UNCHANGED <<fifo, step, new, mainAt, cur, ptr>>
    BY <1>14 DEF ReadKey, ReadShift, TakeUsb, WriteReport, WriteText, InHandler, evtVars, strVars
  <2>2. at # "equal"
    BY <1>14 DEF ReadKey, ReadShift, TakeUsb, WriteReport, WriteText, Handling
  <2>3. Pending' <= Pending
    BY <2>1, <2>2 DEF Pending, Handled
  <2> QED BY <1>7, <2>1, <2>3
<1>15. CASE Count
  <2>1. /\ UNCHANGED <<fifo, step, new, mainAt, cur, string>> /\ ptr' = ptr + 1
        /\ mainAt = "handle" /\ at = "count"
        /\ at' = IF Strlen(string) > ptr + 1 THEN "decide" ELSE "equal"
    BY <1>15 DEF Count, InHandler, evtVars, Handling, MainAt
  <2>2. cur = Stream
    BY <1>4, <2>1 DEF AtShape, Stream
  <2>3. CASE Strlen(string) > ptr + 1
    <3>1. Strlen(string) \in Nat /\ Strlen(string) <= Size - 1
      BY <1>3, StrlenInside DEF StrInv
    <3>2. ptr' + 2 <= Size
      BY <1>3, <2>1, <2>3, <3>1
    <3> QED BY <3>2 DEF Goal
  <2>4. CASE ~(Strlen(string) > ptr + 1)
    <3>1. SUFFICES ASSUME WaitingTokens(T)' = WaitingTokens(T) PROVE Goal
      BY <1>6, <2>1
    <3>2. Pending = 1 /\ Pending' = 0
      BY <2>1, <2>2, <2>4 DEF Pending, Handled
    <3>3. Streams' = WaitingTokens(T) + 0 /\ Streams = WaitingTokens(T) + 1
      BY <1>1, <1>2, <3>1, <3>2, Zenon
    <3>4. WaitingTokens(T) \in Nat
      BY <1>1
    <3>5. Streams' + 1 = Streams
      BY <3>3, <3>4
    <3> QED BY <2>1, <3>5 DEF Goal
  <2> QED BY <2>3, <2>4
<1>16. ASSUME NEW f \in Hid, RaiseNext(f) PROVE Goal
  <2>1. /\ Alloc("main", f) /\ Raises(f) /\ f \in Event /\ "main" \in Context
        /\ mainAt = "handle" /\ mainAt' = "raise"
        /\ ptr' = IF cur = "GPIO_BUTTON_2" THEN 0 ELSE ptr
    BY <1>16, EventFacts DEF RaiseNext, FollowUp, MainAt, Context
  <2>2. CASE cur = "GPIO_BUTTON_2"
    <3>1. ptr' + 2 <= Size
      BY <1>3, <2>1, <2>2
    <3> QED BY <3>1 DEF Goal
  <2>3. CASE cur # "GPIO_BUTTON_2"
    <3>1. WaitingTokens(T)' \in Nat /\ WaitingTokens(T)' <= WaitingTokens(T) + One(T, f)
      BY <1>4, <2>1, AllocTokens
    <3>2. Pending' = 0
      BY <2>1 DEF Pending, Handled
    <3>3. One(T, f) <= Pending /\ One(T, f) \in Nat
      <4>1. CASE f = Stream
        <5>1. cur = Stream /\ at = "decide"
          BY <2>1, <2>3, <4>1 DEF Raises, Stream, Handling
        <5> QED BY <2>1, <4>1, <5>1 DEF One, T, Pending, Handled
      <4>2. CASE f # Stream
        BY <1>1, <4>2 DEF One, T
      <4> QED BY <4>1, <4>2
    <3>4. One(T, f) + Pending' <= Pending
      BY <3>2, <3>3
    <3>5. Fewer
      BY <1>1, <1>2, <3>1, <3>3, <3>4, StreamSums, Zenon DEF Fewer
    <3> QED BY <1>5, <2>1, <2>3, <3>5
  <2> QED BY <2>2, <2>3
<1>17. CASE RaiseNone
  <2>1. UNCHANGED <<fifo, step, new, ptr>> /\ mainAt' = "free"
    BY <1>17 DEF RaiseNone, HandlerEnds, strVars
  <2>2. Pending' = 0
    BY <2>1 DEF Pending, Handled
  <2> QED BY <1>1, <1>7, <2>1, <2>2
<1>18. CASE UNCHANGED vars
  BY <1>8, <1>18 DEF vars, appVars, strVars
<1> QED
  BY <1>9, <1>10, <1>11, <1>12, <1>13, <1>14, <1>15, <1>16, <1>17, <1>18, Zenon
     DEF Next, Handler

LEMMA PtrSums ==
  ASSUME NEW n \in Nat, NEW z \in Nat, NEW p \in Nat, NEW s \in Nat,
         NEW p1 \in Nat, NEW s1 \in Nat, p + s + 2 <= z + n, s1 <= n,
         \/ p1 = p /\ s1 <= s
         \/ p1 + 2 <= z
         \/ p1 = p + 1 /\ s1 + 1 = s
  PROVE  p1 + s1 + 2 <= z + n
OBVIOUS

LEMMA StreamsNext == ASSUME StrInv' PROVE Streams' \in Nat
<1>1. WaitingTokens({Stream})' \in Nat
  <2>1. FifoTokens({Stream})' \in Nat
    <3>1. fifo' \in Seq(Event) /\ Ask \in Event
      BY DEF StrInv, IInv, TypeOK, Ask, Event, Buttons
    <3> QED BY <3>1, CountAppend DEF FifoTokens
  <2>2. HandTokens({Stream})' \in Nat
    <3>1. \A c \in Context : HandToken({Stream}, c)' \in Nat
      BY DEF HandToken
    <3> QED BY <3>1, SumOfThree, Zenon DEF HandTokens, Context
  <2> QED BY <2>1, <2>2, SumOfTwo, Zenon DEF WaitingTokens
<1>2. Pending' \in Nat
  BY DEF Pending
<1> QED BY <1>1, <1>2, SumOfTwo, Zenon DEF Streams

LEMMA PtrKept ==
  ASSUME NEW n \in Nat, Size > 1
  PROVE  StrInv /\ PtrInv(n) /\ Streams <= n /\ (Streams <= n)' /\ [Next]_vars
           => StrInv' /\ PtrInv(n)'
<1> SUFFICES ASSUME StrInv, PtrInv(n), (Streams <= n)', [Next]_vars PROVE StrInv' /\ PtrInv(n)'
  OBVIOUS
<1>1. StrInv'
  BY NextStrInv
<1>2. Streams \in Nat /\ ptr \in Nat /\ ptr' \in Nat /\ Size \in Nat
  BY <1>1, StreamNumbers, CharAssumption DEF StrInv, AppTypeOK
<1>3. Streams' \in Nat
  BY <1>1, StreamsNext
<1>4. /\ Streams' <= n /\ ptr + Streams + 2 <= Size + n
      /\ \/ ptr' = ptr /\ Streams' <= Streams
         \/ ptr' + 2 <= Size
         \/ ptr' = ptr + 1 /\ Streams' + 1 = Streams
  BY <1>1, StreamStep DEF PtrInv
<1>5. ptr' + Streams' + 2 <= Size + n
  BY <1>2, <1>3, <1>4, PtrSums, Zenon
<1> QED BY <1>1, <1>5 DEF PtrInv

LEMMA PtrStarts ==
  ASSUME NEW n \in Nat, Size > 1
  PROVE  Init /\ Streams <= n => StrInv /\ PtrInv(n)
<1> SUFFICES ASSUME Init, Streams <= n PROVE StrInv /\ PtrInv(n)
  OBVIOUS
<1>1. StrInv
  BY InitStrInv
<1>2. ptr = 0 /\ Streams \in Nat /\ Size \in Nat
  BY <1>1, StreamNumbers, CharAssumption DEF Init
<1> QED BY <1>1, <1>2 DEF PtrInv

LEMMA PtrAtRead ==
  ASSUME StrInv, NEW n \in Nat, PtrInv(n), Reading
  PROVE  ptr + 3 <= Size + n
<1>1. /\ WaitingTokens({Stream}) \in Nat /\ Pending = 1 /\ ptr \in Nat /\ Size \in Nat
      /\ Streams = WaitingTokens({Stream}) + Pending
  BY StreamNumbers, CharAssumption DEF Reading, Pending, StrInv, AppTypeOK
<1> QED BY <1>1 DEF PtrInv

(***************************************************************************)
(* As long as no more than n HID_KBD_STRINGs are under way at once, main   *)
(* looks at most n - 2 places behind the buffer.                           *)
(***************************************************************************)
THEOREM PointerFollowsStreams ==
  ASSUME NEW n \in Nat, Size > 1
  PROVE  Spec /\ [](Streams <= n) => [](Reading => ptr + 3 <= Size + n)
<1>1. Init /\ Streams <= n => StrInv /\ PtrInv(n)
  BY PtrStarts
<1>2. StrInv /\ PtrInv(n) /\ Streams <= n /\ (Streams <= n)' /\ [Next]_vars
        => StrInv' /\ PtrInv(n)'
  BY PtrKept
<1>3. StrInv /\ PtrInv(n) => (Reading => ptr + 3 <= Size + n)
  BY PtrAtRead
<1> QED BY <1>1, <1>2, <1>3, PTL DEF Spec

(***************************************************************************)
(* With two of them, one more than a user who waits for the text sets      *)
(* going, main never looks behind the buffer, whatever the lines are and   *)
(* whenever they replace one another.                                      *)
(***************************************************************************)
THEOREM TwoStreamsReadInside == Size > 1 => (Spec => StringReadInside)
<1> SUFFICES ASSUME Size > 1
             PROVE  Spec => StringReadInside
  OBVIOUS
<1>1. Init /\ Streams <= 2 => StrInv /\ PtrInv(2)
  BY PtrStarts
<1>2. StrInv /\ PtrInv(2) /\ Streams <= 2 /\ (Streams <= 2)' /\ [Next]_vars
        => StrInv' /\ PtrInv(2)'
  BY PtrKept
<1>3. StrInv /\ PtrInv(2) => (Reading => ptr \in DOMAIN string)
  <2> SUFFICES ASSUME StrInv, PtrInv(2), Reading PROVE ptr \in DOMAIN string
    OBVIOUS
  <2>1. ptr + 3 <= Size + 2
    BY PtrAtRead
  <2> QED BY <2>1, CharAssumption DEF StrInv, AppTypeOK
<1> QED BY <1>1, <1>2, <1>3, PTL DEF Spec, StringReadInside

(***************************************************************************)
(* However often button 2 is pressed, the pool bounds how far str_pointer  *)
(* runs behind the buffer: each HID_KBD_STRING holds a block.              *)
(***************************************************************************)
THEOREM PointerBounded ==
  Size > 1 => (Spec => [](Reading => ptr + 3 <= Size + Blocks))
<1> SUFFICES ASSUME Size > 1 PROVE Spec => [](Reading => ptr + 3 <= Size + Blocks)
  OBVIOUS
<1>1. Blocks \in Nat
  BY BlocksAssumption
<1>2. StrInv => Streams <= Blocks
  BY StreamsInPool
<1>3. Init => StrInv /\ PtrInv(Blocks)
  BY <1>1, <1>2, InitStrInv, PtrStarts
<1>4. StrInv /\ [Next]_vars => StrInv'
  BY NextStrInv
<1>5. StrInv /\ PtrInv(Blocks) /\ Streams <= Blocks /\ (Streams <= Blocks)' /\ [Next]_vars
        => StrInv' /\ PtrInv(Blocks)'
  BY <1>1, PtrKept
<1>6. StrInv /\ PtrInv(Blocks) => (Reading => ptr + 3 <= Size + Blocks)
  BY <1>1, PtrAtRead
<1> QED BY <1>2, <1>3, <1>4, <1>5, <1>6, PTL DEF Spec

-----------------------------------------------------------------------------
(* The key table, for all 256 bytes, one lookup at a time: the key and      *)
(* SHIFT first, then what the host makes of them.                           *)

USE DEF Digit, Space, Minus, Equal, LeftBrace, RightBrace, Backslash, Semicolon,
        Apostrophe, Grave, Comma, Dot, Slash, Delete, None

LEMMA PunctuationLow ==
  ASSUME NEW c \in 32 .. 48
  PROVE  Typed(c) = c
<1> DEFINE k == ascii_to_hid(c)
<1>1. k \in Int
  BY DEF ascii_to_hid
<1>2. CASE needs_shift(c)
  <2>1. c \in 33 .. 43 /\ c # 39
    BY <1>2 DEF needs_shift
  <2>2. /\ c = 33 => k = 30
        /\ c = 34 => k = 52
        /\ c = 35 => k = 32
        /\ c = 36 => k = 33
        /\ c = 37 => k = 34
        /\ c = 38 => k = 36
        /\ c = 40 => k = 38
        /\ c = 41 => k = 39
        /\ c = 42 => k = 37
        /\ c = 43 => k = 46
    BY SMTT(60) DEF ascii_to_hid
  <2> HIDE DEF k
  <2>3. WithShift(k) = c
    BY <1>1, <2>1, <2>2 DEF WithShift
  <2> QED BY <1>2, <2>3 DEF Typed, k
<1>3. CASE ~needs_shift(c)
  <2>1. c \in {32, 39} \union 44 .. 48
    BY <1>3 DEF needs_shift
  <2>2. /\ c = 32 => k = 44
        /\ c = 39 => k = 52
        /\ c = 44 => k = 54
        /\ c = 45 => k = 45
        /\ c = 46 => k = 55
        /\ c = 47 => k = 56
        /\ c = 48 => k = 39
    BY DEF ascii_to_hid
  <2> HIDE DEF k
  <2>3. Plain(k) = c
    BY <1>1, <2>1, <2>2 DEF Plain
  <2> QED BY <1>3, <2>3 DEF Typed, k
<1> QED BY <1>2, <1>3

LEMMA PunctuationMiddle ==
  ASSUME NEW c \in 58 .. 64
  PROVE  Typed(c) = c
<1> DEFINE k == ascii_to_hid(c)
<1>1. k \in Int
  BY DEF ascii_to_hid
<1>2. CASE needs_shift(c)
  <2>1. c \in {58, 60, 62, 63, 64}
    BY <1>2 DEF needs_shift
  <2>2. /\ c = 58 => k = 51
        /\ c = 60 => k = 54
        /\ c = 62 => k = 55
        /\ c = 63 => k = 56
        /\ c = 64 => k = 31
    BY DEF ascii_to_hid
  <2> HIDE DEF k
  <2>3. WithShift(k) = c
    BY <1>1, <2>1, <2>2 DEF WithShift
  <2> QED BY <1>2, <2>3 DEF Typed, k
<1>3. CASE ~needs_shift(c)
  <2>1. c \in {59, 61}
    BY <1>3 DEF needs_shift
  <2>2. /\ c = 59 => k = 51
        /\ c = 61 => k = 46
    BY DEF ascii_to_hid
  <2> HIDE DEF k
  <2>3. Plain(k) = c
    BY <1>1, <2>1, <2>2 DEF Plain
  <2> QED BY <1>3, <2>3 DEF Typed, k
<1> QED BY <1>2, <1>3

LEMMA PunctuationHigh ==
  ASSUME NEW c \in (91 .. 96) \union (123 .. 126)
  PROVE  Typed(c) = c
<1> DEFINE k == ascii_to_hid(c)
<1>1. k \in Int
  BY DEF ascii_to_hid
<1>2. CASE needs_shift(c)
  <2>1. c \in {94, 95, 123, 124, 125, 126}
    BY <1>2 DEF needs_shift
  <2>2. /\ c = 94 => k = 35
        /\ c = 95 => k = 45
        /\ c = 123 => k = 47
        /\ c = 124 => k = 49
        /\ c = 125 => k = 48
        /\ c = 126 => k = 53
    BY DEF ascii_to_hid
  <2> HIDE DEF k
  <2>3. WithShift(k) = c
    BY <1>1, <2>1, <2>2 DEF WithShift
  <2> QED BY <1>2, <2>3 DEF Typed, k
<1>3. CASE ~needs_shift(c)
  <2>1. c \in {91, 92, 93, 96}
    BY <1>3 DEF needs_shift
  <2>2. /\ c = 91 => k = 47
        /\ c = 92 => k = 49
        /\ c = 93 => k = 48
        /\ c = 96 => k = 53
    BY DEF ascii_to_hid
  <2> HIDE DEF k
  <2>3. Plain(k) = c
    BY <1>1, <2>1, <2>2 DEF Plain
  <2> QED BY <1>3, <2>3 DEF Typed, k
<1> QED BY <1>2, <1>3

LEMMA LettersAndDigits ==
  ASSUME NEW c \in (49 .. 57) \union (65 .. 90) \union (97 .. 122)
  PROVE  Typed(c) = c
<1> DEFINE k == ascii_to_hid(c)
<1>1. CASE c \in 49 .. 57
  <2>1. k = c - 19 /\ ~needs_shift(c)
    BY <1>1 DEF ascii_to_hid, needs_shift
  <2> HIDE DEF k
  <2>2. Plain(k) = k + 19
    BY <1>1, <2>1 DEF Plain
  <2> QED BY <1>1, <2>1, <2>2 DEF Typed, k
<1>2. CASE c \in 65 .. 90
  <2>1. k = c - 61 /\ needs_shift(c)
    BY <1>2 DEF ascii_to_hid, needs_shift
  <2> HIDE DEF k
  <2>2. WithShift(k) = k + 61
    BY <1>2, <2>1 DEF WithShift
  <2> QED BY <1>2, <2>1, <2>2 DEF Typed, k
<1>3. CASE c \in 97 .. 122
  <2>1. k = c - 93 /\ ~needs_shift(c)
    BY <1>3 DEF ascii_to_hid, needs_shift
  <2> HIDE DEF k
  <2>2. Plain(k) = k + 93
    BY <1>3, <2>1 DEF Plain
  <2> QED BY <1>3, <2>1, <2>2 DEF Typed, k
<1> QED BY <1>1, <1>2, <1>3

(***************************************************************************)
(* ascii_to_hid and needs_shift together: a printable character comes back *)
(* from a host with a US layout as itself.                                 *)
(***************************************************************************)
THEOREM KeymapTypesBack == TypedAsItself
<1> SUFFICES ASSUME NEW c \in 32 .. 126 PROVE Typed(c) = c
  BY DEF TypedAsItself
<1>1. CASE c \in 32 .. 48
  BY <1>1, PunctuationLow
<1>2. CASE c \in 58 .. 64
  BY <1>2, PunctuationMiddle
<1>3. CASE c \in (91 .. 96) \union (123 .. 126)
  BY <1>3, PunctuationHigh
<1>4. CASE c \in (49 .. 57) \union (65 .. 90) \union (97 .. 122)
  BY <1>4, LettersAndDigits
<1> QED BY <1>1, <1>2, <1>3, <1>4

(***************************************************************************)
(* Every other byte is skipped by main or, DEL, presses a key that types   *)
(* nothing.                                                                *)
(***************************************************************************)
THEOREM KeymapSkipsOthers == OthersTypeNothing
<1> SUFFICES ASSUME NEW c \in 0 .. 255 \ 32 .. 126
             PROVE  Typed(c) = None /\ (ascii_to_hid(c) # None => c = 127)
  BY DEF OthersTypeNothing
<1> DEFINE k == ascii_to_hid(c)
<1>1. k = IF c = 127 THEN 76 ELSE None
  BY DEF ascii_to_hid
<1>2. ~needs_shift(c)
  BY DEF needs_shift
<1> HIDE DEF k
<1>3. Plain(k) = None
  BY <1>1 DEF Plain
<1> QED BY <1>1, <1>2, <1>3 DEF Typed, k

-----------------------------------------------------------------------------
(* From the line to what the host reads: the string is typed with the key   *)
(* table.                                                                   *)

\* KeyOf and Shifted are the table: byte is what the characters stand for,
\* code the codes of the keys.
IsTable(byte, code) ==
  /\ byte \in [Char -> 0 .. 255]
  /\ DOMAIN KeyOf = {c \in Char : ascii_to_hid(byte[c]) # None}
  /\ Shifted = {c \in Char : needs_shift(byte[c])}
  /\ \A c \in DOMAIN KeyOf : code[KeyOf[c]] = ascii_to_hid(byte[c])

\* What the host reads when a key goes down.
Read(code, r) == IF r.shift THEN WithShift(code[r.key]) ELSE Plain(code[r.key])

\* What a byte of the line should show at the host: DEL alone has a key that
\* shows nothing.
Shows(b) == IF b \in 32 .. 127 THEN <<IF b = 127 THEN None ELSE b>> ELSE <<>>

Showing(byte, l) ==
  LET text[n \in 0 .. Len(l)] ==
        IF n = 0 THEN <<>> ELSE text[n - 1] \o Shows(byte[l[n]])
  IN  text
LineShows(byte) == Showing(byte, TheLine)[N]

ReadsTheLine(byte, code) ==
  /\ Len(typed) <= Len(LineShows(byte))
  /\ \A i \in DOMAIN typed : Read(code, typed[i]) = LineShows(byte)[i]
  /\ Quiet => typed = <<>> \/ Len(typed) = Len(LineShows(byte))

LEMMA ShowingSteps ==
  ASSUME NEW byte, NEW l, Len(l) \in Nat
  PROVE  /\ Showing(byte, l)[0] = <<>>
         /\ \A i \in 0 .. Len(l) - 1 :
              Showing(byte, l)[i + 1] = Showing(byte, l)[i] \o Shows(byte[l[i + 1]])
<1> DEFINE text == CHOOSE f : f = [n \in 0 .. Len(l) |->
                              IF n = 0 THEN <<>> ELSE f[n - 1] \o Shows(byte[l[n]])]
<1>1. Showing(byte, l) = text
  BY DEF Showing
<1>2. \E f : f = [n \in 0 .. Len(l) |->
                     IF n = 0 THEN <<>> ELSE f[n - 1] \o Shows(byte[l[n]])]
  <2> DEFINE p == [i \in 1 .. Len(l) |-> Shows(byte[l[i]])]
  <2>1. PICK f : f = [n \in 0 .. Len(l) |-> IF n = 0 THEN <<>> ELSE f[n - 1] \o p[n]]
    BY JoiningExists DEF IsJoining
  <2>2. ASSUME NEW n \in 0 .. Len(l), n # 0 PROVE p[n] = Shows(byte[l[n]])
    BY <2>2
  <2> HIDE DEF p
  <2>3. [n \in 0 .. Len(l) |-> IF n = 0 THEN <<>> ELSE f[n - 1] \o p[n]]
          = [n \in 0 .. Len(l) |-> IF n = 0 THEN <<>> ELSE f[n - 1] \o Shows(byte[l[n]])]
    BY <2>2
  <2> QED BY <2>1, <2>3, Zenon
<1>3. text = [n \in 0 .. Len(l) |-> IF n = 0 THEN <<>> ELSE text[n - 1] \o Shows(byte[l[n]])]
  BY <1>2, Zenon
<1> HIDE DEF text
<1>4. text[0] = <<>>
  BY <1>3
<1>5. ASSUME NEW i \in 0 .. Len(l) - 1 PROVE text[i + 1] = text[i] \o Shows(byte[l[i + 1]])
  <2>1. i + 1 \in 0 .. Len(l) /\ i + 1 # 0 /\ (i + 1) - 1 = i
    OBVIOUS
  <2>2. text[i + 1] = text[(i + 1) - 1] \o Shows(byte[l[i + 1]])
    BY <1>3, <2>1
  <2> QED BY <2>1, <2>2
<1> QED BY <1>1, <1>4, <1>5

\* One character: the key that types it, if there is one, shows it.
LEMMA StrokeShows ==
  ASSUME NEW byte, NEW code, IsTable(byte, code), NEW c \in Char
  PROVE  /\ Len(Stroke(c)) = Len(Shows(byte[c])) /\ Shows(byte[c]) \in Seq(Int)
         /\ Stroke(c) # <<>> => Read(code, Stroke(c)[1]) = Shows(byte[c])[1]
<1> DEFINE b == byte[c]
<1>1. b \in 0 .. 255
  BY DEF IsTable
<1>2. c \in DOMAIN KeyOf <=> ascii_to_hid(b) # None
  BY DEF IsTable
<1>3. c \in DOMAIN KeyOf => Read(code, KeyReport(KeyOf[c], c \in Shifted)) = Typed(b)
  BY DEF IsTable, Read, KeyReport, Typed
<1> HIDE DEF b
<1>4. CASE b \in 32 .. 126
  <2>1. Typed(b) = b
    BY <1>4, KeymapTypesBack DEF TypedAsItself
  <2>2. ascii_to_hid(b) # None
    BY <1>4 DEF ascii_to_hid
  <2>3. Stroke(c) = <<KeyReport(KeyOf[c], c \in Shifted)>>
    BY <1>2, <2>2, Zenon DEF Stroke
  <2>4. Shows(b) = <<b>>
    BY <1>4 DEF Shows
  <2> HIDE DEF KeyReport, Read
  <2> QED BY <1>2, <1>3, <1>4, <2>1, <2>2, <2>3, <2>4 DEF b
<1>5. CASE b = 127
  <2>1. Typed(b) = None
    BY <1>5, KeymapSkipsOthers DEF OthersTypeNothing
  <2>2. ascii_to_hid(b) # None
    BY <1>5 DEF ascii_to_hid
  <2>3. Stroke(c) = <<KeyReport(KeyOf[c], c \in Shifted)>>
    BY <1>2, <2>2, Zenon DEF Stroke
  <2>4. Shows(b) = <<None>>
    BY <1>5 DEF Shows
  <2> HIDE DEF KeyReport, Read
  <2> QED BY <1>2, <1>3, <2>1, <2>2, <2>3, <2>4 DEF b
<1>6. CASE b \notin 32 .. 127
  <2>1. ascii_to_hid(b) = None
    BY <1>1, <1>6, KeymapSkipsOthers DEF OthersTypeNothing
  <2>2. Stroke(c) = <<>> /\ Shows(b) = <<>>
    BY <1>2, <1>6, <2>1 DEF Stroke, Shows
  <2> QED BY <2>2 DEF b
<1> QED BY <1>1, <1>4, <1>5, <1>6

\* All of the line, one character after another.
LEMMA KeysShow ==
  ASSUME OneLine, NEW byte, NEW code, IsTable(byte, code)
  PROVE  /\ Len(LineShows(byte)) = Len(All)
         /\ \A i \in 1 .. Len(All) : Read(code, All[i]) = LineShows(byte)[i]
<1> DEFINE T(n) == Showing(byte, TheLine)[n]
           Same(s, t) == /\ Len(s) \in Nat /\ Len(t) = Len(s)
                         /\ \A i \in 1 .. Len(s) : Read(code, s[i]) = t[i]
           G == {n \in 0 .. N : T(n) \in Seq(Int) /\ Same(Upto(n), T(n))}
<1>1. N \in Nat /\ N = Len(TheLine) /\ TheLine \in Seq(Char)
  BY LineFacts, TheLineTyped DEF N
<1>2. /\ T(0) = <<>>
      /\ \A n \in 0 .. N - 1 : T(n + 1) = T(n) \o Shows(byte[TheLine[n + 1]])
  BY <1>1, ShowingSteps
<1> HIDE DEF T
<1>3. 0 \in G
  <2>1. Upto(0) = <<>> /\ <<>> \in Seq(Int)
    BY UptoSteps
  <2>2. Same(<<>>, <<>>)
    OBVIOUS
  <2>3. 0 \in 0 .. N
    BY <1>1
  <2> HIDE DEF Same
  <2> QED BY <1>2, <2>1, <2>2, <2>3
<1>4. ASSUME NEW n \in 0 .. N, n \in G, n < N PROVE n + 1 \in G
  <2> DEFINE c == TheLine[n + 1]
             s == Upto(n)
             t == T(n)
             p == Stroke(c)
             q == Shows(byte[c])
  <2>1. n \in 0 .. N - 1 /\ n + 1 \in 0 .. N /\ c \in Char
    BY <1>1, <1>4
  <2>2. Upto(n + 1) = s \o p /\ T(n + 1) = t \o q
    BY <1>2, <2>1, UptoSteps
  <2>3. s \in Seq(Report) /\ p \in Seq(Report) /\ Len(p) <= 1
    <3>1. Len(p) <= 1
      BY DEF Stroke
    <3> QED BY <3>1, UptoTyped, StrokeTyped
  <2>4. t \in Seq(Int) /\ Same(s, t)
    BY <1>4
  <2>5. Len(p) = Len(q) /\ q \in Seq(Int) /\ (p # <<>> => Read(code, p[1]) = q[1])
    BY <2>1, StrokeShows
  <2> HIDE DEF s, t, p, q, Read
  <2>6. t \o q \in Seq(Int) /\ Same(s \o p, t \o q)
    <3>1. /\ Len(s \o p) = Len(s) + Len(p) /\ Len(t \o q) = Len(t) + Len(q)
          /\ Len(s) \in Nat /\ Len(p) \in Nat /\ Len(s \o p) \in Nat
      BY <2>3, <2>4, <2>5
    <3>2. ASSUME NEW i \in 1 .. Len(s \o p) PROVE Read(code, (s \o p)[i]) = (t \o q)[i]
      <4>1. i \in 1 .. Len(s) \/ (i = Len(s) + 1 /\ Len(p) = 1)
        <5>1. i \in 1 .. Len(s) + Len(p) /\ Len(s) \in Nat /\ Len(p) \in Nat /\ Len(p) <= 1
          BY <2>3, <3>1, Zenon
        <5> QED BY <5>1, LastPlace, Zenon
      <4>2. CASE i \in 1 .. Len(s)
        <5>1. (s \o p)[i] = s[i] /\ (t \o q)[i] = t[i]
          BY <2>3, <2>4, <2>5, <3>1, <4>2
        <5> QED BY <2>4, <4>2, <5>1
      <4>3. CASE i = Len(s) + 1 /\ Len(p) = 1
        <5>1. (s \o p)[i] = p[1] /\ (t \o q)[i] = q[1]
          BY <2>3, <2>4, <2>5, <3>1, <4>3
        <5>2. p # <<>>
          BY <4>3
        <5> QED BY <2>5, <5>1, <5>2, Zenon
      <4> QED BY <4>1, <4>2, <4>3
    <3> QED BY <2>3, <2>4, <2>5, <3>1, <3>2
  <2> QED BY <2>1, <2>2, <2>6
<1> HIDE DEF G
<1>5. N \in G
  <2>1. 0 .. N \subseteq G
    BY <1>1, <1>3, <1>4, UpTo
  <2> QED BY <1>1, <2>1
<1>6. Same(Upto(N), T(N))
  BY <1>5 DEF G
<1> QED BY <1>6, UptoSteps DEF T, LineShows

(***************************************************************************)
(* The program from end to end: with the table of ascii_to_hid and          *)
(* needs_shift, a host with a US layout reads the printable characters of   *)
(* the line it sent, in their order, and all of them when the device has    *)
(* come to rest after typing.                                               *)
(***************************************************************************)
THEOREM HostReadsTheLine ==
  ASSUME NEW byte, NEW code, IsTable(byte, code), Steady
  PROVE  Spec => []ReadsTheLine(byte, code)
<1>1. Spec => []TInv
  BY LineKept
<1>2. TInv => ReadsTheLine(byte, code)
  <2> SUFFICES ASSUME TInv PROVE ReadsTheLine(byte, code)
    OBVIOUS
  <2>1. TypedBack /\ ((wanted = <<>> /\ typed = <<>>) \/ wanted = All)
    BY TypedSoFar
  <2>2. /\ Len(LineShows(byte)) = Len(All)
        /\ \A i \in 1 .. Len(All) : Read(code, All[i]) = LineShows(byte)[i]
    BY KeysShow DEF Steady
  <2>3. All \in Seq(Report) /\ Len(All) \in Nat
    <3>1. N \in 0 .. N
      BY LineFacts DEF Steady
    <3> QED BY <3>1, UptoPrefix DEF Steady
  <2>4. typed \in Seq(Report)
    BY TypingFacts
  <2> HIDE DEF Read
  <2>5. CASE wanted = <<>> /\ typed = <<>>
    BY <2>2, <2>3, <2>5 DEF ReadsTheLine
  <2>6. CASE wanted = All
    BY <2>1, <2>2, <2>3, <2>4, <2>6 DEF ReadsTheLine, TypedBack
  <2> QED BY <2>1, <2>5, <2>6
<1> QED BY <1>1, <1>2, PTL
=============================================================================

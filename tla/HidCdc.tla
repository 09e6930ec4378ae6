------------------------------- MODULE HidCdc -------------------------------
(***************************************************************************)
(* The application of 013.usb/usb_hid_cdc: what main does with each event. *)
(* It EXTENDS HidEvents and adds the two HID endpoints with the semaphore  *)
(* usb_sem they share, the saved string that button 2 types back, and the  *)
(* host that polls the endpoints.                                          *)
(*                                                                         *)
(* main may be interrupted between any two of its steps; the keyboard CDC  *)
(* handler then replaces the string main is in the middle of typing.       *)
(*                                                                         *)
(* Abstracted: the coordinates of a mouse report (a report either moves or *)
(* presses, "active", or is all zero), the texts written to the CDC ports  *)
(* (one step each, possible while the host is connected).                  *)
(***************************************************************************)
EXTENDS HidEvents, FiniteSets

CONSTANTS Char,      \* the characters that lines are made of
          KeyOf,     \* their key code; no entry for an unsupported one
          Shifted,   \* those typed with SHIFT
          Size,      \* sizeof(string)
          Lines,     \* the strings the host sends to the keyboard port
          Presses,   \* how often each stimulus happens
          Unplugs    \* how often the host goes away

Nul == "NUL"
ASSUME CharAssumption ==
  /\ Nul \notin Char /\ DOMAIN KeyOf \subseteq Char /\ Shifted \subseteq Char
  /\ \A c \in DOMAIN KeyOf : KeyOf[c] \notin {"empty", "zero", "active", "caps"}
  /\ Size \in Nat \ {0} /\ \A l \in Lines : l \in Seq(Char) /\ Len(l) < Size
  /\ Presses \in [Stimuli -> Nat] /\ Unplugs \in Nat

Endpoint == {"hid0", "hid1"}
NoReport == [key |-> "empty", shift |-> FALSE]
Zero     == [key |-> "zero", shift |-> FALSE]
Active   == [key |-> "active", shift |-> FALSE]
Caps     == [key |-> "caps", shift |-> FALSE]
KeyReport(k, s) == [key |-> k, shift |-> s]

VARIABLES usbSem,    \* the count of usb_sem
          ep,        \* the report each endpoint holds for the host
          host,      \* the last report the host got from each endpoint
          plugged,   \* the host is there and polls
          string,    \* the 64-byte buffer "string"
          ptr,       \* str_pointer
          at,        \* where main is in the handler of cur
          rep,       \* the report main is building
          typed,     \* history: the key presses the host has seen
          wanted,    \* history: the key presses button 2 has asked for
          left       \* how often each stimulus, and "unplug", may still happen

usbVars == <<usbSem, ep, host, plugged, typed>>
strVars == <<string, ptr, rep, wanted>>
appVars == <<usbVars, strVars, at, left>>
vars    == <<evtVars, appVars>>

Init == /\ EvtInit
        /\ usbSem = 1
        /\ ep = [h \in Endpoint |-> NoReport]
        /\ host = [h \in Endpoint |-> Zero]
        /\ plugged = TRUE
        /\ string = [i \in 0 .. Size - 1 |-> Nul] /\ ptr = 0
        /\ at = "start" /\ rep = Zero
        /\ typed = <<>> /\ wanted = <<>>
        /\ left = [x \in Stimuli \union {"unplug"} |->
                      IF x = "unplug" THEN Unplugs ELSE Presses[x]]

-----------------------------------------------------------------------------
(* The string.                                                             *)

Strlen(s) == CHOOSE n \in DOMAIN s : s[n] = Nul /\ \A i \in 0 .. n - 1 : s[i] # Nul
Text(s)   == [i \in 1 .. Strlen(s) |-> s[i - 1]]

\* strcpy: what lies behind the terminator stays.
Strcpy(s, l) == [i \in DOMAIN s |-> IF i < Len(l) THEN l[i + 1]
                                    ELSE IF i = Len(l) THEN Nul ELSE s[i]]

\* The key that types a character, if there is one.
Stroke(c) == IF c \in DOMAIN KeyOf THEN <<KeyReport(KeyOf[c], c \in Shifted)>> ELSE <<>>

\* The keys that type the first n characters of a line, and all of it.
Typing(l) ==
  LET keys[n \in 0 .. Len(l)] == IF n = 0 THEN <<>> ELSE keys[n - 1] \o Stroke(l[n])
  IN  keys
Strokes(l) == Typing(l)[Len(l)]

\* string[str_pointer]; behind the buffer lies some other data.
PtrChar == IF ptr < Size THEN {string[ptr]} ELSE Char \union {Nul}

-----------------------------------------------------------------------------
(* Interrupts and the host.                                                *)

\* A complete line on the keyboard port also replaces the string.
Stimulus(e) ==
  /\ left[e] > 0
  /\ left' = [left EXCEPT ![e] = @ - 1]
  /\ Interrupt(e)
  /\ IF e = "CDC_STRING"
     THEN \E l \in Lines : string' = Strcpy(string, l)
     ELSE UNCHANGED string
  /\ UNCHANGED <<usbVars, ptr, rep, wanted, at>>

\* HostPolls without k_sem_give in in_ready_cb.
HostPollsOnly(h) ==
  /\ Runs("main") /\ plugged /\ ep[h] # NoReport
  /\ host' = [host EXCEPT ![h] = ep[h]]
  /\ ep' = [ep EXCEPT ![h] = NoReport]
  /\ typed' = IF h = "hid1" /\ ep[h].key \notin {"zero", "caps", host[h].key}
              THEN Append(typed, ep[h]) ELSE typed
  /\ UNCHANGED <<evtVars, strVars, usbSem, plugged, at, left>>

\* The host polls endpoint h: the report is delivered and in_ready_cb gives
\* usb_sem.  A key that was not down in the report before is typed.
HostPolls(h) ==
  /\ Runs("main") /\ plugged /\ ep[h] # NoReport
  /\ host' = [host EXCEPT ![h] = ep[h]]
  /\ ep' = [ep EXCEPT ![h] = NoReport]
  /\ typed' = IF h = "hid1" /\ ep[h].key \notin {"zero", "caps", host[h].key}
              THEN Append(typed, ep[h]) ELSE typed
  /\ usbSem' = 1
  /\ UNCHANGED <<evtVars, strVars, plugged, at, left>>

\* The host goes away with what the endpoints held, and comes back.
Unplug ==
  /\ ~Halted /\ plugged /\ left["unplug"] > 0
  /\ left' = [left EXCEPT !["unplug"] = @ - 1]
  /\ plugged' = FALSE
  /\ ep' = [h \in Endpoint |-> NoReport]
  /\ host' = [h \in Endpoint |-> Zero]
  /\ UNCHANGED <<evtVars, strVars, usbSem, typed, at>>

Replug ==
  /\ ~Halted /\ ~plugged
  /\ plugged' = TRUE
  /\ UNCHANGED <<evtVars, strVars, usbSem, ep, host, typed, at, left>>

-----------------------------------------------------------------------------
(* main, inside the handler of cur.                                        *)

MouseEvt == {"GPIO_BUTTON_0", "GPIO_BUTTON_1"} \union Moves
ClearEvt == {"HID_MOUSE_CLEAR", "HID_KBD_CLEAR"}
TextOnly == {"GPIO_BUTTON_2", "CDC_UNKNOWN", "CDC_STRING"}

\* EndpointOf that clears the mouse on the keyboard's endpoint.
EndpointMixedUp(e) == IF e \in MouseEvt THEN "hid0" ELSE "hid1"
EndpointOf(e) == IF e \in MouseEvt \union {"HID_MOUSE_CLEAR"} THEN "hid0" ELSE "hid1"
FixedReport(e) == IF e \in ClearEvt THEN Zero
                  ELSE IF e \in MouseEvt THEN Active ELSE Caps

Handling(a) == MainAt("handle") /\ at = a
InHandler   == UNCHANGED evtVars

\* ascii_to_hid(string[str_pointer])
ReadKey ==
  /\ Handling("start") /\ cur = "HID_KBD_STRING"
  /\ \E c \in PtrChar :
        IF c \in DOMAIN KeyOf
        THEN rep' = KeyReport(KeyOf[c], FALSE) /\ at' = "shift"
        ELSE UNCHANGED rep /\ at' = "count"
  /\ InHandler /\ UNCHANGED <<usbVars, string, ptr, wanted, left>>

\* ReadShift that leaves the modifiers alone.
ReadShiftNever ==
  /\ Handling("shift")
  /\ at' = "take"
  /\ InHandler /\ UNCHANGED <<usbVars, string, ptr, rep, wanted, left>>

\* needs_shift(string[str_pointer]), a second look at the buffer
ReadShift ==
  /\ Handling("shift")
  /\ \E c \in PtrChar : rep' = KeyReport(rep.key, c \in Shifted)
  /\ at' = "take"
  /\ InHandler /\ UNCHANGED <<usbVars, string, ptr, wanted, left>>

\* TakeUsb with K_NO_WAIT in place of K_FOREVER, its result ignored.
TakeUsbNoWait ==
  /\ \/ Handling("take") /\ UNCHANGED rep
     \/ /\ Handling("start") /\ cur \notin TextOnly \union {"HID_KBD_STRING"}
        /\ rep' = FixedReport(cur)
  /\ usbSem' = 0
  /\ at' = "write"
  /\ InHandler /\ UNCHANGED <<ep, host, plugged, typed, string, ptr, wanted, left>>

\* k_sem_take(&usb_sem, K_FOREVER)
TakeUsb ==
  /\ \/ Handling("take") /\ UNCHANGED rep
     \/ /\ Handling("start") /\ cur \notin TextOnly \union {"HID_KBD_STRING"}
        /\ rep' = FixedReport(cur)
  /\ usbSem = 1
  /\ usbSem' = 0
  /\ at' = "write"
  /\ InHandler /\ UNCHANGED <<ep, host, plugged, typed, string, ptr, wanted, left>>

\* hid_int_ep_write; its result is ignored.
WriteReport ==
  /\ Handling("write")
  /\ ep' = IF plugged THEN [ep EXCEPT ![EndpointOf(cur)] = rep] ELSE ep
  /\ at' = CASE cur \in ClearEvt        -> "decide"
             [] cur = "HID_KBD_STRING"  -> "count"
             [] OTHER                   -> "text"
  /\ rep' = Zero
  /\ InHandler /\ UNCHANGED <<usbSem, host, plugged, typed, string, ptr, wanted, left>>

\* write_data returns only if the host takes the text.
WriteText ==
  /\ Handling("text") \/ (Handling("start") /\ cur \in TextOnly)
  /\ plugged
  /\ at' = "decide"
  /\ InHandler /\ UNCHANGED <<usbVars, strVars, left>>

\* Count with ">=": the equal case below is never reached.
CountAtLeast ==
  /\ Handling("count")
  /\ ptr' = ptr + 1
  /\ at' = IF Strlen(string) >= ptr + 1 THEN "decide" ELSE "equal"
  /\ InHandler /\ UNCHANGED <<usbVars, string, rep, wanted, left>>

\* str_pointer++; strlen(string) > str_pointer ?
Count ==
  /\ Handling("count")
  /\ ptr' = ptr + 1
  /\ at' = IF Strlen(string) > ptr + 1 THEN "decide" ELSE "equal"
  /\ InHandler /\ UNCHANGED <<usbVars, string, rep, wanted, left>>

\* strlen(string) == str_pointer ?  The buffer is looked at once more.
AtEnd == Handling("equal") /\ Strlen(string) = ptr

\* The event main raises at the end of the handler, if any.
Raises(f) ==
  CASE f = "HID_MOUSE_CLEAR" -> Handling("decide") /\ cur \in MouseEvt
    [] f = "HID_KBD_CLEAR"   -> \/ Handling("decide") /\ cur = "GPIO_BUTTON_3"
                                \/ AtEnd
    [] f = "HID_KBD_STRING"  ->
         /\ Handling("decide")
         /\ \/ cur = "GPIO_BUTTON_2" /\ Strlen(string) > 0
            \/ cur = "HID_KBD_STRING"

RaiseNext(f) ==
  /\ Raises(f)
  /\ FollowUp(f)
  /\ IF cur = "GPIO_BUTTON_2"
     THEN ptr' = 0 /\ wanted' = wanted \o Strokes(Text(string))
     ELSE UNCHANGED <<ptr, wanted>>
  /\ at' = "start"
  /\ UNCHANGED <<usbVars, string, rep, left>>

RaiseNone ==
  /\ Handling("decide") \/ Handling("equal")
  /\ \A f \in Hid : ~Raises(f)
  /\ HandlerEnds
  /\ at' = "start"
  /\ UNCHANGED <<usbVars, strVars, left>>

Handler == \/ ReadKey \/ ReadShift \/ TakeUsb \/ WriteReport \/ WriteText
           \/ Count \/ (\E f \in Hid : RaiseNext(f)) \/ RaiseNone

-----------------------------------------------------------------------------
\* The steps of HidEvents that do not touch the application's own state.
Plumbing(A) == A /\ UNCHANGED appVars

Next == \/ \E e \in Stimuli : Stimulus(e)
        \/ \E h \in Endpoint : HostPolls(h)
        \/ Unplug \/ Replug
        \/ \E c \in Context : Plumbing(RaiseStep(c))
        \/ Plumbing(Boot) \/ Plumbing(TakeEvt) \/ Plumbing(Get) \/ Plumbing(Free)
        \/ Handler

Spec == Init /\ [][Next]_vars

(***************************************************************************)
(* Fairness.  Every context keeps running (the stimuli are finite, so the  *)
(* weak form is enough), and a host that is there polls both endpoints, as *)
(* USB interrupt endpoints require, reads the ports and opens them.  The   *)
(* host that went away comes back.                                         *)
(***************************************************************************)
Fairness == /\ \A c \in Context : WF_vars(Plumbing(RaiseStep(c)))
            /\ WF_vars(Plumbing(Boot)) /\ WF_vars(Plumbing(TakeEvt))
            /\ WF_vars(Plumbing(Get)) /\ WF_vars(Plumbing(Free))
            /\ WF_vars(Handler)
            /\ \A h \in Endpoint : WF_vars(HostPolls(h))
            /\ WF_vars(Replug)

FairSpec == Spec /\ Fairness

-----------------------------------------------------------------------------
Report == [key : {"empty", "zero", "active", "caps"}
                    \union {KeyOf[c] : c \in DOMAIN KeyOf},
           shift : BOOLEAN]

AppTypeOK ==
  /\ usbSem \in {0, 1} /\ plugged \in BOOLEAN
  /\ ep \in [Endpoint -> Report] /\ host \in [Endpoint -> Report]
  /\ string \in [0 .. Size - 1 -> Char \union {Nul}] /\ ptr \in Nat
  /\ at \in {"start", "shift", "take", "write", "text", "count", "decide", "equal"}
  /\ rep \in Report
  /\ typed \in Seq(Report)
  /\ left \in [Stimuli \union {"unplug"} -> Nat]

InFlight(h) == IF ep[h] = NoReport THEN 0 ELSE 1

Writing == IF at = "write" THEN 1 ELSE 0

(***************************************************************************)
(* The one unit of usb_sem is available, in the hands of main about to     *)
(* write, or owed by exactly one report in flight: the two endpoints never *)
(* hold a report each and no report is overwritten before the host took    *)
(* it.  As long as the host has never gone away the unit is never lost, so *)
(* main is always woken again.                                             *)
(***************************************************************************)
UsbUnits == usbSem + InFlight("hid0") + InFlight("hid1") + Writing

UsbSemAccounting == /\ UsbUnits <= 1
                    /\ left["unplug"] = Unplugs => UsbUnits = 1

\* e is queued, about to be queued, or being handled.
Coming(e) == \/ cur = e \/ \E i \in DOMAIN fifo : fifo[i] = e
             \/ \E c \in Context : new[c] = e

(***************************************************************************)
(* A mouse button or movement the host has seen, or is going to see, is    *)
(* always followed by its release: as long as the last report is active    *)
(* the clear event is on its way.                                          *)
(***************************************************************************)
LastReport(h) == IF ep[h] = NoReport THEN host[h] ELSE ep[h]

MouseReleaseComing ==
  LastReport("hid0") = Active =>
     Doomed \/ Coming("HID_MOUSE_CLEAR") \/ cur \in MouseEvt

(***************************************************************************)
(* The same for a key, as long as the string is not replaced while it is   *)
(* typed.                                                                  *)
(***************************************************************************)
KeyReleaseComing ==
  LastReport("hid1").key # "zero" =>
     \/ Doomed \/ Coming("HID_KBD_CLEAR") \/ Coming("HID_KBD_STRING")
     \/ cur = "GPIO_BUTTON_3"

\* Events of T in the FIFO or in the hands of a context that has not queued
\* them yet, and an event in its handler.
Among(q, T)      == {i \in DOMAIN q : q[i] \in T}
FifoTokens(T)    == Cardinality(Among(fifo, T))
HandToken(T, c)  == IF step[c] = "put" /\ new[c] \in T THEN 1 ELSE 0
HandTokens(T)    == HandToken(T, "gpio") + HandToken(T, "usbwq") + HandToken(T, "main")
WaitingTokens(T) == FifoTokens(T) + HandTokens(T)
Handled(e)       == mainAt = "handle" /\ cur = e

\* The HID_KBD_STRINGs that are still going to move str_pointer.
Stream  == "HID_KBD_STRING"
Pending == IF Handled(Stream) /\ at # "equal" THEN 1 ELSE 0
Streams == WaitingTokens({Stream}) + Pending

\* main is about to look at string[str_pointer].
Reading == Handled(Stream) /\ at \in {"start", "shift"}

(***************************************************************************)
(* As long as no more than two HID_KBD_STRINGs are under way at once, main *)
(* never looks behind the buffer, although str_pointer may pass the end of *)
(* the string: one more than a user who waits for the text sets going.     *)
(***************************************************************************)
StringReadInside == [](Streams <= 2) => [](Reading => ptr \in DOMAIN string)

\* Nothing is left to do.
Quiet == /\ mainAt = "wait" /\ fifo = <<>> /\ evtSem = 0
         /\ \A h \in Endpoint : ep[h] = NoReport

(***************************************************************************)
(* The host sees the string that button 2 asked for, key by key and in     *)
(* order, and when the device has come to rest it has seen all of it.      *)
(***************************************************************************)
TypedBack ==
  /\ Len(typed) <= Len(wanted)
  /\ \A i \in DOMAIN typed : typed[i] = wanted[i]
  /\ Quiet => Len(typed) = Len(wanted)

(***************************************************************************)
(* Every key the host has seen go down goes up again.                      *)
(***************************************************************************)
KeysReleased == host["hid1"].key # "zero" ~> host["hid1"] = Zero

(***************************************************************************)
(* Whatever was pressed or sent, the device comes to rest again, ready for *)
(* the next event.                                                         *)
(***************************************************************************)
ComesToRest == <>[]Quiet
=============================================================================

------------------------------ MODULE HidEvents ------------------------------
(***************************************************************************)
(* The event pool, FIFO and wake-up semaphore of 013.usb/usb_hid_cdc.      *)
(*                                                                         *)
(* Three execution contexts share them.  The GPIO interrupt runs the       *)
(* button callbacks, the USB work queue (a cooperative thread) runs the    *)
(* two CDC ACM handlers, and main takes the events and may raise another   *)
(* while it handles one.  A context is interrupted only by those above it. *)
(*                                                                         *)
(* An event costs a block of the heap from app_evt_alloc to app_evt_free.  *)
(* When the heap is empty app_evt_alloc frees every queued event, takes a  *)
(* block, forgets it and returns NULL; no caller looks at the result, so   *)
(* the application faults at its next line ("null").                       *)
(*                                                                         *)
(* What main does with an event other than raising the next one is the     *)
(* business of HidCdc, which extends this module.                          *)
(***************************************************************************)
EXTENDS Naturals, Sequences

CONSTANTS Blocks,    \* blocks the heap event_elem_pool can serve
          Stimuli    \* the button and CDC events the environment raises

Buttons == {"GPIO_BUTTON_0", "GPIO_BUTTON_1", "GPIO_BUTTON_2", "GPIO_BUTTON_3"}
Moves   == {"CDC_UP", "CDC_DOWN", "CDC_LEFT", "CDC_RIGHT"}
CdcLine == Moves \union {"CDC_UNKNOWN", "CDC_STRING"}
Hid     == {"HID_MOUSE_CLEAR", "HID_KBD_CLEAR", "HID_KBD_STRING"}
Event   == Buttons \union CdcLine \union Hid
NoEvent == "none"

ASSUME BlocksAssumption  == Blocks \in Nat \ {0}
ASSUME StimuliAssumption == Stimuli \subseteq Buttons \union CdcLine

Context == {"gpio", "usbwq", "main"}
Above(c) == CASE c = "main"  -> {"gpio", "usbwq"}
              [] c = "usbwq" -> {"gpio"}
              [] c = "gpio"  -> {}

VARIABLES fifo,      \* evt_fifo, oldest first
          used,      \* blocks taken from the heap
          leaked,    \* of these, blocks nothing refers to any more
          evtSem,    \* the count of evt_sem, at most 1
          step,      \* how far each context is in raising an event
          new,       \* the event each context is raising
          mainAt,    \* where main is in its loop
          cur        \* the event main is handling

evtVars == <<fifo, used, leaked, evtSem, step, new, mainAt, cur>>

EvtInit == /\ fifo = <<>> /\ used = 0 /\ leaked = 0 /\ evtSem = 0
           /\ step = [c \in Context |-> "none"]
           /\ new = [c \in Context |-> NoEvent]
           /\ mainAt = "init" /\ cur = NoEvent

Halted == \E c \in Context : step[c] = "null"

\* A context runs when no context above it is in the middle of something.
Runs(c) == /\ ~Halted
           /\ \A d \in Above(c) : step[d] = "none"

-----------------------------------------------------------------------------
(* Raising an event: app_evt_alloc, app_evt_put, k_sem_give(&evt_sem).     *)

At(c, s)      == Runs(c) /\ step[c] = s
Goto(c, s)    == step' = [step EXCEPT ![c] = s]

\* The first k_heap_alloc of app_evt_alloc.
Alloc(c, e) ==
  /\ At(c, "none")
  /\ new' = [new EXCEPT ![c] = e]
  /\ \/ used < Blocks /\ used' = used + 1 /\ Goto(c, "put")
     \/ used >= Blocks /\ used' = used /\ Goto(c, "flush")
  /\ UNCHANGED <<fifo, leaked, evtSem, cur>>

\* Put with the new event queued before the older ones.
PutFirst(c) ==
  /\ At(c, "put")
  /\ fifo' = <<new[c]>> \o fifo
  /\ Goto(c, "give")
  /\ UNCHANGED <<used, leaked, evtSem, new, mainAt, cur>>

Put(c) ==
  /\ At(c, "put")
  /\ fifo' = Append(fifo, new[c])
  /\ Goto(c, "give")
  /\ UNCHANGED <<used, leaked, evtSem, new, mainAt, cur>>

\* A Give that is forgotten.
GiveForgotten(c) ==
  /\ At(c, "give")
  /\ Goto(c, "none")
  /\ new' = [new EXCEPT ![c] = NoEvent]
  /\ mainAt' = IF c = "main" THEN "free" ELSE mainAt
  /\ UNCHANGED <<fifo, used, leaked, evtSem, cur>>

\* main goes on to free the event it was handling.
Give(c) ==
  /\ At(c, "give")
  /\ evtSem' = 1
  /\ Goto(c, "none")
  /\ new' = [new EXCEPT ![c] = NoEvent]
  /\ mainAt' = IF c = "main" THEN "free" ELSE mainAt
  /\ UNCHANGED <<fifo, used, leaked, cur>>

\* app_evt_flush: get an event, free it, until there is none.
FlushGet(c) ==
  /\ At(c, "flush") /\ fifo # <<>>
  /\ fifo' = Tail(fifo)
  /\ Goto(c, "drop")
  /\ UNCHANGED <<used, leaked, evtSem, new, mainAt, cur>>

FlushFree(c) ==
  /\ At(c, "drop")
  /\ used' = used - 1
  /\ Goto(c, "flush")
  /\ UNCHANGED <<fifo, leaked, evtSem, new, mainAt, cur>>

FlushEnd(c) ==
  /\ At(c, "flush") /\ fifo = <<>>
  /\ Goto(c, "retry")
  /\ UNCHANGED <<fifo, used, leaked, evtSem, new, mainAt, cur>>

\* Retry with the missing "return ev": the second block is used.
RetryReturns(c) ==
  /\ At(c, "retry")
  /\ \/ used < Blocks /\ used' = used + 1 /\ Goto(c, "put")
     \/ used >= Blocks /\ UNCHANGED used /\ Goto(c, "null")
  /\ UNCHANGED <<fifo, leaked, evtSem, new, mainAt, cur>>

\* The second k_heap_alloc: NULL is returned whether or not it succeeds.
Retry(c) ==
  /\ At(c, "retry")
  /\ \/ used < Blocks /\ used' = used + 1 /\ leaked' = leaked + 1
     \/ used >= Blocks /\ UNCHANGED <<used, leaked>>
  /\ Goto(c, "null")
  /\ UNCHANGED <<fifo, evtSem, new, mainAt, cur>>

RaiseStep(c) == \/ Put(c) \/ Give(c)
                \/ FlushGet(c) \/ FlushFree(c) \/ FlushEnd(c) \/ Retry(c)

\* A button edge, or a line that ends in '\r' on a CDC port.  The button
\* callbacks are live before main waits for DTR, the CDC ones after it.
Interrupt(e) ==
  LET c == IF e \in Buttons THEN "gpio" ELSE "usbwq"
  IN  /\ e \in CdcLine => mainAt # "init"
      /\ Alloc(c, e)
      /\ UNCHANGED mainAt

-----------------------------------------------------------------------------
(* main: wait for evt_sem, then take events until the FIFO is empty.       *)

MainAt(s) == At("main", "none") /\ mainAt = s

\* DTR is on for both ports and the welcome texts are written.
Boot ==
  /\ MainAt("init")
  /\ mainAt' = "wait"
  /\ UNCHANGED <<fifo, used, leaked, evtSem, step, new, cur>>

TakeEvt ==
  /\ MainAt("wait") /\ evtSem = 1
  /\ evtSem' = 0
  /\ mainAt' = "get"
  /\ UNCHANGED <<fifo, used, leaked, step, new, cur>>

Get ==
  /\ MainAt("get")
  /\ \/ /\ fifo # <<>>
        /\ cur' = Head(fifo) /\ fifo' = Tail(fifo)
        /\ mainAt' = "handle"
     \/ /\ fifo = <<>>
        /\ mainAt' = "wait" /\ UNCHANGED <<fifo, cur>>
  /\ UNCHANGED <<used, leaked, evtSem, step, new>>

\* The events main may raise while it handles e.
FollowUps(e) ==
  CASE e \in {"GPIO_BUTTON_0", "GPIO_BUTTON_1"} \union Moves -> {"HID_MOUSE_CLEAR"}
    [] e = "GPIO_BUTTON_2"  -> {"HID_KBD_STRING"}
    [] e = "GPIO_BUTTON_3"  -> {"HID_KBD_CLEAR"}
    [] e = "HID_KBD_STRING" -> {"HID_KBD_STRING", "HID_KBD_CLEAR"}
    [] OTHER -> {}

\* Only the two events that look at the string may end without a follow-up.
MayEnd(e) == FollowUps(e) = {} \/ e \in {"GPIO_BUTTON_2", "HID_KBD_STRING"}

FollowUp(f) ==
  /\ MainAt("handle") /\ f \in FollowUps(cur)
  /\ Alloc("main", f)
  /\ mainAt' = "raise"

HandlerEnds ==
  /\ MainAt("handle") /\ MayEnd(cur)
  /\ mainAt' = "free"
  /\ UNCHANGED <<fifo, used, leaked, evtSem, step, new, cur>>

\* Free without k_heap_free, and Free that takes one event per wake-up.
FreeForgotten ==
  /\ MainAt("free")
  /\ cur' = NoEvent
  /\ mainAt' = "get"
  /\ UNCHANGED <<fifo, used, leaked, evtSem, step, new>>

FreeThenWait ==
  /\ MainAt("free")
  /\ used' = used - 1
  /\ cur' = NoEvent
  /\ mainAt' = "wait"
  /\ UNCHANGED <<fifo, leaked, evtSem, step, new>>

Free ==
  /\ MainAt("free")
  /\ used' = used - 1
  /\ cur' = NoEvent
  /\ mainAt' = "get"
  /\ UNCHANGED <<fifo, leaked, evtSem, step, new>>

Handle == (\E f \in Hid : FollowUp(f)) \/ HandlerEnds

EvtNext == \/ \E e \in Stimuli : Interrupt(e)
           \/ \E c \in Context : RaiseStep(c)
           \/ Boot \/ TakeEvt \/ Get \/ Handle \/ Free

(***************************************************************************)
(* Fairness.  A context above another one always gets the processor; a     *)
(* lower one gets it again and again because each interruption ends, hence *)
(* the strong form.  Nothing makes a button or a line arrive, nothing      *)
(* makes the host open the ports, and nothing makes a handler end: it may  *)
(* wait in k_sem_take(&usb_sem, K_FOREVER) or in write_data for a host     *)
(* that has left.                                                          *)
(***************************************************************************)
EvtSpec == EvtInit /\ [][EvtNext]_evtVars

EvtFairness == /\ \A c \in Context : SF_evtVars(RaiseStep(c))
               /\ SF_evtVars(TakeEvt) /\ SF_evtVars(Get) /\ SF_evtVars(Free)

FairEvtSpec == EvtSpec /\ EvtFairness

-----------------------------------------------------------------------------
TypeOK == /\ fifo \in Seq(Event)
          /\ used \in 0 .. Blocks /\ leaked \in Nat
          /\ evtSem \in {0, 1}
          /\ step \in [Context -> {"none", "put", "give", "flush", "drop",
                                   "retry", "null"}]
          /\ new \in [Context -> Event \union {NoEvent}]
          /\ mainAt \in {"init", "wait", "get", "handle", "raise", "free"}
          /\ cur \in Event \union {NoEvent}

\* The block context c has got and has neither queued nor freed.
Holding == {"put", "drop"}
Holds(c) == IF step[c] \in Holding THEN 1 ELSE 0
Held == Holds("gpio") + Holds("usbwq") + Holds("main")

(***************************************************************************)
(* Every block taken from the heap is in the FIFO, in the hands of exactly *)
(* one context, under main's eyes, or leaked: no block is freed twice and  *)
(* none is lost on any other path than app_evt_alloc's retry.              *)
(***************************************************************************)
PoolAccounting ==
  used = Len(fifo) + Held + (IF cur = NoEvent THEN 0 ELSE 1) + leaked

(***************************************************************************)
(* No lost wake-up: although evt_sem is binary and several events may be   *)
(* queued for one give, main never sleeps on a non-empty FIFO unless the   *)
(* semaphore is available or a context is about to give it.                *)
(***************************************************************************)
NoLostWakeup ==
  mainAt \in {"init", "wait"} /\ fifo # <<>>
    => evtSem = 1 \/ \E c \in Context : step[c] = "give"

\* app_evt_alloc is out of memory and the application is on its way to NULL.
Doomed == \E c \in Context : step[c] \in {"flush", "drop", "retry", "null"}

\* The FIFO keeps the promise of EventQueue.
Queue == INSTANCE EventQueue WITH pending <- fifo, running <- cur,
                                  doomed <- Doomed
QueueSpec == Queue!QSpec

(***************************************************************************)
(* An event in the FIFO is taken by main, however often main is            *)
(* interrupted and whatever is raised meanwhile.  Two things only can keep *)
(* it there: that the application runs out of memory, and that main stays  *)
(* in one handler for ever.                                                *)
(***************************************************************************)
HandlersEnd == []<>(mainAt # "handle")
QueuedIsHandled ==
  HandlersEnd =>
    \A e \in Stimuli :
       (mainAt # "init" /\ \E i \in DOMAIN fifo : fifo[i] = e)
          ~> (Doomed \/ (mainAt = "handle" /\ cur = e))

(***************************************************************************)
(* Once the pool is exhausted nothing is recovered: if the interrupts ever *)
(* pause for long enough, the flush of app_evt_alloc ends in the fault.    *)
(***************************************************************************)
InterruptsPause == <>[][\A e \in Stimuli : ~Interrupt(e)]_evtVars
ExhaustionIsFatal == InterruptsPause => (Doomed ~> Halted)
=============================================================================

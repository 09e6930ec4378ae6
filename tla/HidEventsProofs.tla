--------------------------- MODULE HidEventsProofs ---------------------------
(***************************************************************************)
(* Proofs about HidEvents, for every size of the pool and every set of     *)
(* stimuli.  The inductive invariant adds to the type invariant and the    *)
(* accounting of the blocks which event each context is raising and where  *)
(* main may be while it holds an event.                                    *)
(***************************************************************************)
EXTENDS HidEvents, SequenceTheorems, TLAPS

\* A context that is about to queue an event knows which.
NewShape == \A c \in Context : step[c] \in {"put", "give"} => new[c] \in Event

\* main raises an event only while it handles one.
MainShape == /\ step["main"] # "none" <=> mainAt = "raise"
             /\ cur # NoEvent <=> mainAt \in {"handle", "raise", "free"}

IInv == TypeOK /\ PoolAccounting /\ NewShape /\ MainShape

-----------------------------------------------------------------------------
(* The sets of the model. *)

LEMMA EventFacts == /\ NoEvent \notin Event
                    /\ Stimuli \subseteq Event /\ Hid \subseteq Event
BY StimuliAssumption DEF Event, Buttons, Moves, CdcLine, Hid, NoEvent

(* A FIFO loses one element at its head and gains one at its tail. *)
LEMMA HeadTail ==
  ASSUME NEW S, NEW q \in Seq(S), q # <<>>
  PROVE  /\ Head(q) \in S /\ Tail(q) \in Seq(S)
         /\ Len(Tail(q)) = Len(q) - 1 /\ Len(q) > 0
OBVIOUS

LEMMA AppendLen ==
  ASSUME NEW S, NEW q \in Seq(S), NEW e \in S
  PROVE  /\ Append(q, e) \in Seq(S) /\ Append(q, e) # <<>>
         /\ Len(Append(q, e)) = Len(q) + 1
BY AppendProperties

\* The numbers that PoolAccounting adds up.
LEMMA Counts ==
  ASSUME TypeOK
  PROVE  /\ Len(fifo) \in Nat /\ leaked \in Nat /\ used \in Nat
         /\ Held \in Nat /\ \A c \in Context : Holds(c) <= Held
BY BlocksAssumption DEF TypeOK, Holds, Held, Context

\* A step of one context changes the blocks held by that context's share.
LEMMA HeldStep ==
  ASSUME NEW c \in Context, \A d \in Context : d # c => Holds(d)' = Holds(d)
  PROVE  Held' = Held - Holds(c) + Holds(c)'
<1>1. \A d \in Context : Holds(d) \in {0, 1} /\ Holds(d)' \in {0, 1}
  BY DEF Holds
<1>2. Held' = Holds("gpio")' + Holds("usbwq")' + Holds("main")'
  BY DEF Held
<1>3. CASE c = "gpio"
  BY <1>1, <1>2, <1>3 DEF Held, Context
<1>4. CASE c = "usbwq"
  BY <1>1, <1>2, <1>4 DEF Held, Context
<1>5. CASE c = "main"
  BY <1>1, <1>2, <1>5 DEF Held, Context
<1> QED BY <1>3, <1>4, <1>5 DEF Context

-----------------------------------------------------------------------------
LEMMA InitIInv == EvtInit => IInv
<1> SUFFICES ASSUME EvtInit PROVE IInv
  OBVIOUS
<1>1. TypeOK
  BY BlocksAssumption DEF EvtInit, TypeOK
<1>2. PoolAccounting
  BY DEF EvtInit, PoolAccounting, Held, Holds, Holding, Context
<1>3. NewShape /\ MainShape
  BY DEF EvtInit, NewShape, MainShape, Context
<1> QED BY <1>1, <1>2, <1>3 DEF IInv

(* One lemma per step of raising an event. *)
LEMMA AllocIInv ==
  ASSUME IInv, NEW c \in Context, NEW e \in Event, Alloc(c, e),
         c = "main" => mainAt = "handle" /\ mainAt' = "raise",
         c # "main" => mainAt' = mainAt
  PROVE  IInv'
<1> USE DEF IInv
<1> DEFINE n == IF used < Blocks THEN 1 ELSE 0
           s == IF used < Blocks THEN "put" ELSE "flush"
<1>1. /\ used' = used + n /\ step' = [step EXCEPT ![c] = s]
      /\ step[c] = "none" /\ new' = [new EXCEPT ![c] = e]
      /\ UNCHANGED <<fifo, leaked, evtSem, cur>>
  BY BlocksAssumption, Counts DEF Alloc, At, Goto, TypeOK
<1>2. /\ used + n \in 0 .. Blocks /\ n \in {0, 1} /\ s \in {"put", "flush"}
      /\ n = IF s \in Holding THEN 1 ELSE 0
  BY BlocksAssumption DEF TypeOK, Holding
<1> HIDE DEF n, s
<1>3. TypeOK'
  BY <1>1, <1>2 DEF TypeOK
<1>4. PoolAccounting'
  <2>1. Held' = Held + n
    <3>1. /\ Holds(c) = 0 /\ Holds(c)' = n
          /\ \A d \in Context : d # c => Holds(d)' = Holds(d)
      BY <1>1, <1>2 DEF Holds, Holding, TypeOK
    <3> QED BY <3>1, HeldStep, Counts
  <2> QED BY <1>1, <1>2, <2>1, Counts DEF PoolAccounting
<1>5. NewShape'
  BY <1>1, <1>2 DEF TypeOK, NewShape
<1>6. MainShape'
  BY <1>1, <1>2 DEF TypeOK, MainShape, Context
<1> QED BY <1>3, <1>4, <1>5, <1>6

LEMMA PutIInv ==
  ASSUME IInv, NEW c \in Context, Put(c)
  PROVE  IInv'
<1> USE DEF IInv, Put, At, Goto
<1>1. new[c] \in Event
  BY DEF NewShape
<1>2. /\ fifo' \in Seq(Event) /\ Len(fifo') = Len(fifo) + 1
  BY <1>1, AppendLen DEF TypeOK
<1>3. TypeOK'
  BY <1>2 DEF TypeOK
<1>4. PoolAccounting'
  <2>1. Held' = Held - 1
    <3>1. /\ Holds(c) = 1 /\ Holds(c)' = 0
          /\ \A d \in Context : d # c => Holds(d)' = Holds(d)
      BY DEF Holds, Holding, TypeOK
    <3> QED BY <3>1, HeldStep, Counts
  <2> QED BY <1>2, <2>1, Counts DEF PoolAccounting
<1>5. NewShape' /\ MainShape'
  BY <1>1 DEF TypeOK, NewShape, MainShape
<1> QED BY <1>3, <1>4, <1>5

LEMMA GiveIInv ==
  ASSUME IInv, NEW c \in Context, Give(c)
  PROVE  IInv'
<1> USE DEF IInv, Give, At, Goto
<1>1. TypeOK'
  BY DEF TypeOK
<1>2. PoolAccounting'
  <2>1. Held' = Held
    <3>1. /\ Holds(c) = 0 /\ Holds(c)' = 0
          /\ \A d \in Context : d # c => Holds(d)' = Holds(d)
      BY DEF Holds, Holding, TypeOK
    <3> QED BY <3>1, HeldStep, Counts
  <2> QED BY <2>1, Counts DEF PoolAccounting
<1>3. NewShape' /\ MainShape'
  BY DEF TypeOK, NewShape, MainShape, Context
<1> QED BY <1>1, <1>2, <1>3

LEMMA FlushIInv ==
  ASSUME IInv, NEW c \in Context,
         FlushGet(c) \/ FlushFree(c) \/ FlushEnd(c) \/ Retry(c)
  PROVE  IInv'
<1> USE DEF IInv, At, Goto
<1>1. CASE FlushGet(c)
  <2>1. /\ fifo' \in Seq(Event) /\ Len(fifo') = Len(fifo) - 1
    BY <1>1, HeadTail DEF FlushGet, TypeOK
  <2>2. TypeOK'
    BY <1>1, <2>1 DEF FlushGet, TypeOK
  <2>3. Held' = Held + 1
    <3>1. /\ Holds(c) = 0 /\ Holds(c)' = 1
          /\ \A d \in Context : d # c => Holds(d)' = Holds(d)
      BY <1>1 DEF FlushGet, Holds, Holding, TypeOK
    <3> QED BY <3>1, HeldStep, Counts
  <2>4. PoolAccounting'
    BY <1>1, <2>1, <2>3, Counts DEF FlushGet, PoolAccounting
  <2>5. NewShape' /\ MainShape'
    BY <1>1 DEF FlushGet, TypeOK, NewShape, MainShape
  <2> QED BY <2>2, <2>4, <2>5
<1>2. CASE FlushFree(c)
  <2>1. Held' = Held - 1 /\ Held >= 1
    <3>1. /\ Holds(c) = 1 /\ Holds(c)' = 0
          /\ \A d \in Context : d # c => Holds(d)' = Holds(d)
      BY <1>2 DEF FlushFree, Holds, Holding, TypeOK
    <3> QED BY <3>1, HeldStep, Counts
  <2>2. used >= 1 /\ used' = used - 1
    BY <1>2, <2>1, Counts DEF FlushFree, PoolAccounting
  <2>3. used' \in 0 .. Blocks
    BY <2>2, BlocksAssumption DEF TypeOK
  <2>4. TypeOK'
    BY <1>2, <2>3, SMTT(60) DEF FlushFree, TypeOK
  <2>5. PoolAccounting'
    BY <1>2, <2>1, <2>2, Counts, SMTT(60) DEF FlushFree, PoolAccounting
  <2>6. NewShape' /\ MainShape'
    BY <1>2 DEF FlushFree, TypeOK, NewShape, MainShape
  <2> QED BY <2>4, <2>5, <2>6
<1>3. CASE FlushEnd(c)
  <2>1. TypeOK' /\ NewShape' /\ MainShape'
    BY <1>3 DEF FlushEnd, TypeOK, NewShape, MainShape
  <2>2. Held' = Held
    <3>1. /\ Holds(c) = 0 /\ Holds(c)' = 0
          /\ \A d \in Context : d # c => Holds(d)' = Holds(d)
      BY <1>3 DEF FlushEnd, Holds, Holding, TypeOK
    <3> QED BY <3>1, HeldStep, Counts
  <2>3. PoolAccounting'
    BY <1>3, <2>2, Counts DEF FlushEnd, PoolAccounting
  <2> QED BY <2>1, <2>3
<1>4. CASE Retry(c)
  <2> DEFINE n == IF used < Blocks THEN 1 ELSE 0
  <2>1. /\ used' = used + n /\ leaked' = leaked + n
        /\ step[c] = "retry" /\ step' = [step EXCEPT ![c] = "null"]
        /\ UNCHANGED <<fifo, evtSem, new, mainAt, cur>>
    BY <1>4, BlocksAssumption, Counts DEF Retry
  <2>2. used + n \in 0 .. Blocks /\ leaked + n \in Nat /\ n \in {0, 1}
    BY BlocksAssumption DEF TypeOK
  <2> HIDE DEF n
  <2>3. TypeOK'
    BY <2>1, <2>2 DEF TypeOK
  <2>4. Held' = Held
    <3>1. /\ Holds(c) = 0 /\ Holds(c)' = 0
          /\ \A d \in Context : d # c => Holds(d)' = Holds(d)
      BY <2>1 DEF Holds, Holding, TypeOK
    <3> QED BY <3>1, HeldStep, Counts
  <2>5. PoolAccounting'
    BY <2>1, <2>2, <2>4, Counts, SMTT(60) DEF PoolAccounting
  <2>6. NewShape' /\ MainShape'
    BY <2>1 DEF TypeOK, NewShape, MainShape
  <2> QED BY <2>3, <2>5, <2>6
<1> QED BY <1>1, <1>2, <1>3, <1>4

(* The steps of main that raise nothing. *)
LEMMA MainIInv ==
  ASSUME IInv, Boot \/ TakeEvt \/ Get \/ HandlerEnds \/ Free
  PROVE  IInv'
<1> USE DEF IInv, MainAt, At
<1>1. UNCHANGED <<leaked, step, new>> /\ Held' = Held
  BY DEF Boot, TakeEvt, Get, HandlerEnds, Free, Held, Holds
<1>2. CASE Boot \/ TakeEvt \/ HandlerEnds \/ (Get /\ fifo = <<>>)
  <2>1. /\ UNCHANGED <<fifo, used, cur>> /\ evtSem' \in {0, 1}
        /\ step["main"] = "none"
        /\ \/ cur = NoEvent /\ mainAt' \in {"wait", "get"}
           \/ cur # NoEvent /\ mainAt' = "free"
    BY <1>2 DEF Boot, TakeEvt, HandlerEnds, Get, TypeOK, MainShape
  <2>2. TypeOK' /\ NewShape' /\ MainShape'
    BY <1>1, <2>1 DEF TypeOK, NewShape, MainShape
  <2> QED BY <1>1, <2>1, <2>2 DEF PoolAccounting
<1>3. CASE Get /\ fifo # <<>>
  <2>1. /\ cur' = Head(fifo) /\ fifo' = Tail(fifo) /\ mainAt' = "handle"
        /\ cur = NoEvent /\ step["main"] = "none" /\ UNCHANGED <<used, evtSem>>
    BY <1>3 DEF Get, MainShape
  <2>2. /\ cur' \in Event /\ cur' # NoEvent /\ fifo' \in Seq(Event)
        /\ Len(fifo') = Len(fifo) - 1
    BY <1>3, <2>1, HeadTail, EventFacts DEF TypeOK
  <2>3. TypeOK' /\ NewShape' /\ MainShape'
    BY <1>1, <2>1, <2>2 DEF TypeOK, NewShape, MainShape
  <2>4. PoolAccounting'
    BY <1>1, <2>1, <2>2, Counts DEF PoolAccounting
  <2> QED BY <2>3, <2>4
<1>4. CASE Free
  <2>1. /\ cur # NoEvent /\ cur' = NoEvent /\ mainAt' = "get"
        /\ used' = used - 1 /\ step["main"] = "none"
        /\ UNCHANGED <<fifo, evtSem>>
    BY <1>4 DEF Free, MainShape
  <2>2. used >= 1
    BY <2>1, Counts DEF PoolAccounting
  <2>3. used' \in 0 .. Blocks
    BY <2>1, <2>2, BlocksAssumption DEF TypeOK
  <2>4. TypeOK' /\ NewShape' /\ MainShape'
    BY <1>1, <2>1, <2>3 DEF TypeOK, NewShape, MainShape
  <2>5. PoolAccounting'
    BY <1>1, <2>1, <2>2, Counts DEF PoolAccounting
  <2> QED BY <2>4, <2>5
<1> QED BY <1>2, <1>3, <1>4

LEMMA NextIInv == IInv /\ [EvtNext]_evtVars => IInv'
<1> SUFFICES ASSUME IInv, [EvtNext]_evtVars PROVE IInv'
  OBVIOUS
<1>1. ASSUME NEW e \in Stimuli, Interrupt(e) PROVE IInv'
  <2> DEFINE c == IF e \in Buttons THEN "gpio" ELSE "usbwq"
  <2>1. /\ c \in Context /\ c # "main" /\ e \in Event
    BY EventFacts DEF Context
  <2>2. Alloc(c, e) /\ mainAt' = mainAt
    BY <1>1 DEF Interrupt
  <2> HIDE DEF c
  <2> QED BY <2>1, <2>2, AllocIInv
<1>2. ASSUME NEW c \in Context, RaiseStep(c) PROVE IInv'
  BY <1>2, PutIInv, GiveIInv, FlushIInv DEF RaiseStep
<1>3. CASE Boot \/ TakeEvt \/ Get \/ HandlerEnds \/ Free
  BY <1>3, MainIInv
<1>4. ASSUME NEW f \in Hid, FollowUp(f) PROVE IInv'
  <2>1. /\ f \in Event /\ "main" \in Context /\ Alloc("main", f)
        /\ mainAt = "handle" /\ mainAt' = "raise"
    BY <1>4, EventFacts DEF FollowUp, MainAt, Context
  <2> QED BY <2>1, AllocIInv
<1>5. CASE UNCHANGED evtVars
  BY <1>5 DEF evtVars, IInv, TypeOK, PoolAccounting, Held, Holds, NewShape,
                 MainShape
<1> QED BY <1>1, <1>2, <1>3, <1>4, <1>5 DEF EvtNext, Handle

THEOREM InductiveInvariant == EvtSpec => []IInv
BY InitIInv, NextIInv, PTL DEF EvtSpec

(***************************************************************************)
(* The variables keep their types; in particular the pool never gives more *)
(* than its Blocks blocks and never takes back more than it gave.          *)
(***************************************************************************)
THEOREM TypeCorrect == EvtSpec => []TypeOK
BY InductiveInvariant, PTL DEF IInv

(***************************************************************************)
(* Every block of the pool is accounted for: app_evt_alloc, app_evt_flush  *)
(* and app_evt_free neither lose nor double one outside the retry.         *)
(***************************************************************************)
THEOREM PoolAccounted == EvtSpec => []PoolAccounting
BY InductiveInvariant, PTL DEF IInv

-----------------------------------------------------------------------------
(***************************************************************************)
(* main never sleeps on a non-empty FIFO without a wake-up on its way.     *)
(***************************************************************************)
THEOREM WakeupNotLost == EvtSpec => []NoLostWakeup
<1>1. EvtInit => NoLostWakeup
  BY DEF EvtInit, NoLostWakeup
<1>2. TypeOK /\ NoLostWakeup /\ [EvtNext]_evtVars => NoLostWakeup'
  <2> SUFFICES ASSUME TypeOK, NoLostWakeup, [EvtNext]_evtVars
               PROVE  NoLostWakeup'
    OBVIOUS
  <2> USE DEF NoLostWakeup, At, Goto
  <2>1. ASSUME NEW c \in Context, NEW e, Alloc(c, e), 
               mainAt' = mainAt \/ mainAt' = "raise"
        PROVE  NoLostWakeup'
    BY <2>1 DEF Alloc, TypeOK
  <2>2. ASSUME NEW e \in Stimuli, Interrupt(e) PROVE NoLostWakeup'
    <3> DEFINE c == IF e \in Buttons THEN "gpio" ELSE "usbwq"
    <3>1. c \in Context /\ Alloc(c, e) /\ mainAt' = mainAt
      BY <2>2 DEF Interrupt, Context
    <3> HIDE DEF c
    <3> QED BY <3>1, <2>1
  <2>3. ASSUME NEW f \in Hid, FollowUp(f) PROVE NoLostWakeup'
    BY <2>3, <2>1 DEF FollowUp, Context
  <2>4. ASSUME NEW c \in Context, RaiseStep(c) PROVE NoLostWakeup'
    <3>1. CASE Put(c)
      BY <3>1, <2>4 DEF Put, TypeOK
    <3>2. CASE Give(c)
      BY <3>2 DEF Give
    <3>3. CASE FlushGet(c)
      BY <3>3, <2>4 DEF FlushGet, TypeOK
    <3>4. CASE FlushFree(c) \/ FlushEnd(c) \/ Retry(c)
      BY <3>4, <2>4 DEF FlushFree, FlushEnd, Retry, TypeOK
    <3> QED BY <2>4, <3>1, <3>2, <3>3, <3>4 DEF RaiseStep
  <2>5. CASE Boot \/ TakeEvt \/ Get \/ HandlerEnds \/ Free
    BY <2>5 DEF Boot, TakeEvt, Get, HandlerEnds, Free, MainAt
  <2>6. CASE UNCHANGED evtVars
    BY <2>6 DEF evtVars
  <2> QED BY <2>2, <2>3, <2>4, <2>5, <2>6 DEF EvtNext, Handle
<1> QED BY <1>1, <1>2, TypeCorrect, PTL DEF EvtSpec

-----------------------------------------------------------------------------
(***************************************************************************)
(* The pool, the FIFO and the semaphore implement EventQueue: events are   *)
(* handled one at a time in the order they were queued, and none is        *)
(* dropped unless the application has run out of memory for good.          *)
(***************************************************************************)
THEOREM ImplementsQueue == EvtSpec => QueueSpec
<1> USE DEF Queue!QInit, Queue!QNext, Queue!Raise, Queue!Start, Queue!Finish,
            Queue!Doom, Queue!Forget, Queue!qvars
<1>1. EvtInit => Queue!QInit
  BY DEF EvtInit, Doomed, Context
<1>2. IInv /\ [EvtNext]_evtVars => [Queue!QNext]_Queue!qvars
  <2> SUFFICES ASSUME IInv, [EvtNext]_evtVars
               PROVE  [Queue!QNext]_Queue!qvars
    OBVIOUS
  <2> USE DEF IInv, At, Goto
  <2>1. ASSUME NEW c \in Context, NEW e, Alloc(c, e)
        PROVE  /\ UNCHANGED <<fifo, cur>>
               /\ Doomed' = TRUE \/ Doomed' = Doomed
    BY <2>1 DEF Alloc, Doomed, TypeOK
  <2>2. ASSUME NEW e \in Stimuli, Interrupt(e)
        PROVE  [Queue!QNext]_Queue!qvars
    <3> DEFINE c == IF e \in Buttons THEN "gpio" ELSE "usbwq"
    <3>1. c \in Context /\ Alloc(c, e)
      BY <2>2 DEF Interrupt, Context
    <3> HIDE DEF c
    <3> QED BY <3>1, <2>1
  <2>3. ASSUME NEW f \in Hid, FollowUp(f)
        PROVE  [Queue!QNext]_Queue!qvars
    BY <2>3, <2>1 DEF FollowUp, Context
  <2>4. ASSUME NEW c \in Context, RaiseStep(c)
        PROVE  [Queue!QNext]_Queue!qvars
    <3>1. CASE Put(c)
      <4>1. new[c] \in Event /\ fifo' = Append(fifo, new[c]) /\ cur' = cur
        BY <3>1 DEF Put, NewShape
      <4>2. Doomed' = Doomed
        BY <3>1 DEF Put, Doomed, TypeOK
      <4> QED BY <4>1, <4>2
    <3>2. CASE Give(c)
      BY <3>2 DEF Give, Doomed, TypeOK
    <3>3. CASE FlushGet(c)
      <4>1. Doomed /\ Doomed'
        BY <3>3 DEF FlushGet, Doomed, TypeOK
      <4> QED BY <3>3, <4>1 DEF FlushGet
    <3>4. CASE FlushFree(c) \/ FlushEnd(c) \/ Retry(c)
      <4>1. Doomed /\ Doomed' /\ UNCHANGED <<fifo, cur>>
        BY <3>4 DEF FlushFree, FlushEnd, Retry, Doomed, TypeOK
      <4> QED BY <4>1
    <3> QED BY <2>4, <3>1, <3>2, <3>3, <3>4 DEF RaiseStep
  <2>5. CASE Boot \/ TakeEvt \/ HandlerEnds
    BY <2>5 DEF Boot, TakeEvt, HandlerEnds, Doomed
  <2>6. CASE Get
    <3>1. cur = NoEvent /\ Doomed' = Doomed
      BY <2>6 DEF Get, MainAt, MainShape, Doomed
    <3> QED BY <2>6, <3>1 DEF Get
  <2>7. CASE Free
    <3>1. cur # NoEvent /\ Doomed' = Doomed
      BY <2>7 DEF Free, MainAt, MainShape, Doomed
    <3> QED BY <2>7, <3>1 DEF Free
  <2>8. CASE UNCHANGED evtVars
    BY <2>8 DEF evtVars, Doomed
  <2> QED BY <2>2, <2>3, <2>4, <2>5, <2>6, <2>7, <2>8 DEF EvtNext, Handle
<1> QED BY <1>1, <1>2, InductiveInvariant, PTL DEF EvtSpec, QueueSpec, Queue!QSpec
=============================================================================

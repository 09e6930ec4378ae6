----------------------------- MODULE EventQueue -----------------------------
(***************************************************************************)
(* What the event FIFO of usb_hid_cdc promises to the two kinds of code    *)
(* that use it: events are handled one at a time, in the order in which    *)
(* they were queued, and no event is dropped while the application can     *)
(* still run.  HidEvents shows how the pool, the FIFO and the semaphore    *)
(* of the source implement it.                                             *)
(***************************************************************************)
EXTENDS Sequences

CONSTANTS Event,     \* the kinds of event
          NoEvent    \* "main is handling nothing"

VARIABLES pending,   \* events queued and not yet taken, oldest first
          running,   \* the event main is handling
          doomed     \* the application has run out of memory and will stop

qvars == <<pending, running, doomed>>

QInit == pending = <<>> /\ running = NoEvent /\ doomed = FALSE

Raise == /\ \E e \in Event : pending' = Append(pending, e)
         /\ UNCHANGED <<running, doomed>>

Start == /\ pending # <<>> /\ running = NoEvent
         /\ running' = Head(pending)
         /\ pending' = Tail(pending)
         /\ UNCHANGED doomed

Finish == /\ running # NoEvent
          /\ running' = NoEvent
          /\ UNCHANGED <<pending, doomed>>

Doom == doomed' = TRUE /\ UNCHANGED <<pending, running>>

\* Only an application that is about to stop forgets an event.
Forget == /\ doomed /\ pending # <<>>
          /\ pending' = Tail(pending)
          /\ UNCHANGED <<running, doomed>>

QNext == Raise \/ Start \/ Finish \/ Doom \/ Forget

QSpec == QInit /\ [][QNext]_qvars
=============================================================================

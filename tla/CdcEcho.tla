------------------------------ MODULE CdcEcho ------------------------------
(***************************************************************************)
(* 013.usb/usb_cdc_acm: every byte the host sends is sent back.            *)
(*                                                                         *)
(* interrupt_handler moves bytes from the driver to a ring buffer and from *)
(* there to the driver again, at most Chunk of them at a time.  When the   *)
(* ring is full it disables the receive interrupt and remembers so in      *)
(* rx_throttled; the transmit half lifts the throttle.                     *)
(*                                                                         *)
(* The handler is the only code that runs once main has ended, so there is *)
(* one program counter; bytes come and go between any two of its steps.  The   *)
(* driver is external: it holds bytes in both directions, takes as many as *)
(* it has room for, and calls the handler while an enabled interrupt is    *)
(* pending.  It is ready to transmit when Room bytes are free.             *)
(***************************************************************************)
EXTENDS Naturals, Sequences

CONSTANTS Byte,      \* the values of a byte
          RingSize,  \* RING_BUF_SIZE
          Chunk,     \* sizeof(buffer)
          TxFifo,    \* bytes the driver holds for the host
          Room,      \* free bytes when the driver says it is ready
          MaxSent    \* bytes the host sends in all

ASSUME EchoAssumption == /\ RingSize \in Nat \ {0} /\ Chunk \in Nat \ {0}
                         /\ TxFifo \in Nat \ {0} /\ Room \in 1 .. TxFifo
                         /\ MaxSent \in Nat

VARIABLES rx,        \* bytes received by the driver and not yet read
          ring,      \* ringbuf
          tx,        \* bytes in the driver on their way to the host
          txReady,   \* the driver asks for bytes
          rxIrq,     \* the receive interrupt is enabled
          txIrq,     \* the transmit interrupt is enabled
          throttled, \* rx_throttled
          at,        \* where interrupt_handler is
          hold,      \* the local array buffer of either half
          sent,      \* history: what the host sent
          echoed,    \* history: what the host got back
          lost       \* history: bytes dropped with "Drop %d bytes"

vars == <<rx, ring, tx, txReady, rxIrq, txIrq, throttled, at, hold, sent, echoed, lost>>

Init == /\ rx = <<>> /\ ring = <<>> /\ tx = <<>> /\ txReady = TRUE
        /\ rxIrq = FALSE /\ txIrq = FALSE /\ throttled = FALSE
        /\ at = "boot" /\ hold = <<>>
        /\ sent = <<>> /\ echoed = <<>> /\ lost = 0

Least(a, b) == IF a < b THEN a ELSE b
First(s, n) == SubSeq(s, 1, n)
Rest(s, n)  == SubSeq(s, n + 1, Len(s))

-----------------------------------------------------------------------------
HostSends(b) ==
  /\ Len(sent) < MaxSent
  /\ sent' = Append(sent, b) /\ rx' = Append(rx, b)
  /\ UNCHANGED <<ring, tx, txReady, rxIrq, txIrq, throttled, at, hold, echoed, lost>>

HostReads ==
  /\ tx # <<>>
  /\ \E n \in 1 .. Len(tx) : echoed' = echoed \o First(tx, n) /\ tx' = Rest(tx, n)
  /\ txReady' = (txReady \/ TxFifo - Len(tx') >= Room)
  /\ UNCHANGED <<rx, ring, rxIrq, txIrq, throttled, at, hold, sent, lost>>

RxReady == rxIrq /\ rx # <<>>
TxReady == txIrq /\ txReady
Pending == RxReady \/ TxReady

\* The host has set DTR: main installs the handler and ends.
main ==
  /\ at = "boot"
  /\ rxIrq' = TRUE
  /\ at' = "idle"
  /\ UNCHANGED <<rx, ring, tx, txReady, txIrq, throttled, hold, sent, echoed, lost>>

-----------------------------------------------------------------------------
(* interrupt_handler.                                                      *)

\* while (uart_irq_update(dev) && uart_irq_is_pending(dev))
Loop ==
  /\ at = "idle" /\ Pending
  /\ at' = "rx"
  /\ UNCHANGED <<rx, ring, tx, txReady, rxIrq, txIrq, throttled, hold, sent, echoed, lost>>

Space == RingSize - Len(ring)

NothingToRead ==
  /\ at = "rx" /\ (throttled \/ ~RxReady)
  /\ at' = "tx"
  /\ UNCHANGED <<rx, ring, tx, txReady, rxIrq, txIrq, throttled, hold, sent, echoed, lost>>

\* The ring buffer is full.
Throttle ==
  /\ at = "rx" /\ ~throttled /\ RxReady /\ Space = 0
  /\ rxIrq' = FALSE /\ throttled' = TRUE
  /\ at' = "idle"
  /\ UNCHANGED <<rx, ring, tx, txReady, txIrq, hold, sent, echoed, lost>>

\* uart_fifo_read
Read ==
  /\ at = "rx" /\ ~throttled /\ RxReady /\ Space > 0
  /\ LET n == Least(Len(rx), Least(Space, Chunk))
     IN  hold' = First(rx, n) /\ rx' = Rest(rx, n)
  /\ at' = "put"
  /\ UNCHANGED <<ring, tx, txReady, rxIrq, txIrq, throttled, sent, echoed, lost>>

\* Put without uart_irq_tx_enable.
PutQuietly ==
  /\ at = "put"
  /\ LET n == Least(Len(hold), Space)
     IN  /\ ring' = ring \o First(hold, n)
         /\ lost' = lost + (Len(hold) - n)
  /\ hold' = <<>>
  /\ at' = "tx"
  /\ UNCHANGED <<rx, tx, txReady, rxIrq, txIrq, throttled, sent, echoed>>

\* ring_buf_put takes what fits.
Put ==
  /\ at = "put"
  /\ LET n == Least(Len(hold), Space)
     IN  /\ ring' = ring \o First(hold, n)
         /\ lost' = lost + (Len(hold) - n)
         /\ txIrq' = (txIrq \/ n > 0)
  /\ hold' = <<>>
  /\ at' = "tx"
  /\ UNCHANGED <<rx, tx, txReady, rxIrq, throttled, sent, echoed>>

NothingToWrite ==
  /\ at = "tx" /\ ~TxReady
  /\ at' = "idle"
  /\ UNCHANGED <<rx, ring, tx, txReady, rxIrq, txIrq, throttled, hold, sent, echoed, lost>>

RingEmpty ==
  /\ at = "tx" /\ TxReady /\ ring = <<>>
  /\ txIrq' = FALSE
  /\ at' = "idle"
  /\ UNCHANGED <<rx, ring, tx, txReady, rxIrq, throttled, hold, sent, echoed, lost>>

\* Take of the newest bytes, and Take that forgets the throttle.
TakeNewest ==
  /\ at = "tx" /\ TxReady /\ ring # <<>>
  /\ LET n == Len(ring) - Least(Len(ring), Chunk)
     IN  hold' = Rest(ring, n) /\ ring' = First(ring, n)
  /\ rxIrq' = (rxIrq \/ throttled)
  /\ throttled' = FALSE
  /\ at' = "fill"
  /\ UNCHANGED <<rx, tx, txReady, txIrq, sent, echoed, lost>>

TakeOnly ==
  /\ at = "tx" /\ TxReady /\ ring # <<>>
  /\ LET n == Least(Len(ring), Chunk)
     IN  hold' = First(ring, n) /\ ring' = Rest(ring, n)
  /\ at' = "fill"
  /\ UNCHANGED <<rx, tx, txReady, rxIrq, txIrq, throttled, sent, echoed, lost>>

\* ring_buf_get, and the throttle is lifted.
Take ==
  /\ at = "tx" /\ TxReady /\ ring # <<>>
  /\ LET n == Least(Len(ring), Chunk)
     IN  hold' = First(ring, n) /\ ring' = Rest(ring, n)
  /\ rxIrq' = (rxIrq \/ throttled)
  /\ throttled' = FALSE
  /\ at' = "fill"
  /\ UNCHANGED <<rx, tx, txReady, txIrq, sent, echoed, lost>>

\* uart_fifo_fill takes what fits, the rest is dropped.
Fill ==
  /\ at = "fill"
  /\ LET n == Least(Len(hold), TxFifo - Len(tx))
     IN  /\ tx' = tx \o First(hold, n)
         /\ lost' = lost + (Len(hold) - n)
  /\ txReady' = FALSE
  /\ hold' = <<>>
  /\ at' = "idle"
  /\ UNCHANGED <<rx, ring, rxIrq, txIrq, throttled, sent, echoed>>

interrupt_handler == \/ Loop \/ NothingToRead \/ Throttle \/ Read \/ Put
                     \/ NothingToWrite \/ RingEmpty \/ Take \/ Fill

Next == (\E b \in Byte : HostSends(b)) \/ HostReads \/ main \/ interrupt_handler

(***************************************************************************)
(* Fairness: the handler is called while an interrupt is pending and is    *)
(* not stopped in the middle, and the host opens the port and reads what   *)
(* is there.                                                               *)
(***************************************************************************)
Spec == Init /\ [][Next]_vars
FairSpec == /\ Spec /\ WF_vars(main)
            /\ WF_vars(interrupt_handler) /\ WF_vars(HostReads)

-----------------------------------------------------------------------------
EchoTypeOK ==
  /\ rx \in Seq(Byte) /\ ring \in Seq(Byte) /\ tx \in Seq(Byte) /\ hold \in Seq(Byte)
  /\ sent \in Seq(Byte) /\ echoed \in Seq(Byte) /\ lost \in Nat
  /\ Len(ring) <= RingSize /\ Len(tx) <= TxFifo /\ Len(hold) <= Chunk
  /\ txReady \in BOOLEAN /\ rxIrq \in BOOLEAN /\ txIrq \in BOOLEAN
  /\ throttled \in BOOLEAN
  /\ at \in {"boot", "idle", "rx", "put", "tx", "fill"}
  /\ at \notin {"put", "fill"} => hold = <<>>

(***************************************************************************)
(* The throttle has an end: it is on exactly while the receive interrupt   *)
(* is off again, and then bytes are waiting in the ring and the transmit   *)
(* interrupt, which lifts it, is on.                                       *)
(***************************************************************************)
ThrottleLifts == /\ throttled = (~rxIrq /\ at # "boot")
                 /\ throttled => ring # <<>>
                 /\ ring # <<>> => txIrq

(***************************************************************************)
(* A byte is dropped by uart_fifo_fill only: ring_buf_put has always room  *)
(* for what was read, and a driver that is ready for a whole chunk         *)
(* (Room >= Chunk) drops nothing.                                          *)
(***************************************************************************)
Lossless == /\ at = "put" => Len(hold) <= Space
            /\ Room >= Chunk => lost = 0

\* Where the bytes are that the host has sent and not got back, oldest first.
Putting == IF at = "put" THEN hold ELSE <<>>
Filling == IF at = "fill" THEN hold ELSE <<>>
Path    == echoed \o (tx \o (Filling \o (ring \o (Putting \o rx))))

(***************************************************************************)
(* Unless something was dropped, every byte is at exactly one place of the *)
(* path and in the order in which it was sent.                             *)
(***************************************************************************)
InOrder == lost = 0 => Path = sent

(***************************************************************************)
(* With a driver that is ready for a whole chunk the sample is the channel *)
(* its README promises.                                                    *)
(***************************************************************************)
Channel == INSTANCE ByteChannel WITH in <- sent, out <- echoed
EchoesBack == Channel!ChannelSpec

(***************************************************************************)
(* Nothing is left behind, neither by the throttle nor by an interrupt     *)
(* that was disabled too early: all that was not dropped is echoed.        *)
(***************************************************************************)
AllEchoed == <>[](Len(echoed) + lost = Len(sent) /\ at = "idle" /\ ~throttled)
=============================================================================

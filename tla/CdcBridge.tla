------------------------------ MODULE CdcBridge ------------------------------
(***************************************************************************)
(* 013.usb/usb_cdc_acm_composite: two serial ports, each sending on what   *)
(* the other one receives.                                                 *)
(*                                                                         *)
(* One handler serves both ports.  Called for port d it puts what d has    *)
(* received in the ring buffer peers[d].rb and enables the transmit        *)
(* interrupt of the other port, whose handler empties that ring.  There is *)
(* no throttle: what does not fit in the ring, or in the driver, is gone.  *)
(*                                                                         *)
(* The driver is external and calls the handler from one thread, for one   *)
(* port at a time; bytes come and go between any two of its steps.         *)
(***************************************************************************)
EXTENDS Naturals, Sequences

CONSTANTS Byte,      \* the values of a byte
          RingSize,  \* RING_BUF_SIZE
          Chunk,     \* sizeof(buf)
          TxFifo,    \* bytes the driver holds for the host
          MaxSent    \* bytes the host sends to each port

ASSUME BridgeAssumption == /\ RingSize \in Nat \ {0} /\ Chunk \in Nat \ {0}
                           /\ TxFifo \in Nat \ {0} /\ MaxSent \in Nat

Dev == {0, 1}
Peer(d) == 1 - d

VARIABLES rx,        \* bytes received by the driver and not yet read
          rb,        \* the ring buffer peers[d].rb: what port d has received
          tx,        \* bytes in the driver on their way to the host
          txReady,   \* the driver asks for bytes
          rxIrq,     \* the receive interrupt is enabled
          txIrq,     \* the transmit interrupt is enabled
          dev,       \* the port the handler was called for
          at,        \* where the handler is
          enabled,   \* how many ports main has enabled
          sent,      \* history: what the host sent to each port
          got,       \* history: what the host got from each port
          lost       \* history: bytes received by each port and dropped

vars == <<rx, rb, tx, txReady, rxIrq, txIrq, dev, at, enabled, sent, got, lost>>

Init == /\ rx = [d \in Dev |-> <<>>] /\ rb = [d \in Dev |-> <<>>]
        /\ tx = [d \in Dev |-> <<>>] /\ txReady = [d \in Dev |-> TRUE]
        /\ rxIrq = [d \in Dev |-> FALSE] /\ txIrq = [d \in Dev |-> FALSE]
        /\ dev = 0 /\ at = "idle" /\ enabled = 0
        /\ sent = [d \in Dev |-> <<>>] /\ got = [d \in Dev |-> <<>>]
        /\ lost = [d \in Dev |-> 0]

Least(a, b) == IF a < b THEN a ELSE b
First(s, n) == SubSeq(s, 1, n)
Rest(s, n)  == SubSeq(s, n + 1, Len(s))

-----------------------------------------------------------------------------
HostSends(d, b) ==
  /\ Len(sent[d]) < MaxSent
  /\ sent' = [sent EXCEPT ![d] = Append(@, b)]
  /\ rx' = [rx EXCEPT ![d] = Append(@, b)]
  /\ UNCHANGED <<rb, tx, txReady, rxIrq, txIrq, dev, at, enabled, got, lost>>

HostReads(d) ==
  /\ tx[d] # <<>>
  /\ got' = [got EXCEPT ![d] = @ \o tx[d]]
  /\ tx' = [tx EXCEPT ![d] = <<>>]
  /\ txReady' = [txReady EXCEPT ![d] = TRUE]
  /\ UNCHANGED <<rx, rb, rxIrq, txIrq, dev, at, enabled, sent, lost>>

RxReady(d) == rxIrq[d] /\ rx[d] # <<>>
TxReady(d) == txIrq[d] /\ txReady[d]
Pending(d) == RxReady(d) \/ TxReady(d)

-----------------------------------------------------------------------------
\* Both hosts have set DTR and the peers are wired: main enables port 0,
\* whose handler may then run, and port 1.
main ==
  /\ enabled < 2
  /\ rxIrq' = [rxIrq EXCEPT ![enabled] = TRUE]
  /\ enabled' = enabled + 1
  /\ UNCHANGED <<rx, rb, tx, txReady, txIrq, dev, at, sent, got, lost>>

\* The driver calls interrupt_handler.
Loop(d) ==
  /\ at = "idle" /\ Pending(d)
  /\ dev' = d
  /\ at' = "rx"
  /\ UNCHANGED <<rx, rb, tx, txReady, rxIrq, txIrq, enabled, sent, got, lost>>

\* Receive into the ring of the other port; Receive that enables its own
\* transmit interrupt; Receive that keeps what does not fit.
ReceiveMixedUp ==
  /\ at = "rx"
  /\ IF RxReady(dev)
     THEN LET p == Peer(dev)
              n == Least(Len(rx[dev]), Chunk)
              wrote == Least(n, RingSize - Len(rb[p]))
          IN  /\ rx' = [rx EXCEPT ![dev] = Rest(@, n)]
              /\ rb' = [rb EXCEPT ![p] = @ \o First(rx[dev], wrote)]
              /\ lost' = [lost EXCEPT ![dev] = @ + (n - wrote)]
              /\ txIrq' = [txIrq EXCEPT ![p] = @ \/ wrote > 0]
     ELSE UNCHANGED <<rx, rb, lost, txIrq>>
  /\ at' = "tx"
  /\ UNCHANGED <<tx, txReady, rxIrq, dev, enabled, sent, got>>

ReceiveWakesSelf ==
  /\ at = "rx"
  /\ IF RxReady(dev)
     THEN LET n == Least(Len(rx[dev]), Chunk)
              wrote == Least(n, RingSize - Len(rb[dev]))
          IN  /\ rx' = [rx EXCEPT ![dev] = Rest(@, n)]
              /\ rb' = [rb EXCEPT ![dev] = @ \o First(rx[dev], wrote)]
              /\ lost' = [lost EXCEPT ![dev] = @ + (n - wrote)]
              /\ txIrq' = [txIrq EXCEPT ![dev] = @ \/ wrote > 0]
     ELSE UNCHANGED <<rx, rb, lost, txIrq>>
  /\ at' = "tx"
  /\ UNCHANGED <<tx, txReady, rxIrq, dev, enabled, sent, got>>

\* uart_fifo_read and ring_buf_put: what does not fit is dropped.
Receive ==
  /\ at = "rx"
  /\ IF RxReady(dev)
     THEN LET n == Least(Len(rx[dev]), Chunk)
              wrote == Least(n, RingSize - Len(rb[dev]))
          IN  /\ rx' = [rx EXCEPT ![dev] = Rest(@, n)]
              /\ rb' = [rb EXCEPT ![dev] = @ \o First(rx[dev], wrote)]
              /\ lost' = [lost EXCEPT ![dev] = @ + (n - wrote)]
              /\ txIrq' = [txIrq EXCEPT ![Peer(dev)] = @ \/ wrote > 0]
     ELSE UNCHANGED <<rx, rb, lost, txIrq>>
  /\ at' = "tx"
  /\ UNCHANGED <<tx, txReady, rxIrq, dev, enabled, sent, got>>

\* ring_buf_get and uart_fifo_fill: again the rest is dropped.
Transmit ==
  /\ at = "tx"
  /\ LET p == Peer(dev)
         len == Least(Len(rb[p]), Chunk)
         wrote == Least(len, TxFifo - Len(tx[dev]))
     IN  \/ /\ ~TxReady(dev)
            /\ UNCHANGED <<rb, tx, txReady, txIrq, lost>>
         \/ /\ TxReady(dev) /\ len = 0
            /\ txIrq' = [txIrq EXCEPT ![dev] = FALSE]
            /\ UNCHANGED <<rb, tx, txReady, lost>>
         \/ /\ TxReady(dev) /\ len > 0
            /\ tx' = [tx EXCEPT ![dev] = @ \o First(rb[p], wrote)]
            /\ txReady' = [txReady EXCEPT ![dev] = FALSE]
            /\ rb' = [rb EXCEPT ![p] = Rest(@, len)]
            /\ lost' = [lost EXCEPT ![p] = @ + (len - wrote)]
            /\ UNCHANGED txIrq
  /\ at' = "idle"
  /\ UNCHANGED <<rx, rxIrq, dev, enabled, sent, got>>

interrupt_handler == (\E d \in Dev : Loop(d)) \/ Receive \/ Transmit

Next == \/ \E d \in Dev : (\E b \in Byte : HostSends(d, b)) \/ HostReads(d)
        \/ main \/ interrupt_handler

(***************************************************************************)
(* Fairness: the handler is called while an interrupt is pending and runs  *)
(* to its end, main enables the ports (the hosts have opened them), and    *)
(* the hosts read.  The driver does not prefer one port for ever.          *)
(***************************************************************************)
Spec == Init /\ [][Next]_vars
FairSpec == /\ Spec /\ WF_vars(main) /\ WF_vars(Receive) /\ WF_vars(Transmit)
            /\ \A d \in Dev : SF_vars(Loop(d)) /\ WF_vars(HostReads(d))

-----------------------------------------------------------------------------
\* What port d has received, on its way out of the other port, oldest first.
Path(d) == got[Peer(d)] \o tx[Peer(d)] \o rb[d] \o rx[d]

(***************************************************************************)
(* The peers are wired crosswise: what a host sends to one port, and       *)
(* nothing else, comes out of the other one, in order until a byte is      *)
(* dropped, and every byte that does not is counted as dropped.  No ring   *)
(* holds more than its memory.                                             *)
(***************************************************************************)
Crosswise ==
  \A d \in Dev : /\ Len(rb[d]) <= RingSize
                 /\ Len(Path(d)) + lost[d] = Len(sent[d])
                 /\ lost[d] = 0 => Path(d) = sent[d]

(***************************************************************************)
(* A ring that holds bytes has the transmit interrupt of the other port,   *)
(* which empties it, enabled: the handler of one port wakes the other.     *)
(***************************************************************************)
PeerIsWoken == \A d \in Dev : rb[d] # <<>> => txIrq[Peer(d)]

(***************************************************************************)
(* All that was sent is delivered or dropped; no byte stays in a ring.     *)
(***************************************************************************)
AllDelivered ==
  \A d \in Dev : <>[](Len(got[Peer(d)]) + lost[d] = Len(sent[d]))
=============================================================================

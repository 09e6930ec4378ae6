--------------------------- MODULE CdcEchoProofs ---------------------------
(***************************************************************************)
(* Proofs about CdcEcho, for every size of the ring, of the chunk and of   *)
(* the driver's buffer, and whatever the host sends and when it reads.     *)
(***************************************************************************)
EXTENDS CdcEcho, Integers, SequenceTheorems, TLAPS

-----------------------------------------------------------------------------
(* Cutting and joining sequences.                                          *)

LEMMA Cut ==
  ASSUME NEW S, NEW s \in Seq(S), NEW n \in 0 .. Len(s)
  PROVE  /\ First(s, n) \in Seq(S) /\ Len(First(s, n)) = n
         /\ Rest(s, n) \in Seq(S) /\ Len(Rest(s, n)) = Len(s) - n
         /\ First(s, n) \o Rest(s, n) = s
<1>1. Len(s) \in Nat /\ \A i \in 1 .. Len(s) : s[i] \in S
  BY LenProperties, ElementOfSeq
<1>2. First(s, n) \in Seq(S) /\ Len(First(s, n)) = n
  <2>1. \A i \in 1 .. n : s[i] \in S
    BY <1>1
  <2> QED BY <1>1, <2>1, SubSeqProperties DEF First
<1>3. Rest(s, n) \in Seq(S) /\ Len(Rest(s, n)) = Len(s) - n
  <2>1. \A i \in n + 1 .. Len(s) : s[i] \in S
    BY <1>1
  <2>2. Rest(s, n) \in Seq(S)
    BY <1>1, <2>1, SubSeqProperties DEF Rest
  <2>3. Len(Rest(s, n)) = IF n + 1 <= Len(s) THEN Len(s) - (n + 1) + 1 ELSE 0
    BY <1>1, <2>1, SubSeqProperties DEF Rest
  <2> QED BY <1>1, <2>2, <2>3
<1>4. First(s, n) \o Rest(s, n) = SubSeq(s, 1, Len(s))
  <2>1. 1 \in 1 .. Len(s) + 1 /\ n \in 1 - 1 .. Len(s) /\ Len(s) \in n .. Len(s)
    BY <1>1
  <2> QED BY <2>1, ConcatAdjacentSubSeq DEF First, Rest
<1> QED BY <1>2, <1>3, <1>4, SubSeqFull

\* \o and Append, kept folded: the provers reason about them by these lemmas.
Join(s, t) == s \o t
Add(s, e)  == Append(s, e)

LEMMA JoinType == ASSUME NEW s \in Seq(Byte), NEW t \in Seq(Byte)
                  PROVE  Join(s, t) \in Seq(Byte)
BY ConcatProperties DEF Join

LEMMA JoinAssociative ==
  ASSUME NEW s \in Seq(Byte), NEW t \in Seq(Byte), NEW u \in Seq(Byte)
  PROVE  Join(Join(s, t), u) = Join(s, Join(t, u))
BY ConcatAssociative DEF Join

LEMMA JoinEmpty == ASSUME NEW s \in Seq(Byte)
                   PROVE  Join(s, <<>>) = s /\ Join(<<>>, s) = s
BY ConcatEmptySeq DEF Join

LEMMA AddType == ASSUME NEW s \in Seq(Byte), NEW e \in Byte
                 PROVE  Add(s, e) \in Seq(Byte)
BY AppendProperties DEF Add

LEMMA AddLast == ASSUME NEW s \in Seq(Byte), NEW t \in Seq(Byte), NEW e \in Byte
                 PROVE  Join(s, Add(t, e)) = Add(Join(s, t), e)
<1>1. <<e>> \in Seq(Byte) /\ s \o t \in Seq(Byte)
  BY ConcatProperties
<1>2. Append(t, e) = t \o <<e>> /\ Append(s \o t, e) = (s \o t) \o <<e>>
  BY <1>1, AppendIsConcat
<1>3. (s \o t) \o <<e>> = s \o (t \o <<e>>)
  BY <1>1, ConcatAssociative
<1> QED BY <1>2, <1>3 DEF Join, Add

LEMMA CutJoin ==
  ASSUME NEW s \in Seq(Byte), NEW n \in 0 .. Len(s)
  PROVE  /\ First(s, n) \in Seq(Byte) /\ Rest(s, n) \in Seq(Byte)
         /\ Join(First(s, n), Rest(s, n)) = s
BY Cut DEF Join

LEMMA Prefix ==
  ASSUME NEW S, NEW s \in Seq(S), NEW t \in Seq(S)
  PROVE  s = SubSeq(s \o t, 1, Len(s)) /\ Len(s) <= Len(s \o t)
<1>1. Len(s) \in Nat /\ Len(t) \in Nat /\ Len(s \o t) = Len(s) + Len(t)
  BY LenProperties, ConcatProperties
<1>2. CASE s = <<>>
  BY <1>1, <1>2, SubSeqEmpty
<1>3. CASE s # <<>>
  <2>1. Len(s) \in 1 .. Len(s) /\ 1 \in 1 .. Len(s)
    BY <1>1, <1>3, EmptySeq
  <2>2. SubSeq(s \o t, 1, Len(s)) = SubSeq(s, 1, Len(s))
    BY <2>1, SubSeqOfConcat1
  <2> QED BY <1>1, <2>2, SubSeqFull
<1> QED BY <1>2, <1>3

LEMMA LeastOf == ASSUME NEW a \in Nat, NEW b \in Nat
                 PROVE  /\ Least(a, b) \in Nat /\ Least(a, b) <= a /\ Least(a, b) <= b
                        /\ a <= b => Least(a, b) = a
                        /\ Least(a, b) = a \/ Least(a, b) = b
BY DEF Least

-----------------------------------------------------------------------------
(***************************************************************************)
(* The inductive invariant.  ThrottleLifts and Lossless are not inductive  *)
(* as they stand: that uart_fifo_fill drops nothing rests on the driver    *)
(* being ready until the handler fills it, and on what ready means.        *)
(***************************************************************************)
EchoInv == /\ EchoTypeOK /\ ThrottleLifts /\ Lossless
           /\ txReady => Len(tx) + Room <= TxFifo
           /\ at = "fill" => txReady

LEMMA LenNat == ASSUME NEW s \in Seq(Byte)
                PROVE  Len(s) \in Nat /\ (s = <<>> <=> Len(s) = 0)
BY LenProperties, EmptySeq

LEMMA JoinLen == ASSUME NEW s \in Seq(Byte), NEW t \in Seq(Byte)
                 PROVE  s \o t \in Seq(Byte) /\ Len(s \o t) = Len(s) + Len(t)
BY ConcatProperties

LEMMA InvInit == Init => EchoInv
<1> SUFFICES ASSUME Init PROVE EchoInv
  OBVIOUS
<1>1. <<>> \in Seq(Byte) /\ Len(<<>>) = 0
  BY EmptySeq
<1>2. EchoTypeOK
  <2>1. /\ rx \in Seq(Byte) /\ ring \in Seq(Byte) /\ tx \in Seq(Byte)
        /\ hold \in Seq(Byte) /\ sent \in Seq(Byte) /\ echoed \in Seq(Byte)
    BY <1>1 DEF Init
  <2>2. Len(ring) = 0 /\ Len(tx) = 0 /\ Len(hold) = 0
    BY <1>1 DEF Init
  <2>3. /\ lost \in Nat /\ hold = <<>> /\ at = "boot"
        /\ txReady \in BOOLEAN /\ rxIrq \in BOOLEAN /\ txIrq \in BOOLEAN /\ throttled \in BOOLEAN
    BY DEF Init
  <2> QED BY <2>1, <2>2, <2>3, EchoAssumption DEF EchoTypeOK
<1>3. ThrottleLifts
  BY DEF Init, ThrottleLifts
<1>4. Lossless
  BY DEF Init, Lossless
<1>5. Len(tx) + Room <= TxFifo /\ at # "fill"
  BY <1>1, EchoAssumption DEF Init
<1> QED BY <1>2, <1>3, <1>4, <1>5 DEF EchoInv

LEMMA InvHostSends == ASSUME EchoInv, NEW b \in Byte, HostSends(b) PROVE EchoInv'
<1>1. sent' \in Seq(Byte) /\ rx' \in Seq(Byte)
  BY AppendProperties DEF EchoInv, EchoTypeOK, HostSends
<1> QED BY <1>1 DEF EchoInv, EchoTypeOK, ThrottleLifts, Lossless, Space, HostSends

LEMMA InvHostReads == ASSUME EchoInv, HostReads PROVE EchoInv'
<1>1. PICK n \in 1 .. Len(tx) : echoed' = echoed \o First(tx, n) /\ tx' = Rest(tx, n)
  BY DEF HostReads
<1>2. tx \in Seq(Byte) /\ echoed \in Seq(Byte) /\ Len(tx) \in Nat
  BY LenNat DEF EchoInv, EchoTypeOK
<1>3. First(tx, n) \in Seq(Byte) /\ tx' \in Seq(Byte) /\ Len(tx') = Len(tx) - n
  <2>1. n \in 0 .. Len(tx)
    BY <1>2
  <2> QED BY <1>1, <1>2, <2>1, Cut
<1>4. echoed' \in Seq(Byte)
  BY <1>1, <1>2, <1>3, JoinLen
<1>5. txReady' => Len(tx') + Room <= TxFifo
  <2>1. txReady' => txReady \/ TxFifo - Len(tx') >= Room
    BY DEF HostReads
  <2>2. n \in Nat /\ txReady => Len(tx) + Room <= TxFifo
    BY <1>2 DEF EchoInv
  <2> QED BY <1>2, <1>3, <2>1, <2>2, EchoAssumption
<1>6. at = "fill" => txReady'
  BY DEF HostReads, EchoInv, EchoTypeOK
<1>7. UNCHANGED <<rx, ring, rxIrq, txIrq, throttled, at, hold, sent, lost>> /\ txReady' \in BOOLEAN
  BY DEF HostReads, EchoInv, EchoTypeOK
<1>8. Len(tx') <= TxFifo
  BY <1>2, <1>3, EchoAssumption DEF EchoInv, EchoTypeOK
<1>9. EchoTypeOK'
  BY <1>3, <1>4, <1>7, <1>8 DEF EchoInv, EchoTypeOK
<1>10. ThrottleLifts' /\ Lossless'
  BY <1>7 DEF EchoInv, ThrottleLifts, Lossless, Space
<1> QED BY <1>5, <1>6, <1>7, <1>9, <1>10 DEF EchoInv

\* The steps that move no byte.
LEMMA InvControl ==
  ASSUME EchoInv, main \/ Loop \/ NothingToRead \/ Throttle \/ NothingToWrite \/ RingEmpty
  PROVE  EchoInv'
<1> USE DEF EchoInv, EchoTypeOK, Lossless, Space
<1>1. CASE main
  BY <1>1 DEF main, ThrottleLifts
<1>2. CASE Loop
  BY <1>2 DEF Loop, ThrottleLifts
<1>3. CASE NothingToRead
  BY <1>3 DEF NothingToRead, ThrottleLifts
<1>4. CASE Throttle
  <2>1. ring # <<>>
    BY <1>4, LenNat, EchoAssumption DEF Throttle
  <2> QED BY <1>4, <2>1 DEF Throttle, ThrottleLifts, RxReady
<1>5. CASE NothingToWrite
  BY <1>5 DEF NothingToWrite, ThrottleLifts
<1>6. CASE RingEmpty
  BY <1>6 DEF RingEmpty, ThrottleLifts
<1> QED BY <1>1, <1>2, <1>3, <1>4, <1>5, <1>6

LEMMA InvRead == ASSUME EchoInv, Read PROVE EchoInv'
<1> DEFINE n == Least(Len(rx), Least(Space, Chunk))
<1>1. rx \in Seq(Byte) /\ Len(rx) \in Nat /\ Space \in Nat /\ Chunk \in Nat
  BY LenNat, EchoAssumption DEF EchoInv, EchoTypeOK, Space
<1>2. n \in 0 .. Len(rx) /\ n <= Space /\ n <= Chunk
  BY <1>1 DEF Least
<1>3. hold' = First(rx, n) /\ rx' = Rest(rx, n)
  BY DEF Read
<1> HIDE DEF n
<1>4. hold' \in Seq(Byte) /\ Len(hold') = n /\ rx' \in Seq(Byte)
  BY <1>1, <1>2, <1>3, Cut
<1>5. UNCHANGED <<ring, tx, txReady, rxIrq, txIrq, throttled, sent, echoed, lost>>
      /\ at = "rx" /\ at' = "put"
  BY DEF Read
<1>6. EchoTypeOK'
  BY <1>2, <1>4, <1>5 DEF EchoInv, EchoTypeOK
<1>7. ThrottleLifts'
  BY <1>5 DEF EchoInv, ThrottleLifts
<1>8. Lossless'
  BY <1>2, <1>4, <1>5 DEF EchoInv, Lossless, Space
<1> QED BY <1>5, <1>6, <1>7, <1>8 DEF EchoInv

LEMMA InvPut == ASSUME EchoInv, Put
                PROVE  EchoInv' /\ ring' = ring \o hold /\ lost' = lost
<1>1. /\ ring \in Seq(Byte) /\ hold \in Seq(Byte) /\ lost \in Nat
      /\ Len(ring) \in Nat /\ Len(hold) \in Nat /\ Space \in Nat
  BY LenNat, EchoAssumption DEF EchoInv, EchoTypeOK, Space
<1>2. Len(hold) <= Space /\ at = "put"
  BY DEF EchoInv, Lossless, Put
<1>3. Least(Len(hold), Space) = Len(hold) /\ First(hold, Len(hold)) = hold
  BY <1>1, <1>2, LeastOf, SubSeqFull DEF First
<1>4. /\ ring' = ring \o hold /\ lost' = lost
      /\ txIrq' = (txIrq \/ Len(hold) > 0)
  BY <1>1, <1>3 DEF Put
<1>5. ring' \in Seq(Byte) /\ Len(ring') = Len(ring) + Len(hold)
  BY <1>1, <1>4, JoinLen
<1>6. Len(ring') <= RingSize
  BY <1>1, <1>2, <1>5, EchoAssumption DEF Space
<1>7. /\ UNCHANGED <<rx, tx, txReady, rxIrq, throttled, sent, echoed>>
      /\ hold' = <<>> /\ at' = "tx"
  BY DEF Put
<1>8. <<>> \in Seq(Byte) /\ Len(<<>>) = 0
  BY EmptySeq
<1>9. EchoTypeOK'
  BY <1>4, <1>5, <1>6, <1>7, <1>8, EchoAssumption DEF EchoInv, EchoTypeOK
<1>10. ThrottleLifts'
  <2>1. throttled' = (~rxIrq' /\ at' # "boot")
    BY <1>2, <1>7 DEF EchoInv, ThrottleLifts
  <2>2. throttled' => ring' # <<>>
    BY <1>1, <1>5, <1>7, LenNat DEF EchoInv, ThrottleLifts
  <2>3. ring' # <<>> => ring # <<>> \/ Len(hold) > 0
    BY <1>1, <1>5, LenNat
  <2> QED BY <1>4, <2>1, <2>2, <2>3 DEF EchoInv, ThrottleLifts
<1>11. Lossless'
  BY <1>4, <1>7 DEF EchoInv, Lossless
<1> QED BY <1>4, <1>7, <1>9, <1>10, <1>11 DEF EchoInv

LEMMA InvTake == ASSUME EchoInv, Take PROVE EchoInv'
<1> DEFINE n == Least(Len(ring), Chunk)
<1>1. ring \in Seq(Byte) /\ Len(ring) \in Nat /\ Chunk \in Nat
  BY LenNat, EchoAssumption DEF EchoInv, EchoTypeOK
<1>2. n \in 0 .. Len(ring) /\ n <= Chunk
  BY <1>1 DEF Least
<1>3. hold' = First(ring, n) /\ ring' = Rest(ring, n)
  BY DEF Take
<1> HIDE DEF n
<1>4. hold' \in Seq(Byte) /\ Len(hold') = n /\ ring' \in Seq(Byte) /\ Len(ring') = Len(ring) - n
  BY <1>1, <1>2, <1>3, Cut
<1>5. /\ UNCHANGED <<rx, tx, txReady, txIrq, sent, echoed, lost>> /\ ring # <<>>
      /\ at = "tx" /\ at' = "fill" /\ TxReady /\ ~throttled' /\ rxIrq' = (rxIrq \/ throttled)
  BY DEF Take
<1>6. EchoTypeOK'
  <2>1. Len(ring') <= RingSize /\ Len(hold') <= Chunk
    BY <1>1, <1>2, <1>4, EchoAssumption DEF EchoInv, EchoTypeOK
  <2>2. rxIrq' \in BOOLEAN /\ throttled' \in BOOLEAN
    BY DEF Take, EchoInv, EchoTypeOK
  <2> QED BY <1>4, <1>5, <2>1, <2>2 DEF EchoInv, EchoTypeOK
<1>7. ThrottleLifts'
  <2>1. rxIrq'
    BY <1>5 DEF EchoInv, ThrottleLifts
  <2>2. txIrq'
    BY <1>5 DEF TxReady
  <2>3. throttled' = FALSE
    BY DEF Take
  <2> QED BY <2>1, <2>2, <2>3 DEF ThrottleLifts
<1>8. Lossless'
  BY <1>5 DEF EchoInv, Lossless
<1> QED BY <1>5, <1>6, <1>7, <1>8 DEF EchoInv, TxReady

LEMMA InvFill == ASSUME EchoInv, Fill PROVE EchoInv'
<1> DEFINE n == Least(Len(hold), TxFifo - Len(tx))
<1>1. /\ hold \in Seq(Byte) /\ tx \in Seq(Byte) /\ lost \in Nat
      /\ Len(hold) \in Nat /\ Len(tx) \in Nat /\ TxFifo - Len(tx) \in Nat
  BY LenNat, EchoAssumption DEF EchoInv, EchoTypeOK
<1>2. n \in 0 .. Len(hold) /\ n <= TxFifo - Len(tx)
  BY <1>1, LeastOf
<1>3. tx' = tx \o First(hold, n) /\ lost' = lost + (Len(hold) - n)
  BY DEF Fill
<1>4. Room >= Chunk => n = Len(hold)
  <2>1. Len(hold) <= Chunk /\ Len(tx) + Room <= TxFifo
    BY DEF EchoInv, EchoTypeOK, Fill
  <2> QED BY <1>1, <2>1, EchoAssumption DEF Least
<1> HIDE DEF n
<1>5. First(hold, n) \in Seq(Byte) /\ Len(First(hold, n)) = n
  BY <1>1, <1>2, Cut
<1>6. tx' \in Seq(Byte) /\ Len(tx') = Len(tx) + n
  BY <1>1, <1>3, <1>5, JoinLen
<1>7. /\ UNCHANGED <<rx, ring, rxIrq, txIrq, throttled, sent, echoed>>
      /\ at = "fill" /\ at' = "idle" /\ ~txReady' /\ txReady' = FALSE /\ hold' = <<>>
  BY DEF Fill
<1>8. <<>> \in Seq(Byte) /\ Len(<<>>) = 0
  BY EmptySeq
<1>9. EchoTypeOK'
  <2>1. Len(tx') <= TxFifo /\ Len(hold') <= Chunk /\ lost' \in Nat
    BY <1>1, <1>2, <1>3, <1>6, <1>7, <1>8, EchoAssumption
  <2> QED BY <1>6, <1>7, <1>8, <2>1 DEF EchoInv, EchoTypeOK
<1>10. ThrottleLifts'
  BY <1>7 DEF EchoInv, ThrottleLifts
<1>11. Lossless'
  BY <1>1, <1>3, <1>4, <1>7 DEF EchoInv, Lossless
<1> QED BY <1>7, <1>9, <1>10, <1>11 DEF EchoInv

LEMMA InvNext == EchoInv /\ [Next]_vars => EchoInv'
<1> SUFFICES ASSUME EchoInv, [Next]_vars PROVE EchoInv'
  OBVIOUS
<1>1. CASE UNCHANGED vars
  BY <1>1 DEF vars, EchoInv, EchoTypeOK, ThrottleLifts, Lossless, Space
<1> QED BY <1>1, InvHostSends, InvHostReads, InvControl, InvRead, InvPut, InvTake, InvFill
        DEF Next, interrupt_handler

LEMMA Invariant == Spec => []EchoInv
BY InvInit, InvNext, PTL DEF Spec

(***************************************************************************)
(* The types, the bounds of the three buffers, and the end of the throttle *)
(* (see CdcEcho), for every size of them.                                  *)
(***************************************************************************)
THEOREM EchoTypeCorrect == Spec => []EchoTypeOK
BY Invariant, PTL DEF EchoInv

THEOREM ThrottleEnds == Spec => []ThrottleLifts
BY Invariant, PTL DEF EchoInv

(***************************************************************************)
(* ring_buf_put never drops a byte, and nothing at all is dropped when the *)
(* driver is ready for a whole chunk only.                                 *)
(***************************************************************************)
THEOREM NothingDropped == Spec => []Lossless
BY Invariant, PTL DEF EchoInv

-----------------------------------------------------------------------------
(* The order of the bytes.                                                 *)

\* The bytes between the driver's two buffers.
Inside == Join(Filling, Join(ring, Join(Putting, rx)))

LEMMA PathFolded == Path = Join(echoed, Join(tx, Inside))
BY DEF Path, Inside, Join

LEMMA InsideType == ASSUME EchoTypeOK
                    PROVE  /\ Filling \in Seq(Byte) /\ Putting \in Seq(Byte)
                           /\ Join(Putting, rx) \in Seq(Byte)
                           /\ Join(ring, Join(Putting, rx)) \in Seq(Byte)
                           /\ Inside \in Seq(Byte) /\ Join(tx, Inside) \in Seq(Byte)
<1>1. Filling \in Seq(Byte) /\ Putting \in Seq(Byte)
  BY EmptySeq DEF EchoTypeOK, Filling, Putting
<1> QED BY <1>1, JoinType DEF EchoTypeOK, Inside

LEMMA OrderInit == Init => InOrder
<1> SUFFICES ASSUME Init PROVE Path = sent
  BY DEF InOrder
<1>1. <<>> \in Seq(Byte)
  BY EmptySeq
<1>2. Filling = <<>> /\ Putting = <<>> /\ rx = <<>> /\ ring = <<>> /\ tx = <<>>
      /\ echoed = <<>> /\ sent = <<>>
  BY DEF Init, Filling, Putting
<1> QED BY <1>1, <1>2, JoinEmpty, PathFolded DEF Inside

\* The host adds a byte at the end of the path.
LEMMA PathHostSends == ASSUME EchoTypeOK, NEW b \in Byte, HostSends(b)
                       PROVE  Path' = Append(Path, b)
<1>1. /\ rx' = Add(rx, b) /\ Filling' = Filling /\ Putting' = Putting
      /\ UNCHANGED <<ring, tx, echoed>>
  BY DEF HostSends, Add, Filling, Putting
<1>2. /\ rx \in Seq(Byte) /\ ring \in Seq(Byte) /\ tx \in Seq(Byte) /\ echoed \in Seq(Byte)
  BY DEF EchoTypeOK
<1>3. Join(Putting, rx') = Add(Join(Putting, rx), b)
  BY <1>1, <1>2, InsideType, AddLast
<1>4. Join(ring, Join(Putting, rx')) = Add(Join(ring, Join(Putting, rx)), b)
  BY <1>2, <1>3, InsideType, AddLast
<1>5. Inside' = Add(Inside, b)
  BY <1>1, <1>4, InsideType, AddLast DEF Inside
<1>6. Join(tx, Inside') = Add(Join(tx, Inside), b)
  BY <1>2, <1>5, InsideType, AddLast
<1>7. Join(echoed, Join(tx, Inside')) = Add(Join(echoed, Join(tx, Inside)), b)
  BY <1>2, <1>6, InsideType, AddLast
<1>8. Path' = Join(echoed', Join(tx', Inside'))
  BY DEF Path, Inside, Join
<1> QED BY <1>1, <1>7, <1>8, PathFolded DEF Add

\* The host takes bytes from the second part of the path to the first.
LEMMA PathHostReads == ASSUME EchoTypeOK, HostReads PROVE Path' = Path
<1>1. PICK n \in 1 .. Len(tx) : echoed' = Join(echoed, First(tx, n)) /\ tx' = Rest(tx, n)
  BY DEF HostReads, Join
<1>2. tx \in Seq(Byte) /\ echoed \in Seq(Byte)
  BY DEF EchoTypeOK
<1>3. n \in 0 .. Len(tx)
  BY <1>2, LenNat
<1>4. /\ First(tx, n) \in Seq(Byte) /\ Rest(tx, n) \in Seq(Byte)
      /\ Join(First(tx, n), Rest(tx, n)) = tx
  BY <1>2, <1>3, CutJoin
<1>5. Inside' = Inside
  BY DEF HostReads, Inside, Filling, Putting
<1>6. Join(Join(echoed, First(tx, n)), Join(Rest(tx, n), Inside))
       = Join(echoed, Join(First(tx, n), Join(Rest(tx, n), Inside)))
  BY <1>2, <1>4, InsideType, JoinType, JoinAssociative
<1>7. Join(First(tx, n), Join(Rest(tx, n), Inside)) = Join(tx, Inside)
  BY <1>4, InsideType, JoinAssociative
<1>8. Path' = Join(echoed', Join(tx', Inside'))
  BY DEF Path, Inside, Join
<1> QED BY <1>1, <1>5, <1>6, <1>7, <1>8, PathFolded

LEMMA PathRead == ASSUME EchoInv, Read PROVE Path' = Path
<1> DEFINE n == Least(Len(rx), Least(Space, Chunk))
<1>1. rx \in Seq(Byte) /\ Len(rx) \in Nat /\ Space \in Nat /\ Chunk \in Nat
  BY LenNat, EchoAssumption DEF EchoInv, EchoTypeOK, Space
<1>2. n \in 0 .. Len(rx)
  BY <1>1 DEF Least
<1>3. hold' = First(rx, n) /\ rx' = Rest(rx, n)
  BY DEF Read
<1> HIDE DEF n
<1>4. Join(hold', rx') = rx
  BY <1>1, <1>2, <1>3, CutJoin
<1>5. Putting = <<>> /\ Putting' = hold' /\ Filling = <<>> /\ Filling' = <<>>
  BY DEF Read, Putting, Filling
<1>6. Join(Putting', rx') = Join(Putting, rx)
  BY <1>1, <1>4, <1>5, JoinEmpty
<1>7. Inside' = Inside
  BY <1>5, <1>6 DEF Read, Inside
<1>8. Path' = Join(echoed', Join(tx', Inside'))
  BY DEF Path, Inside, Join
<1> QED BY <1>7, <1>8, PathFolded DEF Read

LEMMA PathPut == ASSUME EchoInv, Put PROVE Path' = Path
<1>1. rx \in Seq(Byte) /\ ring \in Seq(Byte) /\ hold \in Seq(Byte)
  BY DEF EchoInv, EchoTypeOK
<1>2. ring' = Join(ring, hold)
  BY InvPut DEF Join
<1>3. Putting = hold /\ Putting' = <<>> /\ Filling = <<>> /\ Filling' = <<>> /\ rx' = rx
  BY DEF Put, Putting, Filling
<1>4. Join(ring', Join(Putting', rx')) = Join(ring, Join(Putting, rx))
  BY <1>1, <1>2, <1>3, JoinEmpty, JoinAssociative
<1>5. Inside' = Inside
  BY <1>3, <1>4 DEF Inside
<1>6. Path' = Join(echoed', Join(tx', Inside'))
  BY DEF Path, Inside, Join
<1> QED BY <1>5, <1>6, PathFolded DEF Put

LEMMA PathTake == ASSUME EchoInv, Take PROVE Path' = Path
<1> DEFINE n == Least(Len(ring), Chunk)
           rest == Join(Putting, rx)
<1>1. ring \in Seq(Byte) /\ Len(ring) \in Nat /\ Chunk \in Nat /\ EchoTypeOK
  BY LenNat, EchoAssumption DEF EchoInv, EchoTypeOK
<1>2. n \in 0 .. Len(ring)
  BY <1>1 DEF Least
<1>3. hold' = First(ring, n) /\ ring' = Rest(ring, n)
  BY DEF Take
<1>4. rest \in Seq(Byte) /\ Join(ring, rest) \in Seq(Byte)
  BY <1>1, InsideType
<1>5. rest' = rest /\ Filling = <<>> /\ Filling' = hold'
  BY DEF Take, Putting, Filling
<1>6. Inside = Join(Filling, Join(ring, rest)) /\ Inside' = Join(Filling', Join(ring', rest'))
  BY DEF Inside
<1> HIDE DEF n, rest
<1>7. hold' \in Seq(Byte) /\ ring' \in Seq(Byte) /\ Join(hold', ring') = ring
  BY <1>1, <1>2, <1>3, CutJoin
<1>8. Join(hold', Join(ring', rest)) = Join(ring, rest)
  BY <1>4, <1>7, JoinAssociative
<1>9. Inside' = Inside
  BY <1>4, <1>5, <1>6, <1>8, JoinEmpty
<1>10. Path' = Join(echoed', Join(tx', Inside'))
  BY DEF Path, Inside, Join
<1> QED BY <1>9, <1>10, PathFolded DEF Take

\* Fill keeps the path if it keeps the bytes.
LEMMA PathFill == ASSUME EchoInv, Fill, lost' = 0 PROVE Path' = Path
<1> DEFINE n == Least(Len(hold), TxFifo - Len(tx))
           rest == Join(ring, Join(Putting, rx))
<1>1. /\ hold \in Seq(Byte) /\ tx \in Seq(Byte) /\ echoed \in Seq(Byte) /\ lost \in Nat
      /\ Len(hold) \in Nat /\ Len(tx) \in Nat /\ TxFifo - Len(tx) \in Nat /\ EchoTypeOK
  BY LenNat, EchoAssumption DEF EchoInv, EchoTypeOK
<1>2. n \in 0 .. Len(hold)
  BY <1>1 DEF Least
<1>3. tx' = tx \o First(hold, n) /\ lost' = lost + (Len(hold) - n)
  BY DEF Fill
<1>4. n = Len(hold)
  BY <1>1, <1>2, <1>3
<1>5. rest \in Seq(Byte)
  BY <1>1, InsideType
<1>6. rest' = rest /\ Filling = hold /\ Filling' = <<>>
  BY DEF Fill, Putting, Filling
<1>7. Inside = Join(Filling, rest) /\ Inside' = Join(Filling', rest')
  BY DEF Inside
<1> HIDE DEF n, rest
<1>8. tx' = Join(tx, hold)
  BY <1>1, <1>3, <1>4, SubSeqFull DEF First, Join
<1>9. Join(tx', Inside') = Join(tx, Inside)
  BY <1>1, <1>5, <1>6, <1>7, <1>8, JoinEmpty, JoinAssociative
<1>10. Path' = Join(echoed', Join(tx', Inside'))
  BY DEF Path, Inside, Join
<1> QED BY <1>9, <1>10, PathFolded DEF Fill

\* The steps that move no byte.
LEMMA PathControl ==
  ASSUME main \/ Loop \/ NothingToRead \/ Throttle \/ NothingToWrite \/ RingEmpty
  PROVE  Path' = Path
<1>1. /\ UNCHANGED <<rx, ring, tx, hold, echoed>>
      /\ at \notin {"put", "fill"} /\ at' \notin {"put", "fill"}
  BY DEF main, Loop, NothingToRead, Throttle, NothingToWrite, RingEmpty
<1> QED BY <1>1 DEF Path, Filling, Putting

\* Nothing that was dropped comes back.
LEMMA LostGrows == ASSUME EchoInv, [Next]_vars PROVE lost' >= lost
<1>1. lost \in Nat /\ hold \in Seq(Byte) /\ tx \in Seq(Byte) /\ Len(hold) \in Nat
      /\ Len(tx) \in Nat /\ TxFifo - Len(tx) \in Nat
  BY LenNat, EchoAssumption DEF EchoInv, EchoTypeOK
<1>2. CASE Put
  BY <1>1, <1>2, InvPut
<1>3. CASE Fill
  BY <1>1, <1>3 DEF Fill, Least
<1>4. CASE UNCHANGED vars
  BY <1>1, <1>4 DEF vars
<1>5. ASSUME NEW b \in Byte, HostSends(b) PROVE lost' = lost
  BY <1>5 DEF HostSends
<1>6. CASE HostReads
  BY <1>1, <1>6 DEF HostReads
<1>7. CASE main \/ Loop \/ NothingToRead \/ Throttle \/ NothingToWrite \/ RingEmpty
  BY <1>1, <1>7 DEF main, Loop, NothingToRead, Throttle, NothingToWrite, RingEmpty
<1>8. CASE Read \/ Take
  BY <1>1, <1>8 DEF Read, Take
<1> QED BY <1>1, <1>2, <1>3, <1>4, <1>5, <1>6, <1>7, <1>8 DEF Next, interrupt_handler

LEMMA OrderNext == EchoInv /\ InOrder /\ [Next]_vars => InOrder'
<1> SUFFICES ASSUME EchoInv, InOrder, [Next]_vars, lost' = 0 PROVE Path' = sent'
  BY DEF InOrder
<1>1. lost = 0 /\ Path = sent /\ EchoTypeOK
  BY LostGrows DEF EchoInv, EchoTypeOK, InOrder
<1>2. ASSUME NEW b \in Byte, HostSends(b) PROVE Path' = sent'
  BY <1>1, <1>2, PathHostSends DEF HostSends
<1>3. CASE HostReads
  BY <1>1, <1>3, PathHostReads DEF HostReads
<1>4. CASE main \/ Loop \/ NothingToRead \/ Throttle \/ NothingToWrite \/ RingEmpty
  <2>1. sent' = sent
    BY <1>4 DEF main, Loop, NothingToRead, Throttle, NothingToWrite, RingEmpty
  <2> QED BY <1>1, <1>4, <2>1, PathControl
<1>5. CASE Read
  BY <1>1, <1>5, PathRead DEF Read
<1>6. CASE Put
  BY <1>1, <1>6, PathPut DEF Put
<1>7. CASE Take
  BY <1>1, <1>7, PathTake DEF Take
<1>8. CASE Fill
  BY <1>1, <1>8, PathFill DEF Fill
<1>9. CASE UNCHANGED vars
  BY <1>1, <1>9 DEF vars, Path, Filling, Putting
<1> QED BY <1>2, <1>3, <1>4, <1>5, <1>6, <1>7, <1>8, <1>9 DEF Next, interrupt_handler

(***************************************************************************)
(* Whatever the sizes, and however the bytes are cut into chunks: as long  *)
(* as nothing was dropped, the bytes of the host are on the path in the    *)
(* order in which they were sent.                                          *)
(***************************************************************************)
THEOREM BytesInOrder == Spec => []InOrder
BY Invariant, OrderInit, OrderNext, PTL DEF Spec

LEMMA ChannelStep ==
  ASSUME EchoInv, EchoInv', InOrder', Room >= Chunk, [Next]_vars
  PROVE  [Channel!Send \/ Channel!Deliver]_(Channel!cvars)
<1>1. ASSUME NEW b \in Byte, HostSends(b) PROVE Channel!Send
  BY <1>1 DEF HostSends, Channel!Send
<1>2. CASE HostReads
  <2>1. PICK n \in 1 .. Len(tx) : echoed' = echoed \o First(tx, n)
    BY <1>2 DEF HostReads
  <2>2. echoed \in Seq(Byte) /\ echoed' \in Seq(Byte) /\ tx \in Seq(Byte) /\ EchoTypeOK'
    BY DEF EchoInv, EchoTypeOK
  <2>3. Len(echoed) \in Nat /\ Len(echoed') \in Nat /\ Len(tx) \in Nat
    BY <2>2, LenNat
  <2>4. Len(echoed) <= Len(echoed')
    <3>1. n \in 0 .. Len(tx)
      BY <2>3
    <3>2. First(tx, n) \in Seq(Byte)
      BY <2>2, <3>1, Cut
    <3> QED BY <2>1, <2>2, <3>2, Prefix
  <2>5. sent' = Join(echoed', Join(tx', Inside')) /\ sent' = sent
    <3>1. sent' = Path' /\ sent' = sent
      BY <1>2 DEF InOrder, EchoInv, Lossless, HostReads
    <3> QED BY <3>1 DEF Path, Inside, Join
  <2>6. Join(tx', Inside') \in Seq(Byte)
    <3>1. Filling' \in Seq(Byte) /\ Putting' \in Seq(Byte)
      BY <2>2, EmptySeq DEF EchoTypeOK, Filling, Putting
    <3> QED BY <2>2, <3>1, JoinType DEF EchoTypeOK, Inside
  <2>7. echoed' = SubSeq(sent, 1, Len(echoed')) /\ Len(echoed') <= Len(sent)
    BY <2>2, <2>5, <2>6, Prefix DEF Join
  <2>8. Len(echoed') \in Len(echoed) .. Len(sent)
    BY <2>3, <2>4, <2>7, LenNat DEF EchoInv, EchoTypeOK
  <2> QED BY <2>5, <2>7, <2>8 DEF Channel!Deliver
<1>3. CASE UNCHANGED <<sent, echoed>>
  BY <1>3 DEF Channel!cvars
<1>4. [Next]_vars => \/ HostReads \/ UNCHANGED <<sent, echoed>>
                     \/ \E b \in Byte : HostSends(b)
  BY DEF Next, interrupt_handler, main, Loop, NothingToRead, Throttle, Read, Put,
         NothingToWrite, RingEmpty, Take, Fill, vars
<1> QED BY <1>1, <1>2, <1>3, <1>4

(***************************************************************************)
(* With a driver that is ready for a whole chunk only, the program is a    *)
(* channel: the host gets back a growing prefix of what it sent.           *)
(***************************************************************************)
THEOREM ImplementsChannel == ASSUME Room >= Chunk PROVE Spec => EchoesBack
<1>1. Init => Channel!ChannelInit
  BY DEF Init, Channel!ChannelInit
<1>2. EchoInv /\ EchoInv' /\ InOrder' /\ [Next]_vars
      => [Channel!Send \/ Channel!Deliver]_(Channel!cvars)
  BY ChannelStep
<1> QED BY <1>1, <1>2, Invariant, BytesInOrder, PTL DEF Spec, EchoesBack, Channel!ChannelSpec

=============================================================================

-------------------------- MODULE CdcBridgeProofs --------------------------
(***************************************************************************)
(* Proofs about CdcBridge, for every size of the rings, of the chunk and   *)
(* of the driver's buffer, and whatever the hosts send and when they read. *)
(***************************************************************************)
EXTENDS CdcBridge, Integers, SequenceTheorems, TLAPS

-----------------------------------------------------------------------------
(* Cutting and joining sequences.                                          *)

LEMMA Cut ==
  ASSUME NEW s \in Seq(Byte), NEW n \in 0 .. Len(s)
  PROVE  /\ First(s, n) \in Seq(Byte) /\ Len(First(s, n)) = n
         /\ Rest(s, n) \in Seq(Byte) /\ Len(Rest(s, n)) = Len(s) - n
<1>1. Len(s) \in Nat /\ \A i \in 1 .. Len(s) : s[i] \in Byte
  BY LenProperties, ElementOfSeq
<1>2. \A i \in 1 .. n : s[i] \in Byte
  BY <1>1
<1>3. \A i \in n + 1 .. Len(s) : s[i] \in Byte
  BY <1>1
<1>4. First(s, n) \in Seq(Byte) /\ Len(First(s, n)) = n
  BY <1>1, <1>2, SubSeqProperties DEF First
<1>5. Rest(s, n) \in Seq(Byte)
  BY <1>1, <1>3, SubSeqProperties DEF Rest
<1>6. Len(Rest(s, n)) = IF n + 1 <= Len(s) THEN Len(s) - (n + 1) + 1 ELSE 0
  BY <1>1, <1>3, SubSeqProperties DEF Rest
<1> QED BY <1>1, <1>4, <1>5, <1>6

\* \o, kept folded: the provers reason about it by these lemmas.
Join(s, t) == s \o t

LEMMA JoinType == ASSUME NEW s \in Seq(Byte), NEW t \in Seq(Byte)
                  PROVE  Join(s, t) \in Seq(Byte) /\ Len(Join(s, t)) = Len(s) + Len(t)
BY ConcatProperties DEF Join

LEMMA JoinAssociative ==
  ASSUME NEW s \in Seq(Byte), NEW t \in Seq(Byte), NEW u \in Seq(Byte)
  PROVE  Join(Join(s, t), u) = Join(s, Join(t, u))
BY ConcatAssociative DEF Join

LEMMA JoinEmpty == ASSUME NEW s \in Seq(Byte) PROVE Join(s, <<>>) = s
BY ConcatEmptySeq DEF Join

LEMMA CutJoin == ASSUME NEW s \in Seq(Byte), NEW n \in 0 .. Len(s)
                 PROVE  Join(First(s, n), Rest(s, n)) = s
<1>1. Len(s) \in Nat
  BY LenProperties
<1>2. 1 \in 1 .. Len(s) + 1 /\ n \in 1 - 1 .. Len(s) /\ Len(s) \in n .. Len(s)
  BY <1>1
<1>3. First(s, n) \o Rest(s, n) = SubSeq(s, 1, Len(s))
  BY <1>2, ConcatAdjacentSubSeq DEF First, Rest
<1> QED BY <1>3, SubSeqFull DEF Join

LEMMA AppendType == ASSUME NEW s \in Seq(Byte), NEW e \in Byte
                    PROVE  Append(s, e) \in Seq(Byte) /\ Len(Append(s, e)) = Len(s) + 1
BY AppendProperties

LEMMA AppendJoin == ASSUME NEW s \in Seq(Byte), NEW t \in Seq(Byte), NEW e \in Byte
                    PROVE  Join(s, Append(t, e)) = Append(Join(s, t), e)
<1>1. <<e>> \in Seq(Byte) /\ s \o t \in Seq(Byte)
  BY ConcatProperties
<1>2. Append(t, e) = t \o <<e>> /\ Append(s \o t, e) = (s \o t) \o <<e>>
  BY <1>1, AppendIsConcat
<1>3. (s \o t) \o <<e>> = s \o (t \o <<e>>)
  BY <1>1, ConcatAssociative
<1> QED BY <1>2, <1>3 DEF Join

LEMMA LenNat == ASSUME NEW s \in Seq(Byte)
                PROVE  Len(s) \in Nat /\ (s = <<>> <=> Len(s) = 0)
BY LenProperties, EmptySeq

-----------------------------------------------------------------------------
(***************************************************************************)
(* One direction: g, t, r and x are what has arrived, what the driver and  *)
(* the ring hold and what is not yet read, s what was sent, l what was     *)
(* dropped.  Each step that moves bytes conserves them.                    *)
(***************************************************************************)
Chain(g, t, r, x) == Join(Join(Join(g, t), r), x)
Conserved(g, t, r, x, s, l) == /\ Len(Chain(g, t, r, x)) + l = Len(s)
                               /\ l = 0 => Chain(g, t, r, x) = s

LEMMA ChainLen ==
  ASSUME NEW g \in Seq(Byte), NEW t \in Seq(Byte), NEW r \in Seq(Byte), NEW x \in Seq(Byte)
  PROVE  Len(Chain(g, t, r, x)) = Len(g) + Len(t) + Len(r) + Len(x)
<1>1. Join(g, t) \in Seq(Byte) /\ Len(Join(g, t)) = Len(g) + Len(t)
  BY JoinType
<1>2. Join(Join(g, t), r) \in Seq(Byte) /\ Len(Join(Join(g, t), r)) = Len(g) + Len(t) + Len(r)
  BY <1>1, JoinType
<1> QED BY <1>2, JoinType DEF Chain

LEMMA SendConserves ==
  ASSUME NEW g \in Seq(Byte), NEW t \in Seq(Byte), NEW r \in Seq(Byte), NEW x \in Seq(Byte),
         NEW s \in Seq(Byte), NEW l \in Nat, NEW b \in Byte, Conserved(g, t, r, x, s, l)
  PROVE  Conserved(g, t, r, Append(x, b), Append(s, b), l)
<1>1. Join(Join(g, t), r) \in Seq(Byte)
  BY JoinType
<1>2. Chain(g, t, r, Append(x, b)) = Append(Chain(g, t, r, x), b)
      /\ Chain(g, t, r, x) \in Seq(Byte)
  BY <1>1, JoinType, AppendJoin DEF Chain
<1>3. Append(x, b) \in Seq(Byte) /\ Len(Append(x, b)) = Len(x) + 1 /\ Len(Append(s, b)) = Len(s) + 1
  BY AppendType
<1>4. Len(Chain(g, t, r, x)) + l = Len(s)
  BY DEF Conserved
<1>5. Len(Chain(g, t, r, Append(x, b))) = Len(Chain(g, t, r, x)) + 1
  BY <1>2, AppendType, Zenon
<1>6. Len(Chain(g, t, r, x)) \in Nat /\ Len(s) \in Nat
  BY <1>2, LenNat
<1>7. Len(Chain(g, t, r, Append(x, b))) + l = Len(Append(s, b))
  BY <1>3, <1>4, <1>5, <1>6
<1> QED BY <1>2, <1>7 DEF Conserved

LEMMA ReadConserves ==
  ASSUME NEW g \in Seq(Byte), NEW t \in Seq(Byte), NEW r \in Seq(Byte), NEW x \in Seq(Byte),
         NEW s \in Seq(Byte), NEW l \in Nat, Conserved(g, t, r, x, s, l)
  PROVE  Conserved(Join(g, t), <<>>, r, x, s, l)
BY JoinType, JoinEmpty DEF Chain, Conserved

LEMMA ReceiveConserves ==
  ASSUME NEW g \in Seq(Byte), NEW t \in Seq(Byte), NEW r \in Seq(Byte), NEW x \in Seq(Byte),
         NEW s \in Seq(Byte), NEW l \in Nat, NEW n \in 0 .. Len(x), NEW w \in 0 .. n,
         Conserved(g, t, r, x, s, l)
  PROVE  Conserved(g, t, Join(r, First(x, w)), Rest(x, n), s, l + (n - w))
<1> DEFINE head == First(x, w)
           rest == Rest(x, n)
           long == Join(r, head)
<1>1. Len(g) \in Nat /\ Len(t) \in Nat /\ Len(r) \in Nat /\ Len(x) \in Nat
  BY LenNat
<1>2. n \in 0 .. Len(x) /\ n \in Nat /\ w \in 0 .. Len(x)
  BY <1>1
<1>3. head \in Seq(Byte)
  BY <1>2, Cut
<1>4. rest \in Seq(Byte)
  BY Cut
<1>5. Len(head) = w /\ Len(rest) = Len(x) - n
  BY <1>2, Cut
<1>6. ASSUME n = w PROVE Join(head, rest) = x
  BY <1>2, <1>6, CutJoin
<1> HIDE DEF head, rest
<1>7. long \in Seq(Byte)
  BY <1>3, JoinType
<1>8. Len(long) = Len(r) + Len(head)
  BY <1>3, JoinType, Zenon
<1>9. ASSUME n = w PROVE Chain(g, t, long, rest) = Chain(g, t, r, x)
  <2> DEFINE before == Join(g, t)
  <2>1. before \in Seq(Byte)
    BY JoinType
  <2> HIDE DEF before
  <2>2. Join(before, r) \in Seq(Byte) /\ Join(before, long) = Join(Join(before, r), head)
    BY <1>3, <2>1, JoinType, JoinAssociative
  <2>3. Join(Join(Join(before, r), head), rest) = Join(Join(before, r), x)
    BY <1>3, <1>4, <1>6, <1>9, <2>2, JoinAssociative
  <2> QED BY <2>2, <2>3 DEF Chain, before
<1> HIDE DEF long
<1>10. Len(Chain(g, t, long, rest)) + (l + (n - w)) = Len(s)
  <2>1. Len(Chain(g, t, r, x)) + l = Len(s)
    BY DEF Conserved
  <2>2. Len(Chain(g, t, r, x)) = Len(g) + Len(t) + Len(r) + Len(x)
    BY ChainLen
  <2>3. Len(Chain(g, t, long, rest)) = Len(g) + Len(t) + Len(long) + Len(rest)
    BY <1>4, <1>7, ChainLen
  <2>4. Len(g) + Len(t) + Len(r) + Len(x) + l = Len(s)
    BY <2>1, <2>2
  <2>5. Len(Chain(g, t, long, rest)) + (l + (n - w)) = Len(g) + Len(t) + Len(r) + Len(x) + l
    BY <1>1, <1>2, <1>5, <1>8, <2>3
  <2> QED BY <2>4, <2>5
<1>11. ASSUME l + (n - w) = 0 PROVE Chain(g, t, long, rest) = s
  <2>1. l = 0 /\ n = w
    BY <1>2, <1>11
  <2> QED BY <1>9, <2>1 DEF Conserved
<1> QED BY <1>10, <1>11 DEF Conserved, head, rest, long

LEMMA TransmitConserves ==
  ASSUME NEW g \in Seq(Byte), NEW t \in Seq(Byte), NEW r \in Seq(Byte), NEW x \in Seq(Byte),
         NEW s \in Seq(Byte), NEW l \in Nat, NEW n \in 0 .. Len(r), NEW w \in 0 .. n,
         Conserved(g, t, r, x, s, l)
  PROVE  Conserved(g, Join(t, First(r, w)), Rest(r, n), x, s, l + (n - w))
<1> DEFINE head == First(r, w)
           rest == Rest(r, n)
           long == Join(t, head)
<1>1. Len(g) \in Nat /\ Len(t) \in Nat /\ Len(r) \in Nat /\ Len(x) \in Nat
  BY LenNat
<1>2. n \in 0 .. Len(r) /\ n \in Nat /\ w \in 0 .. Len(r)
  BY <1>1
<1>3. head \in Seq(Byte)
  BY <1>2, Cut
<1>4. rest \in Seq(Byte)
  BY Cut
<1>5. Len(head) = w /\ Len(rest) = Len(r) - n
  BY <1>2, Cut
<1>6. ASSUME n = w PROVE Join(head, rest) = r
  BY <1>2, <1>6, CutJoin
<1> HIDE DEF head, rest
<1>7. long \in Seq(Byte)
  BY <1>3, JoinType
<1>8. Len(long) = Len(t) + Len(head)
  BY <1>3, JoinType, Zenon
<1>9. ASSUME n = w PROVE Chain(g, long, rest, x) = Chain(g, t, r, x)
  <2>1. Join(g, t) \in Seq(Byte) /\ Join(g, long) = Join(Join(g, t), head)
    BY <1>3, JoinType, JoinAssociative
  <2>2. Join(Join(Join(g, t), head), rest) = Join(Join(g, t), r)
    BY <1>3, <1>4, <1>6, <1>9, <2>1, JoinAssociative
  <2> QED BY <2>1, <2>2 DEF Chain
<1> HIDE DEF long
<1>10. Len(Chain(g, long, rest, x)) + (l + (n - w)) = Len(s)
  <2>1. Len(Chain(g, t, r, x)) + l = Len(s)
    BY DEF Conserved
  <2>2. Len(Chain(g, t, r, x)) = Len(g) + Len(t) + Len(r) + Len(x)
    BY ChainLen
  <2>3. Len(Chain(g, long, rest, x)) = Len(g) + Len(long) + Len(rest) + Len(x)
    BY <1>4, <1>7, ChainLen
  <2>4. Len(g) + Len(t) + Len(r) + Len(x) + l = Len(s)
    BY <2>1, <2>2
  <2>5. Len(Chain(g, long, rest, x)) + (l + (n - w)) = Len(g) + Len(t) + Len(r) + Len(x) + l
    BY <1>1, <1>2, <1>5, <1>8, <2>3
  <2> QED BY <2>4, <2>5
<1>11. ASSUME l + (n - w) = 0 PROVE Chain(g, long, rest, x) = s
  <2>1. l = 0 /\ n = w
    BY <1>2, <1>11
  <2> QED BY <1>9, <2>1 DEF Conserved
<1> QED BY <1>10, <1>11 DEF Conserved, head, rest, long

-----------------------------------------------------------------------------
(***************************************************************************)
(* The inductive invariant: the bytes of both directions are conserved,    *)
(* and neither a ring nor the driver holds more than its memory.           *)
(***************************************************************************)
Typed == /\ rx \in [Dev -> Seq(Byte)] /\ rb \in [Dev -> Seq(Byte)] /\ tx \in [Dev -> Seq(Byte)]
         /\ sent \in [Dev -> Seq(Byte)] /\ got \in [Dev -> Seq(Byte)]
         /\ txIrq \in [Dev -> BOOLEAN] /\ lost \in [Dev -> Nat] /\ dev \in Dev

Fits == \A d \in Dev : Len(rb[d]) <= RingSize /\ Len(tx[d]) <= TxFifo

\* From port d to the other one.
Crosses(d) == Conserved(got[Peer(d)], tx[Peer(d)], rb[d], rx[d], sent[d], lost[d])

BridgeInv == Typed /\ Fits /\ PeerIsWoken /\ \A d \in Dev : Crosses(d)

LEMMA PeerOf == ASSUME NEW d \in Dev
                PROVE  /\ Peer(d) \in Dev /\ Peer(d) # d /\ Peer(Peer(d)) = d
                       /\ \A e \in Dev : e # d => e = Peer(d)
BY DEF Dev, Peer

LEMMA Held ==
  ASSUME Typed, NEW d \in Dev
  PROVE  /\ rx[d] \in Seq(Byte) /\ rb[d] \in Seq(Byte) /\ tx[d] \in Seq(Byte)
         /\ sent[d] \in Seq(Byte) /\ got[d] \in Seq(Byte) /\ lost[d] \in Nat
BY DEF Typed

LEMMA InvInit == Init => BridgeInv
<1> SUFFICES ASSUME Init PROVE BridgeInv
  OBVIOUS
<1>1. <<>> \in Seq(Byte) /\ Len(<<>>) = 0
  BY EmptySeq
<1>2. Typed
  BY <1>1 DEF Init, Typed, Dev
<1>3. ASSUME NEW d \in Dev
      PROVE  rb[d] = <<>> /\ tx[d] = <<>> /\ rx[d] = <<>> /\ got[d] = <<>> /\ sent[d] = <<>> /\ lost[d] = 0
  BY <1>3 DEF Init
<1>4. Fits
  BY <1>1, <1>3, BridgeAssumption DEF Fits
<1>5. PeerIsWoken
  BY <1>3 DEF PeerIsWoken
<1>6. Chain(<<>>, <<>>, <<>>, <<>>) = <<>>
  BY <1>1, JoinEmpty DEF Chain
<1>7. Conserved(<<>>, <<>>, <<>>, <<>>, <<>>, 0)
  BY <1>1, <1>6 DEF Conserved
<1>8. ASSUME NEW d \in Dev PROVE Crosses(d)
  BY <1>3, <1>7, PeerOf DEF Crosses
<1> QED BY <1>2, <1>4, <1>5, <1>8 DEF BridgeInv

LEMMA InvHostSends == ASSUME BridgeInv, NEW d \in Dev, NEW b \in Byte, HostSends(d, b)
                      PROVE  BridgeInv'
<1>1. Append(rx[d], b) \in Seq(Byte) /\ Append(sent[d], b) \in Seq(Byte)
  BY Held, AppendType DEF BridgeInv
<1>2. Typed'
  BY <1>1 DEF BridgeInv, Typed, HostSends
<1>3. Fits' /\ PeerIsWoken'
  BY DEF BridgeInv, Fits, PeerIsWoken, HostSends
<1>4. Crosses(d)'
  <2>1. rx'[d] = Append(rx[d], b) /\ sent'[d] = Append(sent[d], b)
    BY DEF HostSends, BridgeInv, Typed
  <2>2. UNCHANGED <<got, tx, rb, lost>>
    BY DEF HostSends
  <2>3. Conserved(got[Peer(d)], tx[Peer(d)], rb[d], Append(rx[d], b), Append(sent[d], b), lost[d])
    BY Held, PeerOf, SendConserves DEF BridgeInv, Crosses
  <2> QED BY <2>1, <2>2, <2>3 DEF Crosses
<1>5. ASSUME NEW e \in Dev, e # d PROVE Crosses(e)'
  BY <1>5 DEF BridgeInv, Typed, Crosses, HostSends
<1> QED BY <1>2, <1>3, <1>4, <1>5 DEF BridgeInv

LEMMA InvHostReads == ASSUME BridgeInv, NEW d \in Dev, HostReads(d) PROVE BridgeInv'
<1>1. <<>> \in Seq(Byte) /\ Len(<<>>) = 0 /\ Join(got[d], tx[d]) \in Seq(Byte)
  BY Held, EmptySeq, JoinType DEF BridgeInv
<1>2. /\ got' = [got EXCEPT ![d] = Join(got[d], tx[d])] /\ tx' = [tx EXCEPT ![d] = <<>>]
      /\ UNCHANGED <<rx, rb, txIrq, dev, sent, lost>>
  BY DEF HostReads, Join
<1>3. Typed'
  BY <1>1, <1>2 DEF BridgeInv, Typed
<1>4. Fits' /\ PeerIsWoken'
  <2>1. PeerIsWoken'
    BY <1>2 DEF BridgeInv, PeerIsWoken
  <2>2. Len(tx'[d]) <= TxFifo
    BY <1>1, <1>2, BridgeAssumption DEF BridgeInv, Typed
  <2>3. ASSUME NEW e \in Dev, e # d PROVE tx'[e] = tx[e]
    BY <1>2, <2>3 DEF BridgeInv, Typed
  <2> QED BY <1>2, <2>1, <2>2, <2>3 DEF BridgeInv, Fits
<1>5. Crosses(Peer(d))'
  <2>1. got'[d] = Join(got[d], tx[d]) /\ tx'[d] = <<>>
    BY <1>2 DEF BridgeInv, Typed
  <2>2. Conserved(Join(got[d], tx[d]), <<>>, rb[Peer(d)], rx[Peer(d)], sent[Peer(d)], lost[Peer(d)])
    BY Held, PeerOf, ReadConserves DEF BridgeInv, Crosses
  <2> QED BY <1>2, <2>1, <2>2, PeerOf DEF Crosses
<1>6. ASSUME NEW e \in Dev, e # Peer(d) PROVE Crosses(e)'
  <2>1. Peer(e) \in Dev /\ Peer(e) # d
    BY <1>6, PeerOf
  <2> QED BY <1>2, <2>1 DEF BridgeInv, Typed, Crosses
<1> QED BY <1>3, <1>4, <1>5, <1>6, PeerOf DEF BridgeInv

LEMMA InvReceive == ASSUME BridgeInv, Receive PROVE BridgeInv'
<1>1. CASE ~RxReady(dev)
  BY <1>1 DEF Receive, BridgeInv, Typed, Fits, PeerIsWoken, Crosses
<1>2. CASE RxReady(dev)
  <2> DEFINE n == Least(Len(rx[dev]), Chunk)
             wrote == Least(n, RingSize - Len(rb[dev]))
  <2>1. /\ dev \in Dev /\ rx[dev] \in Seq(Byte) /\ rb[dev] \in Seq(Byte)
        /\ Len(rx[dev]) \in Nat /\ Len(rb[dev]) \in Nat /\ Len(rb[dev]) <= RingSize /\ lost[dev] \in Nat
    BY Held, LenNat DEF BridgeInv, Typed, Fits
  <2>2. n \in 0 .. Len(rx[dev]) /\ wrote \in 0 .. n /\ wrote <= RingSize - Len(rb[dev])
    BY <2>1, BridgeAssumption DEF Least
  <2>3. /\ rx' = [rx EXCEPT ![dev] = Rest(rx[dev], n)]
        /\ rb' = [rb EXCEPT ![dev] = Join(rb[dev], First(rx[dev], wrote))]
        /\ lost' = [lost EXCEPT ![dev] = lost[dev] + (n - wrote)]
        /\ txIrq' = [txIrq EXCEPT ![Peer(dev)] = txIrq[Peer(dev)] \/ wrote > 0]
        /\ UNCHANGED <<tx, dev, sent, got>>
    BY <1>2 DEF Receive, Join
  <2> HIDE DEF n, wrote
  <2>4. wrote \in 0 .. Len(rx[dev]) /\ n - wrote \in Nat
    BY <2>1, <2>2
  <2>5. Rest(rx[dev], n) \in Seq(Byte) /\ First(rx[dev], wrote) \in Seq(Byte)
    BY <2>1, <2>2, <2>4, Cut
  <2>6. Len(First(rx[dev], wrote)) = wrote
    BY <2>1, <2>4, Cut
  <2>7. Join(rb[dev], First(rx[dev], wrote)) \in Seq(Byte)
    BY <2>1, <2>5, JoinType
  <2>8. Len(Join(rb[dev], First(rx[dev], wrote))) = Len(rb[dev]) + Len(First(rx[dev], wrote))
    BY <2>1, <2>5, JoinType, Zenon
  <2>9. Typed'
    <3>1. lost[dev] + (n - wrote) \in Nat
      BY <2>1, <2>4
    <3>2. Peer(dev) \in Dev /\ (txIrq[Peer(dev)] \/ wrote > 0) \in BOOLEAN
      BY <2>1, PeerOf
    <3>3. rx' \in [Dev -> Seq(Byte)] /\ rb' \in [Dev -> Seq(Byte)] /\ lost' \in [Dev -> Nat]
      BY <2>1, <2>3, <2>5, <2>7, <3>1 DEF BridgeInv, Typed
    <3>4. txIrq' \in [Dev -> BOOLEAN]
      BY <2>3, <3>2 DEF BridgeInv, Typed
    <3> QED BY <2>3, <3>3, <3>4 DEF BridgeInv, Typed
  <2>10. Fits'
    <3>1. Len(Join(rb[dev], First(rx[dev], wrote))) <= RingSize
      BY <2>1, <2>2, <2>6, <2>8, BridgeAssumption
    <3> QED BY <2>3, <3>1 DEF BridgeInv, Typed, Fits
  <2>11. PeerIsWoken'
    <3>1. Peer(dev) \in Dev /\ \A e \in Dev : e # dev => Peer(e) # Peer(dev)
      BY <2>1, PeerOf
    <3>2. txIrq'[Peer(dev)] = (txIrq[Peer(dev)] \/ wrote > 0)
      BY <2>3, <3>1 DEF BridgeInv, Typed
    <3>3. ASSUME rb'[dev] # <<>> PROVE rb[dev] # <<>> \/ wrote > 0
      <4>1. rb'[dev] = Join(rb[dev], First(rx[dev], wrote))
        BY <2>1, <2>3 DEF BridgeInv, Typed
      <4>2. ASSUME rb[dev] = <<>>, wrote = 0 PROVE FALSE
        <5>1. Len(rb[dev]) = 0
          BY <4>2, EmptySeq
        <5>2. Len(Join(rb[dev], First(rx[dev], wrote))) = 0
          BY <2>6, <2>8, <4>2, <5>1
        <5> QED BY <2>7, <3>3, <4>1, <5>2, LenNat
      <4> QED BY <2>2, <4>2
    <3>4. rb'[dev] # <<>> => txIrq'[Peer(dev)]
      BY <2>1, <3>2, <3>3 DEF BridgeInv, PeerIsWoken
    <3>5. ASSUME NEW e \in Dev, e # dev PROVE rb'[e] # <<>> => txIrq'[Peer(e)]
      <4>1. rb'[e] = rb[e]
        BY <2>3, <3>5 DEF BridgeInv, Typed
      <4>2. txIrq'[Peer(e)] = txIrq[Peer(e)]
        BY <2>3, <3>1, <3>5, PeerOf DEF BridgeInv, Typed
      <4> QED BY <4>1, <4>2 DEF BridgeInv, PeerIsWoken
    <3> QED BY <2>3, <3>4, <3>5 DEF PeerIsWoken
  <2>12. Crosses(dev)'
    <3>1. /\ rx'[dev] = Rest(rx[dev], n) /\ rb'[dev] = Join(rb[dev], First(rx[dev], wrote))
          /\ lost'[dev] = lost[dev] + (n - wrote)
      BY <2>1, <2>3 DEF BridgeInv, Typed
    <3>2. Conserved(got[Peer(dev)], tx[Peer(dev)], Join(rb[dev], First(rx[dev], wrote)),
                    Rest(rx[dev], n), sent[dev], lost[dev] + (n - wrote))
      BY <2>1, <2>2, Held, PeerOf, ReceiveConserves DEF BridgeInv, Crosses
    <3> QED BY <2>3, <3>1, <3>2 DEF Crosses
  <2>13. ASSUME NEW e \in Dev, e # dev PROVE Crosses(e)'
    <3>1. rx'[e] = rx[e] /\ rb'[e] = rb[e] /\ lost'[e] = lost[e]
      BY <2>3, <2>13 DEF BridgeInv, Typed
    <3> QED BY <2>3, <3>1 DEF BridgeInv, Crosses
  <2> QED BY <2>3, <2>9, <2>10, <2>11, <2>12, <2>13 DEF BridgeInv
<1> QED BY <1>1, <1>2

LEMMA InvTransmit == ASSUME BridgeInv, Transmit PROVE BridgeInv'
<1> DEFINE p == Peer(dev)
           n == Least(Len(rb[p]), Chunk)
           wrote == Least(n, TxFifo - Len(tx[dev]))
<1>1. /\ dev \in Dev /\ p \in Dev /\ p # dev /\ Peer(p) = dev
      /\ \A e \in Dev : e # p => e = dev
  BY PeerOf DEF BridgeInv, Typed
<1>2. /\ tx[dev] \in Seq(Byte) /\ rb[p] \in Seq(Byte) /\ lost[p] \in Nat
      /\ Len(tx[dev]) \in Nat /\ Len(rb[p]) \in Nat /\ Len(tx[dev]) <= TxFifo
  BY <1>1, Held, LenNat DEF BridgeInv, Fits
<1>3. n \in 0 .. Len(rb[p]) /\ wrote \in 0 .. n /\ wrote <= TxFifo - Len(tx[dev])
  <2>1. n \in 0 .. Len(rb[p])
    BY <1>2, BridgeAssumption DEF Least
  <2>2. TxFifo - Len(tx[dev]) \in Nat
    BY <1>2, BridgeAssumption
  <2> HIDE DEF n
  <2> QED BY <2>1, <2>2 DEF Least
<1>4. CASE UNCHANGED <<rb, tx, txIrq, lost>>
  BY <1>4 DEF Transmit, BridgeInv, Typed, Fits, PeerIsWoken, Crosses
<1>5. CASE n = 0 /\ txIrq' = [txIrq EXCEPT ![dev] = FALSE] /\ UNCHANGED <<rb, tx, lost>>
  <2>1. rb[p] = <<>>
    <3>1. Len(rb[p]) = 0
      BY <1>2, <1>5, BridgeAssumption DEF Least
    <3> QED BY <1>2, <3>1, LenNat
  <2>2. UNCHANGED <<rx, dev, sent, got>>
    BY DEF Transmit
  <2>3. Typed' /\ Fits'
    BY <1>5, <2>2 DEF BridgeInv, Typed, Fits
  <2>4. PeerIsWoken'
    <3>1. txIrq'[p] = txIrq[p] /\ Peer(dev) = p
      BY <1>1, <1>5 DEF BridgeInv, Typed
    <3>2. rb'[dev] # <<>> => txIrq'[Peer(dev)]
      BY <1>1, <1>5, <3>1 DEF BridgeInv, PeerIsWoken
    <3> QED BY <1>1, <1>5, <2>1, <3>2 DEF PeerIsWoken
  <2>5. \A e \in Dev : Crosses(e)'
    BY <1>5, <2>2 DEF BridgeInv, Crosses
  <2> QED BY <2>3, <2>4, <2>5 DEF BridgeInv
<1>6. CASE /\ n > 0
           /\ tx' = [tx EXCEPT ![dev] = Join(tx[dev], First(rb[p], wrote))]
           /\ rb' = [rb EXCEPT ![p] = Rest(rb[p], n)]
           /\ lost' = [lost EXCEPT ![p] = lost[p] + (n - wrote)]
           /\ UNCHANGED txIrq
  <2> HIDE DEF n, wrote
  <2>1. wrote \in 0 .. Len(rb[p]) /\ n - wrote \in Nat
    BY <1>2, <1>3
  <2>2. Rest(rb[p], n) \in Seq(Byte) /\ First(rb[p], wrote) \in Seq(Byte)
    BY <1>2, <1>3, <2>1, Cut
  <2>3. Len(First(rb[p], wrote)) = wrote /\ Len(Rest(rb[p], n)) = Len(rb[p]) - n
    BY <1>2, <1>3, <2>1, Cut
  <2>4. Join(tx[dev], First(rb[p], wrote)) \in Seq(Byte)
    BY <1>2, <2>2, JoinType
  <2>5. Len(Join(tx[dev], First(rb[p], wrote))) = Len(tx[dev]) + Len(First(rb[p], wrote))
    BY <1>2, <2>2, JoinType, Zenon
  <2>6. UNCHANGED <<rx, dev, sent, got>>
    BY DEF Transmit
  <2>7. Typed'
    <3>1. lost[p] + (n - wrote) \in Nat
      BY <1>2, <2>1
    <3> QED BY <1>1, <1>6, <2>2, <2>4, <2>6, <3>1 DEF BridgeInv, Typed
  <2>8. Fits'
    <3>1. Len(Join(tx[dev], First(rb[p], wrote))) <= TxFifo
      BY <1>2, <1>3, <2>3, <2>5, BridgeAssumption
    <3>2. Len(rb[p]) <= RingSize
      BY <1>1 DEF BridgeInv, Fits
    <3>3. Len(Rest(rb[p], n)) <= RingSize
      BY <1>2, <1>3, <2>3, <3>2, BridgeAssumption
    <3>4. ASSUME NEW e \in Dev PROVE Len(rb'[e]) <= RingSize
      BY <1>1, <1>6, <3>3 DEF BridgeInv, Typed, Fits
    <3>5. ASSUME NEW e \in Dev PROVE Len(tx'[e]) <= TxFifo
      BY <1>1, <1>6, <3>1 DEF BridgeInv, Typed, Fits
    <3> QED BY <3>4, <3>5 DEF Fits
  <2>9. PeerIsWoken'
    <3>1. rb[p] # <<>>
      BY <1>2, <1>3, <1>6, LenNat
    <3> QED BY <1>1, <1>6, <2>6, <3>1 DEF BridgeInv, Typed, PeerIsWoken
  <2>10. Crosses(p)'
    <3>1. /\ tx'[dev] = Join(tx[dev], First(rb[p], wrote)) /\ rb'[p] = Rest(rb[p], n)
          /\ lost'[p] = lost[p] + (n - wrote)
      BY <1>1, <1>6 DEF BridgeInv, Typed
    <3>2. Conserved(got[dev], tx[dev], rb[p], rx[p], sent[p], lost[p])
      BY <1>1 DEF BridgeInv, Crosses
    <3>3. Conserved(got[dev], Join(tx[dev], First(rb[p], wrote)), Rest(rb[p], n), rx[p], sent[p],
                    lost[p] + (n - wrote))
      BY <1>1, <1>2, <1>3, <3>2, Held, TransmitConserves DEF BridgeInv
    <3> QED BY <1>1, <2>6, <3>1, <3>3 DEF Crosses
  <2>11. Crosses(dev)'
    <3>1. tx'[p] = tx[p] /\ rb'[dev] = rb[dev] /\ lost'[dev] = lost[dev]
      BY <1>1, <1>6 DEF BridgeInv, Typed
    <3> QED BY <1>1, <2>6, <3>1 DEF BridgeInv, Crosses
  <2>12. ASSUME NEW e \in Dev PROVE Crosses(e)'
    <3>1. CASE e = p
      BY <2>6, <2>10, <3>1 DEF Crosses
    <3>2. CASE e = dev
      BY <2>6, <2>11, <3>2 DEF Crosses
    <3> QED BY <1>1, <3>1, <3>2
  <2> QED BY <2>7, <2>8, <2>9, <2>12 DEF BridgeInv
<1> QED BY <1>4, <1>5, <1>6 DEF Transmit, Join

LEMMA InvNext == BridgeInv /\ [Next]_vars => BridgeInv'
<1> SUFFICES ASSUME BridgeInv, [Next]_vars PROVE BridgeInv'
  OBVIOUS
<1> USE DEF BridgeInv, Typed, Fits, PeerIsWoken, Crosses
<1>1. CASE UNCHANGED vars
  BY <1>1 DEF vars
<1>2. CASE main
  BY <1>2 DEF main
<1>3. ASSUME NEW d \in Dev, Loop(d) PROVE BridgeInv'
  BY <1>3 DEF Loop
<1> QED BY <1>1, <1>2, <1>3, InvHostSends, InvHostReads, InvReceive, InvTransmit
        DEF Next, interrupt_handler

LEMMA Invariant == Spec => []BridgeInv
BY InvInit, InvNext, PTL DEF Spec

(***************************************************************************)
(* Crosswise (see CdcBridge): the cross wiring, the order, and the count   *)
(* of what was dropped, for every size of the buffers and all the bytes    *)
(* that may be sent.                                                       *)
(***************************************************************************)
THEOREM WiredCrosswise == Spec => []Crosswise
<1>1. BridgeInv => Crosswise
  BY DEF BridgeInv, Fits, Crosses, Conserved, Chain, Join, Crosswise, Path
<1> QED BY <1>1, Invariant, PTL

(***************************************************************************)
(* PeerIsWoken (see CdcBridge): no ring holds bytes while the interrupt    *)
(* that empties it is off.                                                 *)
(***************************************************************************)
THEOREM PeerStaysAwake == Spec => []PeerIsWoken
BY Invariant, PTL DEF BridgeInv
=============================================================================

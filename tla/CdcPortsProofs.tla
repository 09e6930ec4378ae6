--------------------------- MODULE CdcPortsProofs ---------------------------
(***************************************************************************)
(* Proofs about CdcPorts, for every size of the buffers, of an answer and  *)
(* of the driver's memory, and however the bytes are cut into reads.       *)
(***************************************************************************)
EXTENDS CdcPorts, Integers, SequenceTheorems, WellFoundedInduction, TLAPS

-----------------------------------------------------------------------------
(* FlattenSeq.                                                             *)

LEMMA LeastNatural == ASSUME NEW T \in SUBSET Nat, T # {}
                      PROVE  \E m \in T : \A i \in T : m <= i
<1>1. \E x \in T : \A y \in T : ~ (<<y, x>> \in OpToRel(<, Nat))
  BY NatLessThanWellFounded, WFMin, Zenon
<1>2. \A x, y \in Nat : ~ (<<y, x>> \in OpToRel(<, Nat)) => x <= y
  BY DEF OpToRel
<1>3. \A x \in T : x \in Nat
  OBVIOUS
<1> QED BY <1>1, <1>2, <1>3, Zenon

\* Induction up to n, over a set of numbers.
LEMMA UpTo ==
  ASSUME NEW n \in Nat, NEW G, 0 \in G, \A i \in 0 .. n : i \in G /\ i < n => i + 1 \in G
  PROVE  0 .. n \subseteq G
<1> DEFINE Bad == {i \in 0 .. n : i \notin G}
<1>1. SUFFICES ASSUME NEW k \in Bad PROVE FALSE
  OBVIOUS
<1>2. Bad \subseteq Nat
  OBVIOUS
<1>3. PICK m \in Bad : \A i \in Bad : m <= i
  <2>1. Bad \in SUBSET Nat /\ Bad # {}
    BY <1>1, <1>2
  <2> HIDE DEF Bad
  <2> QED BY <2>1, LeastNatural
<1>4. m # 0 /\ m \in 0 .. n /\ m \notin G
  OBVIOUS
<1>5. m - 1 \in 0 .. n /\ m - 1 < n /\ m = (m - 1) + 1 /\ ~ (m <= m - 1)
  BY <1>4
<1>6. m - 1 \in G
  BY <1>3, <1>5
<1> QED BY <1>4, <1>5, <1>6

\* The function that FlattenSeq is defined by, up to n.
IsFlat(f, ss, n) == f = [i \in 1 .. n |-> IF i = 1 THEN ss[i] ELSE f[i - 1] \o ss[i]]

LEMMA FlatExists ==
  ASSUME NEW ss, NEW n \in Nat
  PROVE  \E f : IsFlat(f, ss, n)
<1> DEFINE G == {k \in 0 .. n : \E f : IsFlat(f, ss, k)}
<1>1. 0 \in G
  <2>1. IsFlat([i \in 1 .. 0 |-> IF i = 1 THEN ss[i] ELSE <<>>], ss, 0)
    BY DEF IsFlat
  <2> QED BY <2>1
<1>2. ASSUME NEW k \in 0 .. n, k \in G, k < n PROVE k + 1 \in G
  <2>1. PICK f : IsFlat(f, ss, k)
    BY <1>2
  <2> DEFINE g == [i \in 1 .. k + 1 |-> IF i = 1 THEN ss[i] ELSE f[i - 1] \o ss[i]]
  <2>2. ASSUME NEW i \in 1 .. k + 1, i # 1 PROVE g[i - 1] = f[i - 1]
    <3>1. i - 1 \in 1 .. k /\ i - 1 \in 1 .. k + 1
      BY <2>2
    <3>2. f[i - 1] = IF i - 1 = 1 THEN ss[i - 1] ELSE f[(i - 1) - 1] \o ss[i - 1]
      BY <2>1, <3>1, Zenon DEF IsFlat
    <3> QED BY <3>1, <3>2
  <2>3. IsFlat(g, ss, k + 1)
    BY <2>2 DEF IsFlat
  <2>4. k + 1 \in 0 .. n
    BY <1>2
  <2> QED BY <2>3, <2>4
<1> HIDE DEF G
<1>3. 0 .. n \subseteq G
  BY <1>1, <1>2, UpTo
<1> QED BY <1>3 DEF G

LEMMA Flattened ==
  ASSUME NEW ss, NEW n \in Nat, n # 0, Len(ss) = n
  PROVE  \E f : IsFlat(f, ss, n) /\ FlattenSeq(ss) = f[n]
<1> DEFINE flatten == CHOOSE f : f = [i \in 1 .. Len(ss) |-> IF i = 1 THEN ss[i] ELSE f[i - 1] \o ss[i]]
<1>1. FlattenSeq(ss) = flatten[Len(ss)]
  BY DEF FlattenSeq
<1>2. IsFlat(flatten, ss, n)
  <2>1. \E f : f = [i \in 1 .. Len(ss) |-> IF i = 1 THEN ss[i] ELSE f[i - 1] \o ss[i]]
    BY FlatExists DEF IsFlat
  <2>2. flatten = [i \in 1 .. Len(ss) |-> IF i = 1 THEN ss[i] ELSE flatten[i - 1] \o ss[i]]
    BY <2>1, Zenon
  <2> QED BY <2>2 DEF IsFlat
<1> QED BY <1>1, <1>2

LEMMA FlatTyped ==
  ASSUME NEW S, NEW ss \in Seq(Seq(S)), NEW f, IsFlat(f, ss, Len(ss))
  PROVE  \A i \in 1 .. Len(ss) : f[i] \in Seq(S)
<1> DEFINE n == Len(ss)
           G == {k \in 0 .. n : k = 0 \/ f[k] \in Seq(S)}
<1>1. n \in Nat /\ \A i \in 1 .. n : ss[i] \in Seq(S)
  BY LenProperties, ElementOfSeq
<1>2. 0 \in G
  BY <1>1
<1>3. ASSUME NEW k \in 0 .. n, k \in G, k < n PROVE k + 1 \in G
  <2>1. k + 1 \in 1 .. n /\ k + 1 \in 0 .. n /\ (k + 1) - 1 = k /\ (k + 1 = 1 <=> k = 0)
    BY <1>1, <1>3
  <2>2. f[k + 1] = IF k + 1 = 1 THEN ss[k + 1] ELSE f[(k + 1) - 1] \o ss[k + 1]
    BY <2>1, Zenon DEF IsFlat
  <2>3. ss[k + 1] \in Seq(S)
    BY <1>1, <2>1
  <2>4. CASE k = 0
    BY <2>1, <2>2, <2>3, <2>4
  <2>5. CASE k # 0
    <3>1. f[k] \in Seq(S)
      BY <1>3, <2>5
    <3>2. f[k + 1] = f[k] \o ss[k + 1]
      BY <2>1, <2>2, <2>5
    <3>3. f[k] \o ss[k + 1] \in Seq(S)
      BY <2>3, <3>1, ConcatProperties, Zenon
    <3> QED BY <2>1, <3>2, <3>3
  <2> QED BY <2>4, <2>5
<1> HIDE DEF G, n
<1>4. 0 .. n \subseteq G
  BY <1>1, <1>2, <1>3, UpTo
<1>5. ASSUME NEW i \in 1 .. n PROVE f[i] \in Seq(S)
  <2>1. i \in 0 .. n /\ i # 0
    BY <1>1
  <2> QED BY <1>4, <2>1 DEF G
<1> QED BY <1>5 DEF n

LEMMA FlatAgrees ==
  ASSUME NEW ss, NEW tt, NEW n \in Nat, NEW f, NEW g,
         IsFlat(f, ss, n), IsFlat(g, tt, n + 1), \A i \in 1 .. n : ss[i] = tt[i]
  PROVE  \A i \in 1 .. n : f[i] = g[i]
<1> DEFINE G == {k \in 0 .. n : k = 0 \/ f[k] = g[k]}
<1>1. 0 \in G
  OBVIOUS
<1>2. ASSUME NEW k \in 0 .. n, k \in G, k < n PROVE k + 1 \in G
  <2>1. k + 1 \in 1 .. n /\ k + 1 \in 1 .. n + 1 /\ k + 1 \in 0 .. n /\ (k + 1) - 1 = k
        /\ (k + 1 = 1 <=> k = 0)
    BY <1>2
  <2>2. f[k + 1] = IF k + 1 = 1 THEN ss[k + 1] ELSE f[(k + 1) - 1] \o ss[k + 1]
    BY <2>1, Zenon DEF IsFlat
  <2>3. g[k + 1] = IF k + 1 = 1 THEN tt[k + 1] ELSE g[(k + 1) - 1] \o tt[k + 1]
    BY <2>1, Zenon DEF IsFlat
  <2>4. ss[k + 1] = tt[k + 1] /\ (k # 0 => f[k] = g[k])
    BY <1>2, <2>1
  <2>5. f[k + 1] = g[k + 1]
    BY <2>1, <2>2, <2>3, <2>4
  <2> QED BY <2>1, <2>5
<1> HIDE DEF G
<1>3. 0 .. n \subseteq G
  BY <1>1, <1>2, UpTo
<1>4. ASSUME NEW i \in 1 .. n PROVE f[i] = g[i]
  <2>1. i \in 0 .. n /\ i # 0
    OBVIOUS
  <2> QED BY <1>3, <2>1 DEF G
<1> QED BY <1>4

LEMMA FlattenAppend ==
  ASSUME NEW S, NEW ss \in Seq(Seq(S)), NEW e \in Seq(S)
  PROVE  FlattenSeq(Append(ss, e)) = FlattenSeq(ss) \o e /\ FlattenSeq(ss) \in Seq(S)
<1> DEFINE n == Len(ss)
           tt == Append(ss, e)
<1>1. n \in Nat /\ (ss = <<>> <=> n = 0)
  BY LenProperties, EmptySeq
<1>2. Len(tt) = n + 1 /\ tt[n + 1] = e /\ (\A i \in 1 .. n : ss[i] = tt[i])
  BY AppendProperties
<1> HIDE DEF tt, n
<1>3. PICK g : IsFlat(g, tt, n + 1) /\ FlattenSeq(tt) = g[n + 1]
  BY <1>1, <1>2, Flattened
<1>4. g[n + 1] = IF n + 1 = 1 THEN tt[n + 1] ELSE g[(n + 1) - 1] \o tt[n + 1]
  <2>1. n + 1 \in 1 .. n + 1
    BY <1>1
  <2> QED BY <1>3, <2>1, Zenon DEF IsFlat
<1>5. (n + 1) - 1 = n /\ (n + 1 = 1 <=> n = 0)
  BY <1>1
<1>6. CASE n = 0
  <2>1. FlattenSeq(ss) = <<>> /\ <<>> \in Seq(S)
    BY <1>1, <1>6, EmptySeq DEF FlattenSeq
  <2>2. FlattenSeq(tt) = e
    BY <1>2, <1>3, <1>4, <1>5, <1>6
  <2> QED BY <2>1, <2>2, ConcatEmptySeq DEF tt
<1>7. CASE n # 0
  <2>1. PICK f : IsFlat(f, ss, n) /\ FlattenSeq(ss) = f[n]
    BY <1>1, <1>7, Flattened DEF n
  <2>2. n \in 1 .. n /\ n + 1 \in Nat /\ n <= n + 1
    BY <1>1, <1>7
  <2>3. f[n] = g[n]
    <3>1. n \in Nat /\ \A i \in 1 .. n : ss[i] = tt[i]
      BY <1>1, <1>2
    <3>2. IsFlat(f, ss, n) /\ IsFlat(g, tt, n + 1)
      BY <1>3, <2>1
    <3>3. \A i \in 1 .. n : f[i] = g[i]
      BY <3>1, <3>2, FlatAgrees
    <3> QED BY <2>2, <3>3
  <2>4. f[n] \in Seq(S)
    BY <2>1, <2>2, FlatTyped DEF n
  <2>5. FlattenSeq(tt) = g[n] \o e
    BY <1>2, <1>3, <1>4, <1>5, <1>7
  <2> QED BY <2>1, <2>3, <2>4, <2>5 DEF tt
<1> QED BY <1>6, <1>7

-----------------------------------------------------------------------------
(* Lines and the bytes they are made of.                                   *)

Char == Letter \cup {CR}
Line == [port : Port, text : Seq(Char)]

\* The bytes of port p in a line.
Of(line, p) == IF line.port = p THEN Append(line.text, CR) ELSE <<>>
RaisedIn(h, p) == FlattenSeq([i \in DOMAIN h |-> Of(h[i], p)])

LEMMA OfType == ASSUME NEW line \in Line, NEW p PROVE Of(line, p) \in Seq(Char)
<1>1. line.text \in Seq(Char) /\ CR \in Char /\ <<>> \in Seq(Char)
  BY EmptySeq DEF Line, Char
<1> QED BY <1>1, AppendProperties DEF Of

LEMMA RaisedAppend ==
  ASSUME NEW h \in Seq(Line), NEW line \in Line, NEW p \in Port
  PROVE  /\ RaisedIn(Append(h, line), p) = RaisedIn(h, p) \o Of(line, p)
         /\ RaisedIn(h, p) \in Seq(Char)
<1> DEFINE n == Len(h)
           more == Append(h, line)
           ss == [i \in 1 .. n |-> Of(h[i], p)]
           tt == [i \in 1 .. n + 1 |-> Of(more[i], p)]
<1>1. n \in Nat /\ DOMAIN h = 1 .. n /\ \A i \in 1 .. n : h[i] \in Line
  BY LenProperties, ElementOfSeq
<1>2. more \in Seq(Line) /\ Len(more) = n + 1 /\ more[n + 1] = line /\ \A i \in 1 .. n : more[i] = h[i]
  BY AppendProperties
<1>3. DOMAIN more = 1 .. n + 1 /\ \A i \in 1 .. n + 1 : more[i] \in Line
  BY <1>2, LenProperties, ElementOfSeq
<1> HIDE DEF n, more
<1>4. RaisedIn(h, p) = FlattenSeq(ss) /\ RaisedIn(more, p) = FlattenSeq(tt)
  BY <1>1, <1>3 DEF RaisedIn
<1>5. ss \in Seq(Seq(Char)) /\ Len(ss) = n
  <2>1. \A i \in 1 .. n : Of(h[i], p) \in Seq(Char)
    BY <1>1, OfType
  <2> QED BY <1>1, <2>1
<1>6. tt \in Seq(Seq(Char)) /\ Len(tt) = n + 1
  <2>1. \A i \in 1 .. n + 1 : Of(more[i], p) \in Seq(Char)
    BY <1>3, OfType
  <2> QED BY <1>1, <2>1
<1>7. Of(line, p) \in Seq(Char)
  BY OfType
<1>8. /\ \A i \in 1 .. n : ss[i] = Of(h[i], p)
      /\ \A i \in 1 .. n + 1 : tt[i] = Of(more[i], p)
  OBVIOUS
<1> HIDE DEF ss, tt
<1>9. tt = Append(ss, Of(line, p))
  <2> DEFINE uu == Append(ss, Of(line, p))
  <2>1. uu \in Seq(Seq(Char)) /\ Len(uu) = n + 1 /\ uu[n + 1] = Of(line, p)
        /\ \A i \in 1 .. n : uu[i] = ss[i]
    BY <1>5, <1>7, AppendProperties
  <2> HIDE DEF uu
  <2>2. ASSUME NEW i \in 1 .. n + 1 PROVE tt[i] = uu[i]
    <3>1. CASE i = n + 1
      BY <1>2, <1>8, <2>1, <3>1
    <3>2. CASE i # n + 1
      <4>1. i \in 1 .. n
        BY <1>1, <3>2
      <4> QED BY <1>2, <1>8, <2>1, <4>1
    <3> QED BY <3>1, <3>2
  <2>3. tt = uu
    BY <1>6, <2>1, <2>2, SeqEqual
  <2> QED BY <2>3 DEF uu
<1>10. FlattenSeq(tt) = FlattenSeq(ss) \o Of(line, p) /\ FlattenSeq(ss) \in Seq(Char)
  BY <1>5, <1>7, <1>9, FlattenAppend
<1> QED BY <1>4, <1>10 DEF more

LEMMA RaisedIs == \A p : Raised(p) = RaisedIn(heard, p)
BY DEF Raised, RaisedIn, Of

-----------------------------------------------------------------------------
(* Cutting and joining texts; \o is kept folded.                           *)

Join(s, t) == s \o t
First(s, n) == SubSeq(s, 1, n)
Rest(s, n)  == SubSeq(s, n + 1, Len(s))

LEMMA Cut ==
  ASSUME NEW s \in Seq(Char), NEW n \in 0 .. Len(s)
  PROVE  /\ First(s, n) \in Seq(Char) /\ Rest(s, n) \in Seq(Char)
         /\ Len(First(s, n)) = n /\ Len(Rest(s, n)) = Len(s) - n
         /\ \A i \in 1 .. n : First(s, n)[i] = s[i]
         /\ Join(First(s, n), Rest(s, n)) = s
<1>1. Len(s) \in Nat /\ \A i \in 1 .. Len(s) : s[i] \in Char
  BY LenProperties, ElementOfSeq
<1>2. \A i \in 1 .. n : s[i] \in Char
  BY <1>1
<1>3. \A i \in n + 1 .. Len(s) : s[i] \in Char
  BY <1>1
<1>4. First(s, n) \in Seq(Char) /\ Len(First(s, n)) = n /\ \A i \in 1 .. n : First(s, n)[i] = s[i]
  BY <1>1, <1>2, SubSeqProperties DEF First
<1>5. Rest(s, n) \in Seq(Char)
  BY <1>1, <1>3, SubSeqProperties DEF Rest
<1>6. Len(Rest(s, n)) = IF n + 1 <= Len(s) THEN Len(s) - (n + 1) + 1 ELSE 0
  BY <1>1, <1>3, SubSeqProperties DEF Rest
<1>7. Len(Rest(s, n)) = Len(s) - n
  BY <1>1, <1>6
<1>8. 1 \in 1 .. Len(s) + 1 /\ n \in 1 - 1 .. Len(s) /\ Len(s) \in n .. Len(s)
  BY <1>1
<1>9. First(s, n) \o Rest(s, n) = SubSeq(s, 1, Len(s))
  BY <1>8, ConcatAdjacentSubSeq DEF First, Rest
<1>10. Join(First(s, n), Rest(s, n)) = s
  BY <1>9, SubSeqFull DEF Join
<1> QED BY <1>4, <1>5, <1>7, <1>10

LEMMA JoinType == ASSUME NEW s \in Seq(Char), NEW t \in Seq(Char)
                  PROVE  Join(s, t) \in Seq(Char) /\ Len(Join(s, t)) = Len(s) + Len(t)
BY ConcatProperties DEF Join

LEMMA JoinAt ==
  ASSUME NEW s \in Seq(Char), NEW t \in Seq(Char), NEW i \in 1 .. Len(s) + Len(t)
  PROVE  Join(s, t)[i] = IF i <= Len(s) THEN s[i] ELSE t[i - Len(s)]
BY ConcatProperties DEF Join

LEMMA JoinAssociative ==
  ASSUME NEW s \in Seq(Char), NEW t \in Seq(Char), NEW u \in Seq(Char)
  PROVE  Join(Join(s, t), u) = Join(s, Join(t, u))
BY ConcatAssociative DEF Join

LEMMA JoinRegroup ==
  ASSUME NEW s \in Seq(Char), NEW t \in Seq(Char), NEW u \in Seq(Char), NEW v \in Seq(Char)
  PROVE  Join(Join(s, Join(t, u)), v) = Join(Join(s, t), Join(u, v))
<1>1. Join(s, t) \in Seq(Char)
  BY JoinType
<1>2. Join(Join(s, t), u) = Join(s, Join(t, u))
  BY JoinAssociative
<1>3. Join(Join(Join(s, t), u), v) = Join(Join(s, t), Join(u, v))
  BY <1>1, JoinAssociative
<1> QED BY <1>2, <1>3

LEMMA JoinEmpty == ASSUME NEW s \in Seq(Char) PROVE Join(s, <<>>) = s
BY ConcatEmptySeq DEF Join

LEMMA AppendJoin == ASSUME NEW s \in Seq(Char), NEW t \in Seq(Char), NEW e \in Char
                    PROVE  Join(s, Append(t, e)) = Append(Join(s, t), e)
<1>1. <<e>> \in Seq(Char) /\ s \o t \in Seq(Char)
  BY ConcatProperties
<1>2. Append(t, e) = t \o <<e>> /\ Append(s \o t, e) = (s \o t) \o <<e>>
  BY <1>1, AppendIsConcat
<1>3. (s \o t) \o <<e>> = s \o (t \o <<e>>)
  BY <1>1, ConcatAssociative
<1> QED BY <1>2, <1>3 DEF Join

LEMMA LenNat == ASSUME NEW s \in Seq(Char)
                PROVE  Len(s) \in Nat /\ (s = <<>> <=> Len(s) = 0)
BY LenProperties, EmptySeq

LEMMA FrontLast ==
  ASSUME NEW s \in Seq(Char), s # <<>>
  PROVE  /\ Front(s) \in Seq(Char) /\ Len(Front(s)) = Len(s) - 1
         /\ \A i \in 1 .. Len(s) - 1 : Front(s)[i] = s[i]
         /\ Append(Front(s), Last(s)) = s
<1>1. Len(s) \in Nat \ {0} /\ \A i \in 1 .. Len(s) : s[i] \in Char
  BY LenNat, ElementOfSeq
<1>2. Len(s) - 1 \in 0 .. Len(s)
  BY <1>1
<1>3. Front(s) \in Seq(Char) /\ Len(Front(s)) = Len(s) - 1
      /\ \A i \in 1 .. Len(s) - 1 : Front(s)[i] = s[i]
  BY <1>2, Cut DEF Front, First
<1>4. Last(s) \in Char
  BY <1>1 DEF Last
<1> DEFINE u == Append(Front(s), Last(s))
<1>5. u \in Seq(Char) /\ Len(u) = Len(Front(s)) + 1 /\ u[Len(Front(s)) + 1] = Last(s)
      /\ \A i \in 1 .. Len(Front(s)) : u[i] = Front(s)[i]
  BY <1>3, <1>4, AppendProperties
<1> HIDE DEF u
<1>6. Len(u) = Len(s)
  BY <1>1, <1>3, <1>5
<1>7. ASSUME NEW i \in 1 .. Len(u) PROVE u[i] = s[i]
  <2>1. CASE i = Len(s)
    BY <1>1, <1>3, <1>5, <2>1 DEF Last
  <2>2. CASE i # Len(s)
    <3>1. i \in 1 .. Len(s) - 1 /\ i \in 1 .. Len(Front(s))
      BY <1>1, <1>3, <1>6, <2>2
    <3> QED BY <1>3, <1>5, <3>1
  <2> QED BY <2>1, <2>2
<1>8. u = s
  BY <1>5, <1>6, <1>7, SeqEqual
<1> QED BY <1>3, <1>8 DEF u

-----------------------------------------------------------------------------
(* The bytes from the host.                                                *)

TypedIn == /\ rx \in [Port -> Seq(Char)] /\ buf \in [Port -> Seq(Char)]
           /\ sent \in [Port -> Seq(Char)] /\ heard \in Seq(Line) /\ pasted \in BOOLEAN

\* The mouse port may only lose what overflows its buffer.
Intact(p) == p = "kbd" \/ Len(sent[p]) < Size
Kept(p) == Join(Join(RaisedIn(heard, p), buf[p]), rx[p]) = sent[p]

NoCR(s) == \A i \in 1 .. Len(s) : s[i] # CR

(***************************************************************************)
(* The inductive invariant.  That no event holds two lines rests on the    *)
(* driver never having more than one byte to read at a time, so that an    *)
(* ENTER is always the last of what is read.                               *)
(***************************************************************************)
ByHand == /\ \A p \in Port : Len(rx[p]) <= 1 /\ NoCR(buf[p])
          /\ \A i \in 1 .. Len(heard) : NoCR(heard[i].text)

TextInv == /\ TypedIn
           /\ \A p \in Port : Len(buf[p]) <= Size
           /\ \A p \in Port : Intact(p) => Kept(p)
           /\ ~pasted => ByHand

LEMMA Texts ==
  ASSUME TypedIn, NEW p \in Port
  PROVE  /\ rx[p] \in Seq(Char) /\ buf[p] \in Seq(Char) /\ sent[p] \in Seq(Char)
         /\ Len(rx[p]) \in Nat /\ Len(buf[p]) \in Nat /\ Len(sent[p]) \in Nat
         /\ RaisedIn(heard, p) \in Seq(Char)
<1>1. rx[p] \in Seq(Char) /\ buf[p] \in Seq(Char) /\ sent[p] \in Seq(Char) /\ heard \in Seq(Line)
  BY DEF TypedIn
<1>2. [port |-> p, text |-> <<>>] \in Line
  BY EmptySeq DEF Line
<1>3. RaisedIn(heard, p) \in Seq(Char)
  BY <1>1, <1>2, RaisedAppend
<1> QED BY <1>1, <1>3, LenNat

LEMMA TextInit == Init => TextInv
<1> SUFFICES ASSUME Init PROVE TextInv
  OBVIOUS
<1>1. <<>> \in Seq(Char) /\ <<>> \in Seq(Line) /\ Len(<<>>) = 0
  BY EmptySeq
<1>2. TypedIn
  BY <1>1 DEF Init, TypedIn
<1>3. heard = <<>> /\ \A p \in Port : rx[p] = <<>> /\ buf[p] = <<>> /\ sent[p] = <<>>
  BY DEF Init
<1>4. ASSUME NEW p \in Port PROVE Len(buf[p]) <= Size
  BY <1>1, <1>3, PortsAssumption
<1>5. ASSUME NEW p \in Port PROVE Kept(p)
  <2>1. RaisedIn(<<>>, p) = <<>>
    <3>1. DOMAIN <<>> = 1 .. 0
      BY <1>1, LenProperties
    <3>2. [i \in DOMAIN <<>> |-> Of(<<>>[i], p)] = <<>>
      BY <3>1
    <3> QED BY <1>1, <3>2 DEF RaisedIn, FlattenSeq
  <2> QED BY <1>1, <1>3, <2>1, JoinEmpty DEF Kept
<1>6. ByHand
  BY <1>1, <1>3 DEF ByHand, NoCR
<1> QED BY <1>2, <1>4, <1>5, <1>6 DEF TextInv

LEMMA TextHostSends ==
  ASSUME TextInv, NEW p \in Port, NEW c \in Char, HostSends(p, c) PROVE TextInv'
<1>1. /\ rx[p] \in Seq(Char) /\ buf[p] \in Seq(Char) /\ sent[p] \in Seq(Char)
      /\ Len(sent[p]) \in Nat /\ RaisedIn(heard, p) \in Seq(Char)
  BY Texts DEF TextInv
<1>2. Append(rx[p], c) \in Seq(Char) /\ Append(sent[p], c) \in Seq(Char)
      /\ Len(Append(rx[p], c)) = Len(rx[p]) + 1 /\ Len(Append(sent[p], c)) = Len(sent[p]) + 1
  BY <1>1, AppendProperties
<1>3. /\ rx' = [rx EXCEPT ![p] = Append(rx[p], c)] /\ sent' = [sent EXCEPT ![p] = Append(sent[p], c)]
      /\ pasted' = (pasted \/ rx[p] # <<>>) /\ UNCHANGED <<buf, heard>>
  BY DEF HostSends
<1>4. rx'[p] = Append(rx[p], c) /\ sent'[p] = Append(sent[p], c)
      /\ \A q \in Port : q # p => rx'[q] = rx[q] /\ sent'[q] = sent[q]
  BY <1>3 DEF TextInv, TypedIn
<1>5. TypedIn'
  BY <1>2, <1>3 DEF TextInv, TypedIn
<1>6. \A q \in Port : Len(buf'[q]) <= Size
  BY <1>3 DEF TextInv
<1>7. Intact(p)' => Kept(p)'
  <2>1. Intact(p)' => Intact(p)
    BY <1>1, <1>2, <1>4, PortsAssumption DEF Intact
  <2>2. Kept(p) => Kept(p)'
    <3>1. Join(RaisedIn(heard, p), buf[p]) \in Seq(Char)
      BY <1>1, JoinType
    <3>2. Join(Join(RaisedIn(heard, p), buf[p]), Append(rx[p], c))
            = Append(Join(Join(RaisedIn(heard, p), buf[p]), rx[p]), c)
      BY <1>1, <3>1, AppendJoin
    <3> QED BY <1>3, <1>4, <3>2 DEF Kept
  <2> QED BY <2>1, <2>2 DEF TextInv
<1>8. ASSUME NEW q \in Port, q # p PROVE Intact(q)' => Kept(q)'
  BY <1>3, <1>4, <1>8 DEF TextInv, Intact, Kept
<1>9. ~pasted' => ByHand'
  <2>1. SUFFICES ASSUME ~pasted' PROVE ByHand'
    OBVIOUS
  <2>2. rx[p] = <<>> /\ ByHand
    BY <1>3, <2>1 DEF TextInv
  <2>3. Len(rx'[p]) <= 1
    BY <1>1, <1>2, <1>4, <2>2, LenNat
  <2> QED BY <1>3, <1>4, <2>2, <2>3 DEF ByHand
<1> QED BY <1>5, <1>6, <1>7, <1>8, <1>9 DEF TextInv

LEMMA SizeNat == Size \in Nat \ {0}
BY PortsAssumption

\* The size of a read, and how full it leaves a buffer.
LEMMA ReadSize ==
  ASSUME NEW held \in Nat, NEW used \in Nat, NEW size \in Nat, used <= size
  PROVE  \A n : n = (IF held < size - used THEN held ELSE size - used) /\ n > 0
                  => n \in 1 .. held /\ n <= size - used
OBVIOUS

LEMMA FillSize ==
  ASSUME NEW given \in Nat, NEW raised \in Nat, NEW used \in Nat, NEW held \in Nat,
         NEW size \in Nat, given = raised + used + held, given < size
  PROVE  \A n \in 1 .. held : used + n < size
OBVIOUS

LEMMA TextReadChunk == ASSUME TextInv, NEW p \in Port, ReadChunk(p) PROVE TextInv'
<1> DEFINE n == BytesRead(p)
           b == Filled(p)
           line == [port |-> p, text |-> Front(b)]
<1>1. /\ rx[p] \in Seq(Char) /\ buf[p] \in Seq(Char) /\ sent[p] \in Seq(Char)
      /\ Len(rx[p]) \in Nat /\ Len(buf[p]) \in Nat /\ Len(sent[p]) \in Nat
      /\ RaisedIn(heard, p) \in Seq(Char) /\ Len(buf[p]) <= Size
  BY Texts DEF TextInv
<1>2. n \in 1 .. Len(rx[p]) /\ n <= Size - Len(buf[p])
  <2>1. n > 0
    BY DEF ReadChunk
  <2>2. n = IF Len(rx[p]) < Size - Len(buf[p]) THEN Len(rx[p]) ELSE Size - Len(buf[p])
    BY DEF BytesRead
  <2> HIDE DEF n
  <2> QED BY <1>1, <2>1, <2>2, SizeNat, ReadSize
<1>3. rx' = [rx EXCEPT ![p] = Rest(rx[p], n)] /\ UNCHANGED <<sent, pasted>>
  BY DEF ReadChunk, Rest
<1>4. b = Join(buf[p], First(rx[p], n))
  BY DEF Filled, Join, First
<1>5. \/ Last(b) = CR /\ heard' = Append(heard, line) /\ buf' = [buf EXCEPT ![p] = <<>>]
      \/ /\ Last(b) # CR /\ heard' = heard
         /\ buf' = [buf EXCEPT ![p] = IF Overflow(p, b) THEN <<>> ELSE b]
  BY DEF ReadChunk, Enter
<1> HIDE DEF n, b
<1>6. /\ First(rx[p], n) \in Seq(Char) /\ Rest(rx[p], n) \in Seq(Char)
      /\ Len(First(rx[p], n)) = n /\ Len(Rest(rx[p], n)) = Len(rx[p]) - n
      /\ Join(First(rx[p], n), Rest(rx[p], n)) = rx[p]
  <2>1. n \in 0 .. Len(rx[p])
    BY <1>2
  <2> QED BY <1>1, <2>1, Cut
<1>7. b \in Seq(Char)
  BY <1>1, <1>4, <1>6, JoinType
<1>8. Len(b) = Len(buf[p]) + n
  <2>1. Len(b) = Len(buf[p]) + Len(First(rx[p], n))
    BY <1>1, <1>4, <1>6, JoinType, Zenon
  <2> QED BY <1>6, <2>1
<1>9. Len(b) <= Size /\ Len(b) # 0 /\ b # <<>>
  <2>1. Len(b) <= Size /\ Len(b) # 0
    BY <1>1, <1>2, <1>8, PortsAssumption
  <2> QED BY <1>7, <2>1, LenNat
<1>10. /\ Front(b) \in Seq(Char) /\ Len(Front(b)) = Len(b) - 1
       /\ \A i \in 1 .. Len(b) - 1 : Front(b)[i] = b[i]
       /\ Append(Front(b), Last(b)) = b
  BY <1>7, <1>9, FrontLast
<1>11. line \in Line /\ <<>> \in Seq(Char) /\ Len(<<>>) = 0
  BY <1>10, EmptySeq DEF Line
<1>12. TypedIn'
  <2>1. rx' \in [Port -> Seq(Char)]
    BY <1>3, <1>6 DEF TextInv, TypedIn
  <2>2. buf' \in [Port -> Seq(Char)]
    BY <1>5, <1>7, <1>11 DEF TextInv, TypedIn
  <2>3. heard' \in Seq(Line)
    <3>1. heard \in Seq(Line)
      BY DEF TextInv, TypedIn
    <3>2. Append(heard, line) \in Seq(Line)
      BY <1>11, <3>1, AppendProperties
    <3> QED BY <1>5, <3>1, <3>2
  <2> QED BY <1>3, <2>1, <2>2, <2>3 DEF TextInv, TypedIn
<1>13. rx'[p] = Rest(rx[p], n) /\ (\A q \in Port : q # p => rx'[q] = rx[q] /\ buf'[q] = buf[q])
       /\ buf'[p] \in {<<>>, b}
  BY <1>3, <1>5 DEF TextInv, TypedIn
<1>14. \A q \in Port : Len(buf'[q]) <= Size
  <2>1. Len(buf'[p]) <= Size
    BY <1>9, <1>11, <1>13, PortsAssumption
  <2> QED BY <1>13, <2>1 DEF TextInv
\* Nothing is lost by a read.
<1>15. Join(Join(RaisedIn(heard, p), b), Rest(rx[p], n)) = Join(Join(RaisedIn(heard, p), buf[p]), rx[p])
  <2> DEFINE a == RaisedIn(heard, p)
             head == First(rx[p], n)
             tail == Rest(rx[p], n)
  <2> HIDE DEF a, head, tail
  <2>1. a \in Seq(Char) /\ head \in Seq(Char) /\ tail \in Seq(Char) /\ b = Join(buf[p], head)
        /\ Join(head, tail) = rx[p]
    BY <1>1, <1>4, <1>6 DEF a, head, tail
  <2>2. Join(Join(a, Join(buf[p], head)), tail) = Join(Join(a, buf[p]), Join(head, tail))
    BY <1>1, <2>1, JoinRegroup
  <2> QED BY <2>1, <2>2 DEF a, tail
\* A buffer that may only lose what overflows does not overflow.
<1>16. Intact(p) => ~Overflow(p, b)
  <2>1. SUFFICES ASSUME Intact(p), p # "kbd" PROVE Len(b) < Size
    BY <1>9, PortsAssumption DEF Overflow
  <2>2. Len(sent[p]) < Size /\ Kept(p)
    BY <2>1 DEF Intact, TextInv
  <2> DEFINE a == RaisedIn(heard, p)
  <2>3. a \in Seq(Char) /\ Join(Join(a, buf[p]), rx[p]) = sent[p]
    BY <1>1, <2>2 DEF Kept
  <2> HIDE DEF a
  <2>4. Join(a, buf[p]) \in Seq(Char) /\ Len(a) \in Nat
    BY <1>1, <2>3, JoinType, LenNat
  <2>5. Len(Join(a, buf[p])) = Len(a) + Len(buf[p])
    BY <1>1, <2>3, JoinType, Zenon
  <2>6. Len(sent[p]) = Len(Join(a, buf[p])) + Len(rx[p])
    BY <1>1, <2>3, <2>4, JoinType, Zenon
  <2>7. Len(sent[p]) = Len(a) + Len(buf[p]) + Len(rx[p])
    BY <2>5, <2>6, Zenon
  <2>8. Len(sent[p]) < Size
    BY <2>2
  <2> HIDE DEF line
  <2>9. Len(buf[p]) + n < Size
    BY <1>1, <1>2, <2>4, <2>7, <2>8, SizeNat, FillSize
  <2> QED BY <1>8, <2>9, Zenon
<1>17. ~pasted => n = 1 /\ Len(rx'[p]) <= 1 /\ \A i \in 1 .. Len(b) - 1 : b[i] # CR
  <2>1. SUFFICES ASSUME ~pasted PROVE n = 1 /\ Len(rx'[p]) <= 1 /\ \A i \in 1 .. Len(b) - 1 : b[i] # CR
    OBVIOUS
  <2>2. Len(rx[p]) <= 1 /\ NoCR(buf[p])
    BY <2>1 DEF TextInv, ByHand
  <2>3. n = 1 /\ Len(rx'[p]) <= 1
    BY <1>1, <1>2, <1>6, <1>13, <2>2
  <2>4. ASSUME NEW i \in 1 .. Len(b) - 1 PROVE b[i] # CR
    <3>1. i \in 1 .. Len(buf[p]) /\ i \in 1 .. Len(buf[p]) + Len(First(rx[p], n)) /\ i <= Len(buf[p])
      BY <1>1, <1>6, <1>8, <2>3
    <3>2. b[i] = buf[p][i]
      BY <1>1, <1>4, <1>6, <3>1, JoinAt
    <3> QED BY <2>2, <3>1, <3>2 DEF NoCR
  <2> QED BY <2>3, <2>4
<1>18. CASE Last(b) = CR /\ heard' = Append(heard, line) /\ buf' = [buf EXCEPT ![p] = <<>>]
  <2>1. ASSUME NEW q \in Port
        PROVE  /\ RaisedIn(heard', q) = Join(RaisedIn(heard, q), Of(line, q))
               /\ RaisedIn(heard, q) \in Seq(Char)
    BY <1>11, <1>18, RaisedAppend DEF TextInv, TypedIn, Join
  <2>2. Of(line, p) = b /\ \A q \in Port : q # p => Of(line, q) = <<>>
    BY <1>10, <1>18 DEF Of
  <2> HIDE DEF line
  <2>3. buf'[p] = <<>>
    BY <1>18 DEF TextInv, TypedIn
  <2>4. Intact(p)' => Kept(p)'
    <3>1. Join(RaisedIn(heard, p), b) \in Seq(Char)
      BY <1>1, <1>7, JoinType
    <3>2. Join(RaisedIn(heard', p), buf'[p]) = Join(RaisedIn(heard, p), b)
      BY <2>1, <2>2, <2>3, <3>1, JoinEmpty
    <3>3. Join(Join(RaisedIn(heard', p), buf'[p]), rx'[p]) = Join(Join(RaisedIn(heard, p), buf[p]), rx[p])
      BY <1>13, <1>15, <3>2
    <3> QED BY <1>3, <3>3 DEF TextInv, Intact, Kept
  <2>5. ASSUME NEW q \in Port, q # p PROVE Intact(q)' => Kept(q)'
    <3>1. RaisedIn(heard', q) = RaisedIn(heard, q)
      BY <2>1, <2>2, <2>5, JoinEmpty
    <3> QED BY <1>3, <1>13, <2>5, <3>1 DEF TextInv, Intact, Kept
  <2>6. ~pasted' => ByHand'
    <3>1. SUFFICES ASSUME ~pasted PROVE ByHand'
      BY <1>3
    <3>2. ByHand /\ Len(rx'[p]) <= 1 /\ \A i \in 1 .. Len(b) - 1 : b[i] # CR
      BY <1>17, <3>1 DEF TextInv
    <3>3. NoCR(buf'[p])
      BY <1>11, <2>3 DEF NoCR
    <3>4. NoCR(line.text)
      BY <1>10, <3>2 DEF NoCR, line
    <3>5. Len(heard) \in Nat /\ Len(heard') = Len(heard) + 1 /\ heard'[Len(heard) + 1] = line
          /\ \A i \in 1 .. Len(heard) : heard'[i] = heard[i]
      BY <1>11, <1>18, AppendProperties, LenProperties DEF TextInv, TypedIn
    <3>6. ASSUME NEW i \in 1 .. Len(heard') PROVE NoCR(heard'[i].text)
      <4>1. CASE i = Len(heard) + 1
        BY <3>4, <3>5, <4>1
      <4>2. CASE i # Len(heard) + 1
        <5>1. i \in 1 .. Len(heard)
          BY <3>5, <4>2
        <5> QED BY <3>2, <3>5, <5>1 DEF ByHand
      <4> QED BY <4>1, <4>2
    <3>7. ASSUME NEW q \in Port PROVE Len(rx'[q]) <= 1 /\ NoCR(buf'[q])
      BY <1>13, <3>2, <3>3 DEF ByHand
    <3> QED BY <3>6, <3>7 DEF ByHand
  <2> QED BY <1>12, <1>14, <2>4, <2>5, <2>6 DEF TextInv
<1>19. CASE /\ Last(b) # CR /\ heard' = heard
            /\ buf' = [buf EXCEPT ![p] = IF Overflow(p, b) THEN <<>> ELSE b]
  <2>1. Intact(p)' => Kept(p)'
    <3>1. SUFFICES ASSUME Intact(p) PROVE Kept(p)'
      BY <1>3 DEF Intact
    <3>2. buf'[p] = b
      BY <1>16, <1>19, <3>1 DEF TextInv, TypedIn
    <3> QED BY <1>3, <1>13, <1>15, <1>19, <3>1, <3>2 DEF TextInv, Kept
  <2>2. ASSUME NEW q \in Port, q # p PROVE Intact(q)' => Kept(q)'
    BY <1>3, <1>13, <1>19, <2>2 DEF TextInv, Intact, Kept
  <2>3. ~pasted' => ByHand'
    <3>1. SUFFICES ASSUME ~pasted PROVE ByHand'
      BY <1>3
    <3>2. ByHand /\ Len(rx'[p]) <= 1 /\ \A i \in 1 .. Len(b) - 1 : b[i] # CR
      BY <1>17, <3>1 DEF TextInv
    <3>3. NoCR(b)
      <4>1. Len(b) \in Nat /\ b[Len(b)] # CR
        BY <1>7, <1>19, LenNat DEF Last
      <4>2. ASSUME NEW i \in 1 .. Len(b) PROVE b[i] # CR
        <5>1. i = Len(b) \/ i \in 1 .. Len(b) - 1
          BY <4>1
        <5> QED BY <3>2, <4>1, <5>1
      <4> QED BY <4>2 DEF NoCR
    <3>4. NoCR(buf'[p])
      BY <1>11, <1>13, <3>3 DEF NoCR
    <3>5. ASSUME NEW q \in Port PROVE Len(rx'[q]) <= 1 /\ NoCR(buf'[q])
      BY <1>13, <3>2, <3>4 DEF ByHand
    <3> QED BY <1>19, <3>2, <3>5 DEF ByHand
  <2> QED BY <1>12, <1>14, <2>1, <2>2, <2>3 DEF TextInv
<1> QED BY <1>5, <1>18, <1>19

\* Every other step leaves the bytes from the host alone.
LEMMA TextStays == TextInv /\ UNCHANGED rxVars => TextInv'
BY DEF TextInv, TypedIn, Intact, Kept, ByHand, rxVars

LEMMA TextNext == TextInv /\ [Next]_vars => TextInv'
<1> SUFFICES ASSUME TextInv, [Next]_vars PROVE TextInv'
  OBVIOUS
<1>1. CASE UNCHANGED vars
  BY <1>1, TextStays DEF vars
<1>2. CASE Main
  BY <1>2, TextStays DEF Main, TakeLine, TxEnable, Clear, Fill, Wait, TxDisable
<1>3. ASSUME NEW p \in Port, HostReads(p) \/ Handler(p) \/ ReadNothing(p) PROVE TextInv'
  BY <1>3, TextStays DEF HostReads, Handler, ReadNothing
<1>4. ASSUME NEW p \in Port, NEW c \in Letter \union {CR}, HostSends(p, c) PROVE TextInv'
  BY <1>4, TextHostSends DEF Char
<1> QED BY <1>1, <1>2, <1>3, <1>4, TextReadChunk DEF Next

LEMMA TextInvariant == Spec => []TextInv
BY TextInit, TextNext, PTL DEF Spec

(***************************************************************************)
(* NothingLost (see CdcPorts): however the bytes are cut, and for every    *)
(* size of the buffers.                                                    *)
(***************************************************************************)
THEOREM EveryByteIsKept == Spec => []NothingLost
<1>1. TextInv => NothingLost
  BY RaisedIs DEF TextInv, Intact, Kept, Join, NothingLost
<1> QED BY <1>1, TextInvariant, PTL

(***************************************************************************)
(* OneEventPerLine (see CdcPorts): what is typed by hand is one event per  *)
(* ENTER.                                                                  *)
(***************************************************************************)
THEOREM LinesStayApart == Spec => []OneEventPerLine
<1>1. ASSUME TextInv PROVE OneEventPerLine
  <2>1. SUFFICES ASSUME ~pasted, NEW i \in DOMAIN heard PROVE CR \notin Range(heard[i].text)
    BY DEF OneEventPerLine
  <2>2. i \in 1 .. Len(heard) /\ heard[i] \in Line
    BY <1>1, LenProperties, ElementOfSeq DEF TextInv, TypedIn
  <2>3. heard[i].text \in Seq(Char) /\ NoCR(heard[i].text)
    BY <1>1, <2>1, <2>2 DEF TextInv, ByHand, Line
  <2>4. DOMAIN heard[i].text = 1 .. Len(heard[i].text)
    BY <2>3, LenProperties
  <2> QED BY <2>3, <2>4 DEF NoCR, Range
<1> QED BY <1>1, TextInvariant, PTL

(***************************************************************************)
(* FullForGood (see CdcPorts): the keyboard handler never gives up a full  *)
(* buffer.                                                                 *)
(***************************************************************************)
THEOREM FullStaysFull == Spec => FullForGood
<1>1. ASSUME TextInv, [Next]_vars, Len(buf["kbd"]) = Size PROVE buf'["kbd"] = buf["kbd"]
  <2>1. "kbd" \in Port /\ buf \in [Port -> Seq(Char)] /\ Len(rx["kbd"]) \in Nat
    BY <1>1, Texts DEF TextInv, TypedIn, Port
  <2>2. ~ReadChunk("kbd")
    <3>1. ReadChunk("kbd") => BytesRead("kbd") > 0
      BY DEF ReadChunk
    <3>2. BytesRead("kbd") <= 0
      BY <1>1, <2>1, SizeNat DEF BytesRead
    <3>3. BytesRead("kbd") \in Int
      BY <1>1, <2>1, SizeNat DEF BytesRead
    <3> QED BY <3>1, <3>2, <3>3
  <2>3. ASSUME NEW p \in Port, p # "kbd", ReadChunk(p) PROVE buf'["kbd"] = buf["kbd"]
    BY <2>1, <2>3 DEF ReadChunk, Enter
  <2>4. CASE UNCHANGED buf
    BY <2>4
  <2>5. CASE UNCHANGED vars \/ Main
    BY <2>4, <2>5 DEF vars, rxVars, Main, TakeLine, TxEnable, Clear, Fill, Wait, TxDisable
  <2>6. ASSUME NEW p \in Port, HostReads(p) \/ Handler(p) \/ ReadNothing(p) PROVE UNCHANGED buf
    BY <2>6 DEF rxVars, HostReads, Handler, ReadNothing
  <2>7. ASSUME NEW p \in Port, NEW c \in Letter \union {CR}, HostSends(p, c) PROVE UNCHANGED buf
    BY <2>7 DEF HostSends
  <2> QED BY <1>1, <2>2, <2>3, <2>4, <2>5, <2>6, <2>7 DEF Next
<1> QED BY <1>1, TextInvariant, PTL DEF Spec, FullForGood

-----------------------------------------------------------------------------
(* The answers.                                                            *)

Orders == {<<"mouse">>, <<"kbd">>, <<"mouse", "kbd">>}
Places == {"idle", "enable", "clear", "fill", "wait", "disable"}

LEMMA Order ==
  ASSUME NEW order \in Orders
  PROVE  /\ Head(order) \in Port
         /\ Len(order) # 1 => Tail(order) \in Orders
<1>1. CASE order = <<"mouse">>
  BY <1>1 DEF Port
<1>2. CASE order = <<"kbd">>
  BY <1>2 DEF Port
<1>3. CASE order = <<"mouse", "kbd">>
  <2>1. Head(order) = "mouse"
    BY <1>3
  <2>2. Tail(order) = <<"kbd">>
    <3>1. Len(Tail(order)) = 1 /\ Tail(order)[1] = "kbd"
      BY <1>3
    <3>2. Tail(order) \in Seq({"mouse", "kbd"}) /\ <<"kbd">> \in Seq({"mouse", "kbd"})
      BY <1>3
    <3>3. Len(<<"kbd">>) = Len(Tail(order))
      BY <3>1
    <3>4. \A i \in 1 .. Len(Tail(order)) : Tail(order)[i] = <<"kbd">>[i]
      BY <3>1
    <3> QED BY <3>2, <3>3, <3>4, SeqEqual
  <2> QED BY <2>1, <2>2 DEF Port, Orders
<1> QED BY <1>1, <1>2, <1>3 DEF Orders

\* What of the answer of port p is still to be handed over.
Owed(p) == IF at \in {"clear", "fill", "wait", "disable"} /\ Head(todo) = p THEN rest ELSE 0
Balanced(p) == asked[p] = seen[p] + tx[p] + Owed(p)

TypedOut == /\ tx \in [Port -> Nat] /\ asked \in [Port -> Nat] /\ seen \in [Port -> Nat]
            /\ rest \in Nat

(***************************************************************************)
(* The inductive invariant: main leaves write_data with nothing owed,      *)
(* since Wait goes back to clear until the driver has taken everything.    *)
(***************************************************************************)
OutputInv == /\ TypedOut
             /\ at \in Places /\ (at = "idle" \/ todo \in Orders)
             /\ at = "disable" => rest = 0
             /\ \A p \in Port : tx[p] <= TxRing
             /\ \A p \in Port : Balanced(p)

LEMMA OutputInit == Init => OutputInv
BY PortsAssumption DEF Init, OutputInv, TypedOut, Places, Orders, Balanced, Owed, Port

LEMMA OutputHostReads == ASSUME OutputInv, NEW p \in Port, HostReads(p) PROVE OutputInv'
<1>1. PICK n \in 1 .. tx[p] : /\ tx' = [tx EXCEPT ![p] = @ - n]
                              /\ seen' = [seen EXCEPT ![p] = @ + n]
  BY DEF HostReads
<1>2. UNCHANGED <<at, todo, rest, asked>>
  BY DEF HostReads
<1>3. \A q \in Port : tx[q] \in Nat /\ seen[q] \in Nat /\ asked[q] \in Nat /\ tx[q] <= TxRing
  BY DEF OutputInv, TypedOut
<1>4. n \in Nat /\ n <= tx[p] /\ TxRing \in Nat
  BY <1>3, PortsAssumption
<1>5. tx[p] - n \in Nat /\ seen[p] + n \in Nat /\ tx[p] - n <= TxRing
  BY <1>3, <1>4
<1>6. TypedOut'
  BY <1>1, <1>2, <1>5 DEF OutputInv, TypedOut
<1>7. ASSUME NEW q \in Port
      PROVE  \/ tx'[q] = tx[q] /\ seen'[q] = seen[q]
             \/ tx'[q] = tx[q] - n /\ seen'[q] = seen[q] + n /\ tx[q] - n <= TxRing
  BY <1>1, <1>5 DEF OutputInv, TypedOut
<1>8. ASSUME NEW q \in Port PROVE tx'[q] <= TxRing /\ Balanced(q)'
  <2>1. Owed(q)' = Owed(q) /\ Owed(q) \in Nat
    BY <1>2 DEF Owed, OutputInv, TypedOut
  <2>2. asked'[q] = seen[q] + tx[q] + Owed(q)
    BY <1>2 DEF OutputInv, Balanced
  <2>3. tx'[q] <= TxRing /\ seen'[q] + tx'[q] = seen[q] + tx[q]
    BY <1>3, <1>4, <1>7
  <2>4. seen'[q] + tx'[q] + Owed(q) = seen[q] + tx[q] + Owed(q)
    BY <2>3
  <2> QED BY <2>1, <2>2, <2>3, <2>4 DEF Balanced
<1> QED BY <1>2, <1>6, <1>8 DEF OutputInv

\* Steps of main that hand nothing over: what is owed to each port stays.
LEMMA OutputMoves ==
  ASSUME OutputInv, UNCHANGED <<tx, seen, asked, rest>>,
         at' \in Places, at' = "idle" \/ todo' \in Orders, at' = "disable" => rest = 0,
         \A p \in Port : Owed(p)' = Owed(p)
  PROVE  OutputInv'
BY DEF OutputInv, TypedOut, Balanced

LEMMA OutputTxEnable == ASSUME OutputInv, TxEnable PROVE OutputInv'
<1> DEFINE p == Head(todo)
<1>1. /\ at = "enable" /\ at' = "clear" /\ rest' = Reply /\ UNCHANGED <<tx, todo, seen>>
      /\ asked' = [asked EXCEPT ![p] = @ + Reply]
  BY DEF TxEnable
<1>2. todo \in Orders /\ p \in Port /\ Reply \in Nat
  BY <1>1, Order, PortsAssumption DEF OutputInv
<1>3. \A q \in Port : tx[q] \in Nat /\ seen[q] \in Nat /\ asked[q] \in Nat
  BY DEF OutputInv, TypedOut
<1>4. TypedOut'
  BY <1>1, <1>2, <1>3 DEF OutputInv, TypedOut
<1>5. ASSUME NEW q \in Port PROVE Balanced(q)'
  <2>1. Owed(q) = 0 /\ Owed(q)' = IF p = q THEN Reply ELSE 0
    BY <1>1 DEF Owed
  <2>2. asked[q] = seen[q] + tx[q]
    BY <1>3, <2>1 DEF OutputInv, Balanced
  <2>3. asked'[q] = IF p = q THEN asked[q] + Reply ELSE asked[q]
    BY <1>1, <1>2 DEF OutputInv, TypedOut
  <2> HIDE DEF p
  <2>4. asked'[q] = seen[q] + tx[q] + Owed(q)'
    BY <1>2, <1>3, <2>1, <2>2, <2>3
  <2> QED BY <1>1, <2>4 DEF Balanced
<1> QED BY <1>1, <1>2, <1>4, <1>5 DEF OutputInv, Places

LEMMA OutputFill == ASSUME OutputInv, Fill PROVE OutputInv'
<1> DEFINE p == Head(todo)
           room == TxRing - tx[p]
           written == IF rest < room THEN rest ELSE room
<1>1. /\ at = "fill" /\ at' = "wait" /\ UNCHANGED <<todo, seen, asked>>
      /\ tx' = [tx EXCEPT ![p] = @ + written] /\ rest' = rest - written
  BY DEF Fill
<1>2. todo \in Orders /\ p \in Port /\ TxRing \in Nat /\ rest \in Nat
  BY <1>1, Order, PortsAssumption DEF OutputInv, TypedOut
<1>3. \A q \in Port : tx[q] \in Nat /\ seen[q] \in Nat /\ asked[q] \in Nat /\ tx[q] <= TxRing
  BY DEF OutputInv, TypedOut
<1> HIDE DEF p
<1>4. written \in Nat /\ rest - written \in Nat /\ tx[p] + written \in Nat
      /\ tx[p] + written <= TxRing
  BY <1>2, <1>3
<1> HIDE DEF written
<1>5. TypedOut'
  BY <1>1, <1>2, <1>4 DEF OutputInv, TypedOut
<1>6. ASSUME NEW q \in Port PROVE tx'[q] <= TxRing /\ Balanced(q)'
  <2>1. /\ Owed(q) = IF p = q THEN rest ELSE 0
        /\ Owed(q)' = IF p = q THEN rest - written ELSE 0
    BY <1>1 DEF Owed, p
  <2>2. asked[q] = seen[q] + tx[q] + Owed(q)
    BY DEF OutputInv, Balanced
  <2>3. tx'[q] = IF p = q THEN tx[q] + written ELSE tx[q]
    BY <1>1, <1>2 DEF OutputInv, TypedOut
  <2>4. tx'[q] <= TxRing
    BY <1>3, <1>4, <2>3
  <2>5. asked[q] = seen[q] + tx'[q] + Owed(q)'
    BY <1>2, <1>3, <1>4, <2>1, <2>2, <2>3
  <2> QED BY <1>1, <2>4, <2>5 DEF Balanced
<1> QED BY <1>1, <1>2, <1>5, <1>6 DEF OutputInv, Places

LEMMA OutputNext == OutputInv /\ [Next]_vars => OutputInv'
<1> SUFFICES ASSUME OutputInv, [Next]_vars PROVE OutputInv'
  OBVIOUS
<1>1. ASSUME UNCHANGED <<tx, at, todo, rest, asked, seen>> PROVE OutputInv'
  BY <1>1 DEF OutputInv, TypedOut, Balanced, Owed
<1>2. CASE UNCHANGED vars
  BY <1>1, <1>2 DEF vars, txVars
<1>3. ASSUME NEW p \in Port, Handler(p) \/ ReadChunk(p) \/ ReadNothing(p) PROVE OutputInv'
  BY <1>1, <1>3 DEF Handler, ReadChunk, ReadNothing, txVars
<1>4. ASSUME NEW p \in Port, NEW c \in Letter \union {CR}, HostSends(p, c) PROVE OutputInv'
  BY <1>1, <1>4 DEF HostSends, txVars
<1>5. CASE TakeLine
  <2>1. todo' \in Orders
    BY <1>5 DEF TakeLine, Answers, Orders
  <2>2. at = "idle" /\ at' = "enable" /\ UNCHANGED <<tx, seen, asked, rest>>
    BY <1>5 DEF TakeLine
  <2>3. \A p \in Port : Owed(p)' = Owed(p)
    BY <2>2 DEF Owed
  <2> QED BY <2>1, <2>2, <2>3, OutputMoves DEF Places
<1>6. CASE Clear
  <2>1. at = "clear" /\ at' = "fill" /\ todo' = todo /\ UNCHANGED <<tx, seen, asked, rest>>
    BY <1>6 DEF Clear
  <2>2. \A p \in Port : Owed(p)' = Owed(p)
    BY <2>1 DEF Owed
  <2> QED BY <2>1, <2>2, OutputMoves DEF Places, OutputInv
<1>7. CASE Wait
  <2>1. at = "wait" /\ todo' = todo /\ UNCHANGED <<tx, seen, asked, rest>>
        /\ at' = IF rest > 0 THEN "clear" ELSE "disable"
    BY <1>7 DEF Wait
  <2>2. \A p \in Port : Owed(p)' = Owed(p)
    BY <2>1 DEF Owed
  <2>3. at' = "disable" => rest = 0
    BY <2>1 DEF OutputInv, TypedOut
  <2> QED BY <2>1, <2>2, <2>3, OutputMoves DEF Places, OutputInv
<1>8. CASE TxDisable
  <2>1. at = "disable" /\ rest = 0 /\ todo \in Orders /\ todo' = Tail(todo)
        /\ at' = (IF Len(todo) = 1 THEN "idle" ELSE "enable")
        /\ UNCHANGED <<tx, seen, asked, rest>>
    BY <1>8 DEF TxDisable, OutputInv
  <2>2. \A p \in Port : Owed(p)' = Owed(p)
    BY <2>1 DEF Owed
  <2>3. at' = "idle" \/ todo' \in Orders
    BY <2>1, Order
  <2> QED BY <2>1, <2>2, <2>3, OutputMoves DEF Places
<1>9. CASE TxEnable
  BY <1>9, OutputTxEnable
<1>10. CASE Fill
  BY <1>10, OutputFill
<1>11. ASSUME NEW p \in Port, HostReads(p) PROVE OutputInv'
  BY <1>11, OutputHostReads
<1> QED BY <1>2, <1>3, <1>4, <1>5, <1>6, <1>7, <1>8, <1>9, <1>10, <1>11 DEF Next, Main

(***************************************************************************)
(* TextArrives (see CdcPorts): for every size of the ring, of an answer    *)
(* and of what the driver takes at a time.                                 *)
(***************************************************************************)
THEOREM EveryAnswerArrives == Spec => []TextArrives
<1>1. OutputInv => TextArrives
  BY DEF OutputInv, Balanced, Owed, TextArrives
<1> QED BY <1>1, OutputInit, OutputNext, PTL DEF Spec
=============================================================================

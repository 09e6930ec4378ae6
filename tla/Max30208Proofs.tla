--------------------------- MODULE Max30208Proofs ---------------------------
(***************************************************************************)
(* Proofs about Max30208, for a FIFO of any depth.                         *)
(***************************************************************************)
EXTENDS Max30208, SequenceTheorems, TLAPS

-----------------------------------------------------------------------------
(* The scripts, as far as the proofs need them.                            *)

Names == {"init", "trigger", "measure", "read", "raw", "status", "reset", "high", "low",
          "gpio", "interrupts", "mode"}

LEMMA ScriptNames == DOMAIN Scripts = Names
BY DEF Scripts, ScriptsThat, Names

LEMMA TriggerScript == /\ Len(Scripts["trigger"]) = 4
                       /\ Scripts["trigger"][1] = "FLUSH" /\ Scripts["trigger"][2] = "TEMP"
                       /\ Scripts["trigger"][3] = "CONVERT" /\ Scripts["trigger"][4] = "TEMP"
<1> DEFINE a == <<"FLUSH">>
           b == <<"TEMP", "CONVERT", "TEMP">>
           S == {"FLUSH", "TEMP", "CONVERT"}
<1>1. /\ a \in Seq(S) /\ Len(a) = 1 /\ a[1] = "FLUSH"
      /\ b \in Seq(S) /\ Len(b) = 3 /\ b[1] = "TEMP" /\ b[2] = "CONVERT" /\ b[3] = "TEMP"
  OBVIOUS
<1>2. Scripts["trigger"] = a \o b
  BY DEF Scripts, ScriptsThat, Measurement
<1> HIDE DEF a, b, S
<1>3. /\ Len(a \o b) = Len(a) + Len(b)
      /\ \A i \in 1 .. Len(a) + Len(b) : (a \o b)[i] = IF i <= Len(a) THEN a[i] ELSE b[i - Len(a)]
  BY <1>1, ConcatProperties, Zenon
<1>4. /\ Len(a \o b) = 4 /\ (a \o b)[1] = a[1] /\ (a \o b)[2] = b[1]
      /\ (a \o b)[3] = b[2] /\ (a \o b)[4] = b[3]
  BY <1>1, <1>3
<1> QED BY <1>1, <1>2, <1>4

LEMMA ReadScripts == /\ Len(Scripts["read"]) = 1 /\ Scripts["read"][1] = "FIFO"
                     /\ Len(Scripts["raw"]) = 4
BY DEF Scripts, ScriptsThat

LEMMA ScriptLength == \A r \in Names : 1 <= Len(Scripts[r]) /\ Len(Scripts[r]) \in 1 .. 5
<1>1. 1 <= Len(Scripts["trigger"]) /\ Len(Scripts["trigger"]) \in 1 .. 5
  BY TriggerScript
<1>2. \A r \in Names \ {"trigger"} : 1 <= Len(Scripts[r]) /\ Len(Scripts[r]) \in 1 .. 5
  BY DEF Names, Scripts, ScriptsThat, StartUp, Measurement, Alarm, Pins, Interrupts
<1> QED BY <1>1, <1>2

LEMMA NoticedEnds == <<"read", 1>> \in Noticed
BY DEF Noticed

-----------------------------------------------------------------------------
(* The FIFO.                                                               *)

Entry == {"old", "new"}

AllNew(f) == \A i \in 1 .. Len(f) : f[i] = "new"

LEMMA Popped == ASSUME NEW f \in Seq(Entry), f # <<>>
                PROVE  /\ Tail(f) \in Seq(Entry) /\ Len(Tail(f)) = Len(f) - 1 /\ Len(f) \in Nat \ {0}
                       /\ \A i \in 1 .. Len(Tail(f)) : Tail(f)[i] = f[i + 1]
                       /\ Head(f) = f[1] /\ Head(f) \in Entry
<1>1. /\ Head(f) \in Entry /\ Tail(f) \in Seq(Entry) /\ Len(Tail(f)) = Len(f) - 1
      /\ \A i \in 1 .. Len(Tail(f)) : Tail(f)[i] = f[i + 1]
  BY HeadTailProperties, Zenon
<1>2. Len(f) \in Nat \ {0} /\ Head(f) = f[1]
  OBVIOUS
<1> QED BY <1>1, <1>2

LEMMA AgedFifo == ASSUME NEW newest \in BOOLEAN, fifo \in Seq(Entry)
                  PROVE  /\ Aged(newest) \in Seq(Entry) /\ Len(Aged(newest)) = Len(fifo)
                         /\ newest /\ fifo # <<>> => Aged(newest)[Len(fifo)] = "new"
<1>1. DOMAIN fifo = 1 .. Len(fifo) /\ Len(fifo) \in Nat /\ (fifo # <<>> => Len(fifo) # 0)
  OBVIOUS
<1>2. Aged(newest) = [i \in 1 .. Len(fifo) |-> IF newest /\ i = Len(fifo) THEN "new" ELSE "old"]
  BY <1>1 DEF Aged
<1>3. \A i \in 1 .. Len(fifo) : Aged(newest)[i] \in Entry
  BY <1>2 DEF Entry
<1>4. Aged(newest) \in [1 .. Len(fifo) -> Entry]
  BY <1>2, <1>3
<1>5. Aged(newest) \in Seq(Entry) /\ Len(Aged(newest)) = Len(fifo)
  BY <1>1, <1>4
<1>6. newest /\ fifo # <<>> => Len(fifo) \in 1 .. Len(fifo)
  BY <1>1
<1>7. newest /\ fifo # <<>> => Aged(newest)[Len(fifo)] = "new"
  BY <1>2, <1>6
<1> QED BY <1>5, <1>7

-----------------------------------------------------------------------------
(***************************************************************************)
(* The inductive invariant.  Of the FIFO it says which entries are new: in *)
(* main's turn, all of them from the flush on; in GetRawData, all that lie *)
(* behind the samples still to be read but one.                            *)
(***************************************************************************)
PlaceInv == IF routine = "none" THEN place = 1 ELSE place <= Len(Scripts[routine])

TurnInv ==
  /\ triggered /\ routine \in {"none", "read"} => AllNew(fifo) /\ (converting \/ fifo # <<>>)
  /\ routine = "trigger" /\ ~missed /\ place >= 2 => AllNew(fifo)
  /\ routine = "trigger" /\ ~missed /\ place >= 4 => converting \/ fifo # <<>>
  /\ routine = "read" /\ due => fifo # <<>> /\ AllNew(fifo)

LeftInv == routine = "raw" /\ place = 4 => left >= 1
OverflowInv == overflow => Len(fifo) = Depth

CountInv ==
  /\ routine = "raw" /\ place < 4 => ~due
  /\ routine = "raw" /\ place = 4 /\ due /\ ~missed =>
       left <= Len(fifo) /\ \A i \in left .. Len(fifo) : fifo[i] = "new"

FirstNoticed(r) == IF r = "trigger" THEN 2 ELSE 1
AnswerInv == routine \notin Deaf \cup {"none"} /\ place > FirstNoticed(routine) => answered

MaxInv == Max30208TypeOK /\ PlaceInv /\ TurnInv /\ LeftInv /\ OverflowInv /\ CountInv /\ AnswerInv

LEMMA Types == Max30208TypeOK => /\ routine \in {"none"} \cup Names /\ fifo \in Seq(Entry)
                                 /\ Len(fifo) \in Nat /\ place \in 1 .. 5 /\ left \in Nat
                                 /\ Len(fifo) <= Depth /\ Depth \in Nat \ {0}
<1> SUFFICES ASSUME Max30208TypeOK PROVE /\ routine \in {"none"} \cup Names /\ fifo \in Seq(Entry)
                                         /\ Len(fifo) \in Nat /\ place \in 1 .. 5 /\ left \in Nat
                                         /\ Len(fifo) <= Depth /\ Depth \in Nat \ {0}
  OBVIOUS
<1>1. routine \in {"none"} \cup Names
  BY ScriptNames DEF Max30208TypeOK
<1>2. fifo \in Seq(Entry) /\ Len(fifo) <= Depth /\ place \in 1 .. 5 /\ left \in 0 .. Depth
  BY DEF Max30208TypeOK, Entry
<1> QED BY <1>1, <1>2, DepthAssumption

\* A non-deaf call has an access whose error ends it.
LEMMA Notices == \A r \in Names \ Deaf : /\ <<r, FirstNoticed(r)>> \in Noticed
                                         /\ FirstNoticed(r) <= Len(Scripts[r])
<1>1. \A r \in Names \ Deaf : <<r, FirstNoticed(r)>> \in Noticed
  BY DEF Names, Deaf, Noticed, FirstNoticed
<1>2. FirstNoticed("trigger") <= Len(Scripts["trigger"])
  BY TriggerScript DEF FirstNoticed
<1>3. ASSUME NEW r \in Names, r # "trigger" PROVE FirstNoticed(r) <= Len(Scripts[r])
  <2>1. FirstNoticed(r) = 1
    BY <1>3 DEF FirstNoticed
  <2> QED BY <2>1, ScriptLength, Zenon
<1> QED BY <1>1, <1>2, <1>3

-----------------------------------------------------------------------------
(* What an access makes of the chip.                                       *)

ChipOK == /\ fifo \in Seq(Entry) /\ Len(fifo) <= Depth
          /\ overflow \in BOOLEAN /\ converting \in BOOLEAN
          /\ OverflowInv

LEMMA PopTypes == ASSUME Max30208TypeOK, OverflowInv, Pop \/ UNCHANGED chipMax
                  PROVE  ChipOK'
<1>1. /\ fifo \in Seq(Entry) /\ Len(fifo) \in Nat /\ Len(fifo) <= Depth /\ Depth \in Nat \ {0}
      /\ overflow \in BOOLEAN /\ converting \in BOOLEAN
  BY Types, Zenon DEF Max30208TypeOK
<1>2. ASSUME Pop, fifo # <<>> PROVE fifo' \in Seq(Entry) /\ Len(fifo') <= Depth
  <2>1. /\ fifo' = Tail(fifo) /\ Tail(fifo) \in Seq(Entry) /\ Len(Tail(fifo)) = Len(fifo) - 1
    BY <1>1, <1>2, Popped, Zenon DEF Pop
  <2> QED BY <2>1, <1>1
<1>3. ASSUME fifo' = fifo PROVE fifo' \in Seq(Entry) /\ Len(fifo') <= Depth
  BY <1>1, <1>3
<1>4. Pop => overflow' = FALSE /\ converting' = converting /\ (fifo = <<>> => fifo' = fifo)
  BY DEF Pop
<1>5. CASE Pop
  BY <1>1, <1>2, <1>3, <1>4, <1>5, Zenon DEF ChipOK, OverflowInv
<1>6. CASE UNCHANGED chipMax
  <2>1. fifo' = fifo /\ overflow' = overflow /\ converting' = converting
    BY <1>6 DEF chipMax
  <2> QED BY <2>1, <1>1, <1>3, Zenon DEF ChipOK, OverflowInv
<1> QED BY <1>5, <1>6

LEMMA ReachTypes == ASSUME Max30208TypeOK, OverflowInv, Reaches \/ UNCHANGED chipMax
                    PROVE  ChipOK'
<1>1. CASE \E running \in BOOLEAN : Empties(running)
  <2>1. fifo' = <<>> /\ overflow' = FALSE /\ converting' \in BOOLEAN
    BY <1>1 DEF Empties
  <2>2. fifo' \in Seq(Entry) /\ Len(fifo') <= Depth
    BY <2>1, DepthAssumption
  <2> QED BY <2>1, <2>2, Zenon DEF ChipOK, OverflowInv
<1>2. CASE converting' = TRUE /\ UNCHANGED <<fifo, overflow>>
  <2>1. fifo \in Seq(Entry) /\ Len(fifo) <= Depth /\ overflow \in BOOLEAN
    BY Types, Zenon DEF Max30208TypeOK
  <2> QED BY <1>2, <2>1, Zenon DEF ChipOK, OverflowInv
<1>3. CASE Pop \/ UNCHANGED chipMax
  BY <1>3, PopTypes, Zenon
<1>4. converting \in BOOLEAN
  BY DEF Max30208TypeOK
<1> QED BY <1>1, <1>2, <1>3, <1>4, Zenon DEF Reaches

-----------------------------------------------------------------------------
(* The end of a call, and its next access.                                 *)

PastOK == missed \in BOOLEAN /\ answered \in BOOLEAN /\ due \in BOOLEAN
          /\ value \in {"none", "old", "new"}

LEMMA Returns ==
  ASSUME NEW r \in {"ok", "error"}, Max30208TypeOK, Return30208(r), ChipOK', PastOK',
         routine = "trigger" /\ r = "ok" /\ ~missed' => AllNew(fifo') /\ (converting' \/ fifo' # <<>>)
  PROVE  MaxInv'
<1>1. routine' = "none" /\ place' = 1 /\ left' = 0 /\ code' = r /\ status' \in {"over", "ready"}
  BY DEF Return30208
<1>2. triggered' = (routine = "trigger" /\ r = "ok" /\ ~missed')
  BY DEF Return30208
<1>3. triggered' \in BOOLEAN
  BY <1>2, Zenon
<1>4. place' \in 1 .. 5 /\ left' \in 0 .. Depth
  BY <1>1, DepthAssumption
<1>5. Max30208TypeOK'
  BY <1>1, <1>3, <1>4 DEF Max30208TypeOK, ChipOK, PastOK, Entry
<1>6. TurnInv'
  BY <1>1, <1>2, Zenon DEF TurnInv
<1>7. PlaceInv' /\ LeftInv' /\ CountInv' /\ AnswerInv'
  BY <1>1 DEF PlaceInv, LeftInv, CountInv, AnswerInv
<1> QED BY <1>5, <1>6, <1>7, Zenon DEF MaxInv, ChipOK

LEMMA Goes ==
  ASSUME NEW p \in 1 .. 5, Max30208TypeOK, routine # "none", GoTo30208(p), ChipOK', PastOK',
         left' \in 0 .. Depth, p <= Len(Scripts[routine]),
         TurnInv', LeftInv', CountInv', AnswerInv'
  PROVE  MaxInv'
<1>1. place' = p /\ status' = status /\ routine' = routine /\ code' = code /\ triggered' = triggered
  BY DEF GoTo30208
<1>2. Max30208TypeOK'
  BY <1>1 DEF Max30208TypeOK, ChipOK, PastOK, Entry
<1>3. PlaceInv'
  BY <1>1 DEF PlaceInv
<1> QED BY <1>2, <1>3, Zenon DEF MaxInv, ChipOK

-----------------------------------------------------------------------------
(* The steps.                                                              *)

LEMMA MaxInit == Max30208Init => MaxInv
<1> SUFFICES ASSUME Max30208Init PROVE MaxInv
  OBVIOUS
<1> USE DEF Max30208Init
<1>1. fifo \in Seq(Entry) /\ Len(fifo) <= Depth /\ place \in 1 .. 5 /\ left \in 0 .. Depth
  BY DepthAssumption
<1>2. Max30208TypeOK
  BY <1>1 DEF Max30208TypeOK, Entry
<1>3. PlaceInv /\ TurnInv /\ LeftInv /\ OverflowInv /\ CountInv /\ AnswerInv
  BY DEF PlaceInv, TurnInv, LeftInv, OverflowInv, CountInv, AnswerInv
<1> QED BY <1>2, <1>3, Zenon DEF MaxInv

LEMMA CallKeeps == ASSUME MaxInv, NEW r \in DOMAIN Scripts, Call30208(r) PROVE MaxInv'
<1>1. r \in Names
  BY ScriptNames
<1>2. /\ Max30208TypeOK /\ place = 1 /\ routine = "none" /\ TurnInv /\ OverflowInv
      /\ routine' = r /\ value' = "none" /\ missed' = FALSE /\ answered' = FALSE
      /\ fifo' = (IF r = "trigger" THEN Aged(FALSE) ELSE fifo)
      /\ due' = (r = "read" /\ triggered /\ ~converting)
      /\ UNCHANGED <<status, place, left, code, overflow, converting, triggered>>
  BY Zenon DEF MaxInv, PlaceInv, Call30208
<1>3. fifo \in Seq(Entry) /\ Len(fifo) \in Nat /\ Len(fifo) <= Depth
  BY <1>2, Types
<1>4. fifo' \in Seq(Entry) /\ Len(fifo') = Len(fifo)
  BY <1>2, <1>3, AgedFifo
<1>5. due' \in BOOLEAN
  BY <1>2, Zenon
<1>6. Max30208TypeOK'
  BY <1>1, <1>2, <1>3, <1>4, <1>5, ScriptNames DEF Max30208TypeOK, Entry
<1>7. PlaceInv'
  <2>1. place' = 1 /\ r # "none"
    BY <1>1, <1>2 DEF Names
  <2>2. place' <= Len(Scripts[routine'])
    BY <1>1, <1>2, <2>1, ScriptLength, Zenon
  <2> QED BY <2>1, <2>2, <1>2, Zenon DEF PlaceInv
<1>8. TurnInv'
  <2>1. ~(place' >= 2) /\ ~(place' >= 4)
    BY <1>2
  <2>2. routine' # "none"
    BY <1>1, <1>2 DEF Names
  <2>3. ASSUME triggered, routine' = "read"
        PROVE  AllNew(fifo') /\ (converting' \/ fifo' # <<>>)
    <3>1. fifo' = fifo /\ converting' = converting
      BY <1>2, <2>3
    <3>2. AllNew(fifo) /\ (converting \/ fifo # <<>>)
      BY <1>2, <2>3, Zenon DEF TurnInv
    <3> QED BY <3>1, <3>2, Zenon
  <2>4. due' => triggered /\ ~converting' /\ routine' = "read"
    BY <1>2, Zenon
  <2>5. triggered' = triggered
    BY <1>2
  <2> QED BY <2>1, <2>2, <2>3, <2>4, <2>5, Zenon DEF TurnInv
<1>9. OverflowInv'
  BY <1>2, <1>4, Zenon DEF OverflowInv
<1>10. CountInv'
  BY <1>2, Zenon DEF CountInv
<1>11. LeftInv' /\ AnswerInv'
  BY <1>2 DEF LeftInv, AnswerInv, FirstNoticed
<1> QED BY <1>6, <1>7, <1>8, <1>9, <1>10, <1>11, Zenon DEF MaxInv

LEMMA NextPlace ==
  ASSUME place \in 1 .. 5, routine \in Names, PlaceInv, place # Len(Scripts[routine])
  PROVE  place + 1 \in 1 .. 5 /\ place + 1 <= Len(Scripts[routine]) /\ routine # "read"
<1>1. PICK n \in 1 .. 5 : n = Len(Scripts[routine])
  BY ScriptLength, Zenon
<1>2. place <= n /\ place # n
  <2>1. routine # "none"
    BY DEF Names
  <2> QED BY <1>1, <2>1, Zenon DEF PlaceInv
<1>3. place + 1 \in 1 .. 5 /\ place + 1 <= n /\ n # 1
  BY <1>2
<1>4. routine # "read"
  BY <1>1, <1>3, ReadScripts, Zenon
<1> QED BY <1>1, <1>3, <1>4, Zenon

LEMMA SucceedKeeps == ASSUME MaxInv, Succeed PROVE MaxInv'
<1>1. /\ Max30208TypeOK /\ PlaceInv /\ TurnInv /\ OverflowInv /\ AnswerInv
      /\ routine \in Names /\ routine # "raw" /\ routine # "none" /\ place \in 1 .. 5
      /\ Reaches /\ Ahead30208 /\ due' = due /\ missed' = missed /\ answered' = TRUE
      /\ value' = (IF Access30208 = "FIFO" THEN Oldest ELSE value)
  BY Types, Zenon DEF MaxInv, Succeed, Served
<1>2. ChipOK'
  BY <1>1, ReachTypes
<1>3. PastOK'
  <2>1. /\ missed \in BOOLEAN /\ due \in BOOLEAN /\ fifo \in Seq(Entry)
        /\ value \in {"none", "old", "new"}
    BY <1>1, Types, Zenon DEF Max30208TypeOK
  <2>2. fifo # <<>> => Head(fifo) \in Entry
    BY <2>1, Popped, Zenon
  <2>3. value' \in {"none", "old", "new"}
    BY <1>1, <2>1, <2>2 DEF Oldest, Entry
  <2> QED BY <1>1, <2>1, <2>3, Zenon DEF PastOK
<1>4. CASE place = Len(Scripts[routine])
  <2>1. Return30208("ok")
    BY <1>1, <1>4, Zenon DEF Ahead30208
  <2>2. ASSUME routine = "trigger", ~missed'
        PROVE  AllNew(fifo') /\ (converting' \/ fifo' # <<>>)
    <3>1. place = 4
      BY <1>4, <2>2, TriggerScript
    <3>2. Access30208 = "TEMP"
      BY <2>2, <3>1, TriggerScript DEF Access30208
    <3>3. UNCHANGED chipMax
      BY <1>1, <3>2 DEF Reaches
    <3>4. ~missed /\ place >= 2 /\ place >= 4
      BY <1>1, <2>2, <3>1
    <3>5. AllNew(fifo) /\ (converting \/ fifo # <<>>)
      BY <1>1, <2>2, <3>4, Zenon DEF TurnInv
    <3>6. fifo' = fifo /\ converting' = converting
      BY <3>3 DEF chipMax
    <3> QED BY <3>5, <3>6, Zenon
  <2> QED BY <1>1, <1>2, <1>3, <2>1, <2>2, Returns, Zenon
<1>5. CASE place # Len(Scripts[routine])
  <2>1. GoTo30208(place + 1) /\ left' = left
    BY <1>1, <1>5, Zenon DEF Ahead30208
  <2>2. place + 1 \in 1 .. 5 /\ place + 1 <= Len(Scripts[routine]) /\ routine # "read"
    BY <1>1, <1>5, NextPlace, Zenon
  <2>3. routine' = routine /\ place' = place + 1 /\ triggered' = triggered
    BY <2>1 DEF GoTo30208
  <2>4. left' \in 0 .. Depth
    BY <1>1, <2>1 DEF Max30208TypeOK
  <2>5. TurnInv'
    <3>1. ASSUME routine = "trigger", ~missed'
          PROVE  AllNew(fifo') /\ (place' >= 4 => converting' \/ fifo' # <<>>)
      <4>1. place \in {1, 2, 3} /\ ~missed
        BY <1>1, <2>2, <3>1, TriggerScript
      <4>2. CASE place = 1
        <5>1. Access30208 = "FLUSH"
          BY <3>1, <4>2, TriggerScript DEF Access30208
        <5>2. fifo' = <<>>
          BY <1>1, <5>1 DEF Reaches, Empties
        <5>3. Len(fifo') = 0 /\ ~(place' >= 4)
          BY <4>2, <5>2, <2>3
        <5> QED BY <5>3 DEF AllNew
      <4>3. CASE place \in {2, 3}
        <5>1. Access30208 = IF place = 2 THEN "TEMP" ELSE "CONVERT"
          BY <3>1, <4>3, TriggerScript DEF Access30208
        <5>2. fifo' = fifo /\ (place = 3 => converting' = TRUE)
          BY <1>1, <4>3, <5>1 DEF Reaches, chipMax
        <5>3. place >= 2 /\ (place' >= 4 => place = 3)
          BY <4>3, <2>3
        <5>4. AllNew(fifo)
          BY <1>1, <3>1, <4>1, <5>3, Zenon DEF TurnInv
        <5> QED BY <5>2, <5>3, <5>4, Zenon
      <4> QED BY <4>1, <4>2, <4>3
    <3> QED BY <1>1, <2>3, <2>2, <3>1, Zenon DEF TurnInv
  <2>6. LeftInv' /\ CountInv' /\ AnswerInv'
    BY <1>1, <2>3, Zenon DEF LeftInv, CountInv, AnswerInv
  <2> QED BY <1>1, <1>2, <1>3, <2>1, <2>2, <2>4, <2>5, <2>6, Goes, Zenon
<1> QED BY <1>4, <1>5

LEMMA FailKeeps == ASSUME MaxInv, Fail30208 PROVE MaxInv'
<1>1. /\ Max30208TypeOK /\ PlaceInv /\ TurnInv /\ OverflowInv /\ AnswerInv
      /\ routine \in Names /\ routine # "raw" /\ routine # "none" /\ place \in 1 .. 5
      /\ Reaches \/ UNCHANGED chipMax
      /\ IF <<routine, place>> \in Noticed THEN Return30208("error") ELSE Ahead30208
      /\ UNCHANGED <<value, due>> /\ missed' = TRUE /\ answered' = answered
  BY Types, Zenon DEF MaxInv, Fail30208, Missed
<1>2. ChipOK'
  BY <1>1, ReachTypes
<1>3. PastOK'
  BY <1>1 DEF PastOK, Max30208TypeOK
<1>4. CASE \E r \in {"ok", "error"} : Return30208(r)
  BY <1>1, <1>2, <1>3, <1>4, Returns, Zenon
<1>5. CASE <<routine, place>> \notin Noticed /\ place # Len(Scripts[routine])
  <2>1. GoTo30208(place + 1) /\ left' = left
    BY <1>1, <1>5, Zenon DEF Ahead30208
  <2>2. place + 1 \in 1 .. 5 /\ place + 1 <= Len(Scripts[routine]) /\ routine # "read"
    BY <1>1, <1>5, NextPlace, Zenon
  <2>3. routine' = routine /\ place' = place + 1 /\ triggered' = triggered
    BY <2>1 DEF GoTo30208
  <2>4. left' \in 0 .. Depth
    BY <1>1, <2>1 DEF Max30208TypeOK
  <2>5. TurnInv' /\ LeftInv' /\ CountInv'
    BY <1>1, <2>3, <2>2, Zenon DEF TurnInv, LeftInv, CountInv
  <2>6. AnswerInv'
    <3>1. ASSUME routine \notin Deaf, place' > FirstNoticed(routine) PROVE answered
      <4>1. place # FirstNoticed(routine)
        BY <1>1, <1>5, <3>1, Notices
      <4>2. FirstNoticed(routine) \in {1, 2}
        BY DEF FirstNoticed
      <4>3. place > FirstNoticed(routine)
        BY <1>1, <2>3, <3>1, <4>1, <4>2
      <4> QED BY <1>1, <3>1, <4>3, Zenon DEF AnswerInv
    <3> QED BY <1>1, <2>3, <3>1, Zenon DEF AnswerInv
  <2> QED BY <1>1, <1>2, <1>3, <2>1, <2>2, <2>4, <2>5, <2>6, Goes, Zenon
<1> QED BY <1>1, <1>4, <1>5, Zenon DEF Ahead30208

LEMMA StatusKeeps == ASSUME MaxInv, max30208_get_Status PROVE MaxInv'
<1>1. /\ Max30208TypeOK /\ routine = "raw" /\ place = 1 /\ OverflowInv /\ CountInv
      /\ GoTo30208(2) /\ UNCHANGED <<left, value, chipMax, due>>
      /\ Served \/ Missed
  BY Zenon DEF MaxInv, max30208_get_Status
<1>2. ChipOK'
  BY <1>1, ReachTypes, Zenon
<1>3. PastOK'
  BY <1>1 DEF PastOK, Max30208TypeOK, Served, Missed
<1>4. left' \in 0 .. Depth /\ 2 \in 1 .. 5 /\ 2 <= Len(Scripts["raw"])
  BY <1>1, ReadScripts DEF Max30208TypeOK
<1>5. routine' = "raw" /\ place' = 2 /\ ~due'
  BY <1>1 DEF GoTo30208, CountInv
<1>6. TurnInv' /\ LeftInv' /\ CountInv' /\ AnswerInv'
  BY <1>5 DEF TurnInv, LeftInv, CountInv, AnswerInv, Deaf
<1> QED BY <1>1, <1>2, <1>3, <1>4, <1>6, Goes, Zenon

\* Once counted, the last entry is new and the samples reach up to it.
LEMMA CountKeeps ==
  ASSUME MaxInv, routine = "raw", fifo # <<>>, Count(Len(fifo)), GoTo30208(4), Served
  PROVE  MaxInv'
<1>1. /\ Max30208TypeOK /\ OverflowInv
      /\ left' = Len(fifo) /\ fifo' = Aged(TRUE) /\ due' = (fifo # <<>>)
      /\ UNCHANGED <<value, overflow, converting>>
      /\ routine' = "raw" /\ place' = 4 /\ answered' = TRUE /\ missed' = missed
  BY DEF MaxInv, Count, GoTo30208, Served
<1>2. fifo \in Seq(Entry) /\ Len(fifo) \in 1 .. Depth
  <2>1. fifo \in Seq(Entry) /\ Len(fifo) <= Depth
    BY <1>1, Types
  <2>2. Len(fifo) # 0 /\ Len(fifo) \in Nat
    BY <2>1
  <2> QED BY <2>1, <2>2, DepthAssumption
<1>3. fifo' \in Seq(Entry) /\ Len(fifo') = Len(fifo) /\ fifo'[Len(fifo)] = "new"
  BY <1>1, <1>2, AgedFifo
<1>4. ChipOK'
  <2>1. overflow' \in BOOLEAN /\ converting' \in BOOLEAN
    BY <1>1 DEF Max30208TypeOK
  <2>2. Len(fifo') <= Depth
    BY <1>2, <1>3
  <2> QED BY <1>1, <1>3, <2>1, <2>2, Zenon DEF ChipOK, OverflowInv
<1>5. PastOK'
  BY <1>1 DEF PastOK, Max30208TypeOK
<1>6. left' \in 0 .. Depth /\ left' >= 1
  BY <1>1, <1>2
<1>7. 4 \in 1 .. 5 /\ 4 <= Len(Scripts["raw"])
  BY ReadScripts
<1>8. left' <= Len(fifo') /\ \A i \in left' .. Len(fifo') : fifo'[i] = "new"
  <2>1. left' = Len(fifo) /\ Len(fifo') = Len(fifo)
    BY <1>1, <1>3, Zenon
  <2>2. PICK n \in Nat : n = Len(fifo)
    BY <1>2
  <2>3. n <= n /\ \A i \in n .. n : i = n
    OBVIOUS
  <2> QED BY <1>3, <2>1, <2>2, <2>3, Zenon
<1>9. TurnInv' /\ LeftInv' /\ AnswerInv'
  BY <1>1, <1>6 DEF TurnInv, LeftInv, AnswerInv, Deaf
<1>10. CountInv'
  <2>1. ~(place' < 4)
    BY <1>1
  <2> QED BY <2>1, <1>8, Zenon DEF CountInv
<1>11. routine # "none"
  OBVIOUS
<1> QED BY <1>1, <1>4, <1>5, <1>6, <1>7, <1>9, <1>10, <1>11, Goes, Zenon

LEMMA OverflowKeeps == ASSUME MaxInv, max30208_get_Overflow PROVE MaxInv'
<1>1. /\ Max30208TypeOK /\ routine = "raw" /\ place = 2 /\ OverflowInv /\ CountInv
  BY Zenon DEF MaxInv, max30208_get_Overflow
<1>2. CASE overflow /\ Served /\ Count(Depth) /\ GoTo30208(4)
  <2>1. Len(fifo) = Depth
    BY <1>1, <1>2, Zenon DEF OverflowInv
  <2>2. fifo # <<>>
    BY <2>1, DepthAssumption
  <2> QED BY <1>1, <1>2, <2>1, <2>2, CountKeeps, Zenon
<1>3. CASE (Served \/ Missed) /\ GoTo30208(3) /\ UNCHANGED <<left, value, chipMax, due>>
  <2>1. ChipOK'
    BY <1>1, <1>3, ReachTypes, Zenon
  <2>2. PastOK'
    BY <1>1, <1>3 DEF PastOK, Max30208TypeOK, Served, Missed
  <2>3. left' \in 0 .. Depth /\ 3 \in 1 .. 5 /\ 3 <= Len(Scripts["raw"])
    BY <1>1, <1>3, ReadScripts DEF Max30208TypeOK
  <2>4. routine' = "raw" /\ place' = 3 /\ ~due'
    BY <1>1, <1>3 DEF GoTo30208, CountInv
  <2>5. TurnInv' /\ LeftInv' /\ CountInv' /\ AnswerInv'
    BY <2>4 DEF TurnInv, LeftInv, CountInv, AnswerInv, Deaf
  <2> QED BY <1>1, <1>3, <2>1, <2>2, <2>3, <2>5, Goes, Zenon
<1> QED BY <1>1, <1>2, <1>3, Zenon DEF max30208_get_Overflow

LEMMA CounterKeeps == ASSUME MaxInv, max30208_get_DataCounter PROVE MaxInv'
<1>1. /\ Max30208TypeOK /\ routine = "raw" /\ place = 3 /\ OverflowInv
  BY Zenon DEF MaxInv, max30208_get_DataCounter
<1>2. CASE fifo # <<>> /\ Served /\ Count(Len(fifo)) /\ GoTo30208(4)
  BY <1>1, <1>2, CountKeeps, Zenon
<1>3. CASE (Served \/ Missed) /\ Return30208("ok") /\ UNCHANGED <<value, chipMax, due>>
  <2>1. ChipOK'
    BY <1>1, <1>3, ReachTypes, Zenon
  <2>2. PastOK'
    BY <1>1, <1>3 DEF PastOK, Max30208TypeOK, Served, Missed
  <2>3. routine # "trigger"
    BY <1>1
  <2> QED BY <1>1, <1>3, <2>1, <2>2, <2>3, Returns, Zenon
<1> QED BY <1>1, <1>2, <1>3, Zenon DEF max30208_get_DataCounter

LEMMA DataKeeps == ASSUME MaxInv, max30208_get_FifoData PROVE MaxInv'
<1>1. /\ Max30208TypeOK /\ routine = "raw" /\ place = 4 /\ OverflowInv /\ CountInv /\ LeftInv
      /\ due' = due
      /\ IF left = 1 THEN Return30208("ok") ELSE left' = left - 1 /\ GoTo30208(4)
  BY Zenon DEF MaxInv, max30208_get_FifoData
<1>2. \/ Pop /\ Served /\ value' = Oldest
      \/ (Pop \/ UNCHANGED chipMax) /\ Missed /\ UNCHANGED value
  BY Zenon DEF max30208_get_FifoData
<1>3. ChipOK'
  BY <1>1, <1>2, PopTypes, Zenon
<1>4. fifo \in Seq(Entry) /\ left \in 1 .. Depth /\ Len(fifo) \in Nat
  <2>1. left >= 1
    BY <1>1 DEF LeftInv
  <2>2. left \in 0 .. Depth /\ Depth \in Nat
    BY <1>1, DepthAssumption DEF Max30208TypeOK
  <2> QED BY <2>1, <2>2, <1>1, Types
<1>5. PastOK'
  <2>1. /\ missed \in BOOLEAN /\ answered \in BOOLEAN /\ due \in BOOLEAN
        /\ value \in {"none", "old", "new"}
    BY <1>1 DEF Max30208TypeOK
  <2>2. fifo # <<>> => Head(fifo) \in Entry
    BY <1>4, Popped, Zenon
  <2>3. value' \in {"none", "old", "new"}
    BY <1>2, <2>1, <2>2 DEF Oldest, Entry
  <2>4. missed' \in BOOLEAN /\ answered' \in BOOLEAN
    BY <1>2, <2>1 DEF Served, Missed
  <2> QED BY <1>1, <2>1, <2>3, <2>4, Zenon DEF PastOK
<1>6. routine # "trigger" /\ routine # "none"
  BY <1>1
<1>7. CASE left = 1
  BY <1>1, <1>3, <1>5, <1>6, <1>7, Returns, Zenon
<1>8. CASE left # 1
  <2>1. left' = left - 1 /\ GoTo30208(4) /\ routine' = "raw" /\ place' = 4
    BY <1>1, <1>8 DEF GoTo30208
  <2>2. left' \in 0 .. Depth /\ left' >= 1 /\ 4 \in 1 .. 5
    BY <1>4, <1>8, <2>1, DepthAssumption
  <2>3. 4 <= Len(Scripts[routine])
    BY <1>1, ReadScripts
  <2>4. TurnInv' /\ LeftInv' /\ AnswerInv'
    BY <2>1, <2>2 DEF TurnInv, LeftInv, AnswerInv, Deaf
  <2>5. ASSUME due', ~missed' PROVE left' <= Len(fifo') /\ \A i \in left' .. Len(fifo') : fifo'[i] = "new"
    <3>1. Pop /\ ~missed
      BY <1>2, <2>5 DEF Served, Missed
    <3>2. left <= Len(fifo) /\ \A i \in left .. Len(fifo) : fifo[i] = "new"
      BY <1>1, <2>5, <3>1, Zenon DEF CountInv
    <3>3. fifo # <<>>
      BY <1>4, <3>2
    <3>4. /\ fifo' = Tail(fifo) /\ Len(Tail(fifo)) = Len(fifo) - 1
          /\ \A i \in 1 .. Len(Tail(fifo)) : Tail(fifo)[i] = fifo[i + 1]
      BY <1>4, <3>1, <3>3, Popped, Zenon DEF Pop
    <3>5. left' <= Len(fifo')
      BY <1>4, <2>1, <3>2, <3>4
    <3>6. ASSUME NEW i \in left' .. Len(fifo') PROVE fifo'[i] = "new"
      <4>1. i \in 1 .. Len(Tail(fifo)) /\ i + 1 \in left .. Len(fifo)
        BY <1>4, <2>1, <2>2, <3>4, <3>6
      <4> QED BY <3>2, <3>4, <4>1
    <3> QED BY <3>5, <3>6
  <2>6. CountInv'
    <3>1. ~(place' < 4)
      BY <2>1
    <3> QED BY <2>5, <3>1, Zenon DEF CountInv
  <2> QED BY <1>1, <1>3, <1>5, <1>6, <2>1, <2>2, <2>3, <2>4, <2>6, Goes, Zenon
<1> QED BY <1>7, <1>8

LEMMA ConvertedKeeps == ASSUME MaxInv, Converted PROVE MaxInv'
<1>1. /\ Max30208TypeOK /\ PlaceInv /\ TurnInv /\ LeftInv /\ OverflowInv /\ CountInv /\ AnswerInv
      /\ converting /\ converting' = FALSE
      /\ UNCHANGED <<mainMax, pastMax>>
  BY Zenon DEF MaxInv, Converted
<1>2. UNCHANGED <<status, routine, place, left, value, code, missed, answered, triggered, due>>
  BY <1>1 DEF mainMax, pastMax
<1>3. fifo \in Seq(Entry) /\ Len(fifo) \in Nat /\ Len(fifo) <= Depth /\ Depth \in Nat \ {0}
  BY <1>1, Types
<1>4. \/ Len(fifo) < Depth /\ fifo' = Append(fifo, "new") /\ overflow' = overflow
      \/ Len(fifo) = Depth /\ overflow' = TRUE /\ fifo' = fifo
  <2>1. Len(fifo) < Depth \/ Len(fifo) = Depth
    BY <1>3
  <2>2. IF Len(fifo) < Depth THEN fifo' = Append(fifo, "new") /\ UNCHANGED overflow
        ELSE overflow' = TRUE /\ UNCHANGED fifo
    BY DEF Converted
  <2> QED BY <1>3, <2>1, <2>2
\* Whatever was at the end of the FIFO, no entry becomes old and it is not empty.
<1>5. /\ fifo' \in Seq(Entry) /\ Len(fifo') <= Depth /\ fifo' # <<>>
      /\ Len(fifo) <= Len(fifo')
      /\ \A i \in 1 .. Len(fifo') : fifo'[i] = "new" \/ (i \in 1 .. Len(fifo) /\ fifo'[i] = fifo[i])
      /\ OverflowInv'
  <2>1. CASE Len(fifo) < Depth /\ fifo' = Append(fifo, "new") /\ overflow' = overflow
    <3>1. /\ fifo' \in Seq(Entry) /\ fifo' # <<>> /\ Len(fifo') = Len(fifo) + 1
          /\ \A i \in 1 .. Len(fifo) : fifo'[i] = fifo[i]
          /\ fifo'[Len(fifo) + 1] = "new"
      <4>1. "new" \in Entry
        BY DEF Entry
      <4>2. /\ Append(fifo, "new") \in Seq(Entry) /\ Append(fifo, "new") # <<>>
            /\ Len(Append(fifo, "new")) = Len(fifo) + 1
            /\ \A i \in 1 .. Len(fifo) : Append(fifo, "new")[i] = fifo[i]
            /\ Append(fifo, "new")[Len(fifo) + 1] = "new"
        BY <1>3, <4>1, AppendProperties
      <4> QED BY <2>1, <4>2, Zenon
    <3>2. Len(fifo') <= Depth /\ Len(fifo) <= Len(fifo')
      BY <1>3, <2>1, <3>1
    <3>3. \A i \in 1 .. Len(fifo') : i \in 1 .. Len(fifo) \/ i = Len(fifo) + 1
      BY <1>3, <3>1
    <3>4. ~overflow'
      BY <1>1, <1>3, <2>1 DEF OverflowInv
    <3> QED BY <3>1, <3>2, <3>3, <3>4, Zenon DEF OverflowInv
  <2>2. CASE Len(fifo) = Depth /\ overflow' = TRUE /\ fifo' = fifo
    <3>1. Len(fifo) # 0 /\ Len(fifo) <= Len(fifo)
      BY <1>3, <2>2
    <3>2. fifo # <<>>
      BY <3>1
    <3> QED BY <1>3, <2>2, <3>1, <3>2, Zenon DEF OverflowInv
  <2> QED BY <1>4, <2>1, <2>2
<1>6. AllNew(fifo) => AllNew(fifo')
  BY <1>5, Zenon DEF AllNew
<1>7. Max30208TypeOK'
  <2>1. overflow' \in BOOLEAN
    BY <1>1, <1>4 DEF Max30208TypeOK
  <2> QED BY <1>1, <1>2, <1>5, <2>1 DEF Max30208TypeOK, Entry
<1>8. TurnInv'
  BY <1>1, <1>2, <1>5, <1>6, Zenon DEF TurnInv
<1>9. CountInv'
  <2>1. routine' = "raw" /\ place' < 4 => ~due'
    BY <1>1, <1>2, Zenon DEF CountInv
  <2>2. ASSUME routine' = "raw", place' = 4, due', ~missed'
        PROVE  left' <= Len(fifo') /\ \A i \in left' .. Len(fifo') : fifo'[i] = "new"
    <3>1. left <= Len(fifo) /\ \A i \in left .. Len(fifo) : fifo[i] = "new"
      BY <1>1, <1>2, <2>2, Zenon DEF CountInv
    <3>2. left \in Nat /\ left >= 1 /\ Len(fifo') \in Nat
      BY <1>1, <1>2, <1>5, <2>2, Types DEF LeftInv
    <3>3. \A i \in left .. Len(fifo') : i \in 1 .. Len(fifo')
      BY <3>2
    <3>4. \A i \in left .. Len(fifo') : i \in 1 .. Len(fifo) => i \in left .. Len(fifo)
      BY <3>2, <1>3
    <3>5. left <= Len(fifo')
      BY <1>3, <1>5, <3>1, <3>2
    <3> QED BY <1>2, <1>5, <3>1, <3>3, <3>4, <3>5, Zenon
  <2> QED BY <2>1, <2>2, Zenon DEF CountInv
<1>10. PlaceInv' /\ LeftInv' /\ AnswerInv'
  BY <1>1, <1>2, Zenon DEF PlaceInv, LeftInv, AnswerInv
<1> QED BY <1>5, <1>7, <1>8, <1>9, <1>10, Zenon DEF MaxInv

LEMMA RestartedKeeps == ASSUME MaxInv, Restarted PROVE MaxInv'
<1>1. /\ Max30208TypeOK /\ OverflowInv
      /\ status' = "off" /\ routine' = "none" /\ place' = 1 /\ left' = 0
      /\ value' = "none" /\ code' = "error"
      /\ missed' = FALSE /\ answered' = FALSE /\ triggered' = FALSE /\ due' = FALSE
      /\ UNCHANGED chipMax
  BY Zenon DEF MaxInv, Restarted
<1>2. ChipOK'
  BY <1>1, ReachTypes, Zenon
<1>3. place' \in 1 .. 5 /\ left' \in 0 .. Depth
  BY <1>1, DepthAssumption
<1>4. Max30208TypeOK'
  BY <1>1, <1>2, <1>3 DEF Max30208TypeOK, ChipOK, Entry
<1>5. PlaceInv' /\ TurnInv' /\ LeftInv' /\ CountInv' /\ AnswerInv'
  BY <1>1 DEF PlaceInv, TurnInv, LeftInv, CountInv, AnswerInv
<1> QED BY <1>2, <1>4, <1>5, Zenon DEF MaxInv, ChipOK

LEMMA StutterKeeps == ASSUME MaxInv, UNCHANGED max30208 PROVE MaxInv'
<1>1. UNCHANGED <<status, routine, place, left, value, code, fifo, overflow, converting,
                  missed, answered, triggered, due>>
  BY DEF max30208, mainMax, chipMax, pastMax
<1>2. Max30208TypeOK'
  BY <1>1 DEF MaxInv, Max30208TypeOK
<1>3. PlaceInv' /\ LeftInv' /\ OverflowInv' /\ AnswerInv'
  BY <1>1, Zenon DEF MaxInv, PlaceInv, LeftInv, OverflowInv, AnswerInv
<1>4. TurnInv' /\ CountInv'
  BY <1>1, Zenon DEF MaxInv, TurnInv, AllNew, CountInv
<1> QED BY <1>2, <1>3, <1>4, Zenon DEF MaxInv

LEMMA MaxNext == MaxInv /\ [Max30208Next]_max30208 => MaxInv'
BY CallKeeps, SucceedKeeps, FailKeeps, StatusKeeps, OverflowKeeps, CounterKeeps, DataKeeps,
   ConvertedKeeps, RestartedKeeps, StutterKeeps, Zenon DEF Max30208Next, MAX30208_GetRawData

LEMMA MaxInvariant == Max30208Spec => []MaxInv
<1>1. Max30208Init => MaxInv
  BY MaxInit
<1>2. MaxInv /\ [Max30208Next]_max30208 => MaxInv'
  BY MaxNext
<1> QED BY <1>1, <1>2, PTL DEF Max30208Spec

-----------------------------------------------------------------------------
(* The theorems.                                                           *)

(***************************************************************************)
(* The accesses of every call stay within its script, and the FIFO within  *)
(* its depth.                                                              *)
(***************************************************************************)
THEOREM SensorTypeCorrect == Max30208Spec => []Max30208TypeOK
<1>1. MaxInv => Max30208TypeOK
  BY DEF MaxInv
<1> QED BY <1>1, MaxInvariant, PTL

(***************************************************************************)
(* FreshReading: main prints what it measured, whatever was left in the    *)
(* FIFO by earlier calls and resets.                                       *)
(***************************************************************************)
THEOREM ReadingIsFresh == Max30208Spec => FreshReading
<1>1. ASSUME MaxInv, [Max30208Next]_max30208
      PROVE  [routine = "read" /\ routine' = "none" /\ code' = "ok" /\ due => value' = "new"]_max30208
  <2>1. SUFFICES ASSUME Max30208Next, routine = "read", routine' = "none", code' = "ok", due
                 PROVE  value' = "new"
    BY <1>1, Zenon
  <2>2. Succeed \/ Fail30208 \/ Converted \/ Restarted
    BY <2>1 DEF Max30208Next, Call30208, MAX30208_GetRawData, max30208_get_Status,
                max30208_get_Overflow, max30208_get_DataCounter, max30208_get_FifoData
  <2>3. place = 1
    <3>1. place \in 1 .. 5 /\ place <= Len(Scripts["read"])
      BY <1>1, <2>1, Types DEF MaxInv, PlaceInv
    <3> QED BY <3>1, ReadScripts
  <2>4. CASE Succeed
    <3>1. Access30208 = "FIFO"
      BY <2>1, <2>3, ReadScripts DEF Access30208
    <3>2. value' = Oldest
      BY <2>4, <3>1, Zenon DEF Succeed
    <3>3. fifo # <<>> /\ AllNew(fifo) /\ fifo \in Seq(Entry)
      BY <1>1, <2>1, Types, Zenon DEF MaxInv, TurnInv
    <3>4. Head(fifo) = fifo[1] /\ 1 \in 1 .. Len(fifo)
      BY <3>3
    <3> QED BY <3>2, <3>3, <3>4, Zenon DEF Oldest, AllNew
  <2>5. CASE Fail30208
    <3>1. <<routine, place>> \in Noticed
      BY <2>1, <2>3, NoticedEnds
    <3> QED BY <2>1, <2>5, <3>1 DEF Fail30208, Return30208
  <2>6. CASE Converted \/ Restarted
    BY <2>1, <2>6 DEF Converted, Restarted, mainMax
  <2> QED BY <2>2, <2>4, <2>5, <2>6
<1> QED BY <1>1, MaxInvariant, PTL DEF Max30208Spec, FreshReading

(***************************************************************************)
(* NewestSample: GetRawData ends with the newest of the samples that       *)
(* waited, at every depth of the FIFO.                                     *)
(***************************************************************************)
THEOREM SampleIsNewest == Max30208Spec => NewestSample
<1>1. ASSUME MaxInv, [Max30208Next]_max30208
      PROVE  [routine = "raw" /\ routine' = "none" /\ code' = "ok" /\ due /\ ~missed'
                => value' = "new"]_max30208
  <2>1. SUFFICES ASSUME Max30208Next, routine = "raw", routine' = "none", code' = "ok", due, ~missed'
                 PROVE  value' = "new"
    BY <1>1, Zenon
  <2>2. Converted \/ Restarted \/ max30208_get_DataCounter \/ max30208_get_FifoData
    BY <2>1 DEF Max30208Next, Call30208, Succeed, Fail30208, MAX30208_GetRawData,
                max30208_get_Status, max30208_get_Overflow, GoTo30208
  <2>3. CASE Converted \/ Restarted
    BY <2>1, <2>3 DEF Converted, Restarted, mainMax
  <2>4. CASE max30208_get_DataCounter
    <3>1. routine = "raw" /\ place = 3
      BY <2>4 DEF max30208_get_DataCounter
    <3>2. place < 4
      BY <3>1
    <3> QED BY <1>1, <2>1, <3>1, <3>2, Zenon DEF MaxInv, CountInv
  <2>5. CASE max30208_get_FifoData
    <3>1. place = 4 /\ left = 1
      BY <2>1, <2>5 DEF max30208_get_FifoData, GoTo30208
    <3>2. value' = Oldest /\ ~missed
      BY <2>1, <2>5 DEF max30208_get_FifoData, Served, Missed
    <3>3. 1 <= Len(fifo) /\ \A i \in 1 .. Len(fifo) : fifo[i] = "new"
      BY <1>1, <2>1, <3>1, <3>2, Zenon DEF MaxInv, CountInv
    <3>4. fifo \in Seq(Entry)
      BY <1>1, Types, Zenon DEF MaxInv
    <3>5. fifo # <<>> /\ Head(fifo) = fifo[1] /\ 1 \in 1 .. Len(fifo)
      BY <3>3, <3>4
    <3> QED BY <3>2, <3>3, <3>5, Zenon DEF Oldest
  <2> QED BY <2>2, <2>3, <2>4, <2>5
<1> QED BY <1>1, MaxInvariant, PTL DEF Max30208Spec, NewestSample

(***************************************************************************)
(* AbsentChipNoticed: no call but the deaf ones returns 0 without an       *)
(* answer of the chip.                                                     *)
(***************************************************************************)
THEOREM AbsenceIsNoticed == Max30208Spec => AbsentChipNoticed
<1>1. ASSUME MaxInv, [Max30208Next]_max30208
      PROVE  [routine \notin Deaf \cup {"none"} /\ routine' = "none" /\ code' = "ok"
                => answered']_max30208
  <2>1. SUFFICES ASSUME Max30208Next, routine \notin Deaf \cup {"none"}, routine' = "none", code' = "ok"
                 PROVE  answered'
    BY <1>1, Zenon
  <2>2. routine # "raw" /\ routine # "none"
    BY <2>1 DEF Deaf
  <2>3. Succeed \/ Fail30208 \/ Converted \/ Restarted
    BY <2>1, <2>2 DEF Max30208Next, Call30208, MAX30208_GetRawData, max30208_get_Status,
                max30208_get_Overflow, max30208_get_DataCounter, max30208_get_FifoData
  <2>4. CASE Succeed
    BY <2>4 DEF Succeed, Served
  <2>5. CASE Fail30208
    <3>1. routine \in Names \ Deaf /\ place \in 1 .. 5
      BY <1>1, <2>1, Types DEF MaxInv
    <3>2. <<routine, place>> \notin Noticed
      BY <2>1, <2>5 DEF Fail30208, Return30208
    <3>3. answered' = answered /\ Ahead30208
      BY <2>5, <3>2, Zenon DEF Fail30208, Missed
    <3>4. place = Len(Scripts[routine])
      BY <2>1, <3>3 DEF Ahead30208, GoTo30208
    <3>5. place # FirstNoticed(routine) /\ FirstNoticed(routine) <= place
      BY <3>1, <3>2, <3>4, Notices, Zenon
    <3>6. FirstNoticed(routine) \in {1, 2}
      BY DEF FirstNoticed
    <3>7. place > FirstNoticed(routine)
      BY <3>1, <3>5, <3>6
    <3> QED BY <1>1, <2>1, <3>3, <3>7, Zenon DEF MaxInv, AnswerInv
  <2>6. CASE Converted \/ Restarted
    BY <2>1, <2>6 DEF Converted, Restarted, mainMax
  <2> QED BY <2>3, <2>4, <2>5, <2>6
<1> QED BY <1>1, MaxInvariant, PTL DEF Max30208Spec, AbsentChipNoticed
=============================================================================

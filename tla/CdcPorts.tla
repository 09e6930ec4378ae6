------------------------------ MODULE CdcPorts ------------------------------
(***************************************************************************)
(* The two CDC ACM ports of 013.usb/usb_hid_cdc: how the bytes the host    *)
(* sends become the lines HidEvents starts from, and how main answers them *)
(* with write_data.                                                        *)
(*                                                                         *)
(* A handler reads whatever the driver has, as far as its buffer goes, and *)
(* looks for '\r' at the end of what it got only.  The handlers run on the *)
(* USB work queue, a cooperative thread: main waits while one runs.        *)
(*                                                                         *)
(* Abstracted: the characters of the answers (their length matters), the   *)
(* pool and the semaphore of the events (HidEvents), HID traffic (HidCdc). *)
(* The driver is external: it keeps the bytes of either direction and      *)
(* calls the handler when bytes arrive or a transmission is done.          *)
(***************************************************************************)
EXTENDS Naturals, Sequences, SequencesExt

CONSTANTS Letter,    \* the characters of a line
          Command,   \* the lines the mouse port understands
          Size,      \* sizeof(data_buf_mouse), sizeof(data_buf_kbd)
          TxRing,    \* bytes the driver keeps for the host
          Reply,     \* bytes of an answer
          Sent       \* bytes the host sends to each port, at most

Port == {"mouse", "kbd"}
CR   == "CR"

ASSUME PortsAssumption ==
  /\ CR \notin Letter /\ Command \subseteq Seq(Letter)
  /\ Size \in Nat \ {0} /\ TxRing \in Nat \ {0} /\ Reply \in Nat \ {0}
  /\ Sent \in [Port -> Nat]

VARIABLES rx,          \* bytes the driver holds for each handler
          tx,          \* number of bytes it holds for the host
          txReady,     \* the last transmission of the port is done
          txIrq,       \* uart_irq_tx_enable is in force
          due,         \* the driver is going to call the handler
          serving,     \* the port whose handler runs, or "none"
          buf,         \* data_buf_mouse, data_buf_kbd up to chr_ptr
          heard,       \* the lines raised as events, of both ports, in order
          taken,       \* how many of them main has taken
          transmitted, \* data_transmitted
          at,          \* where main is in write_data
          todo,        \* the ports main still has to answer on
          rest,        \* bytes of the answer not accepted by the driver
          sent,        \* history: what the host has sent
          pasted,      \* history: bytes of a port waited for its handler together
          asked, seen  \* history: bytes of answers begun, and seen by the host

rxVars == <<rx, buf, heard, sent, pasted>>
txVars == <<tx, txReady, txIrq, transmitted, at, todo, rest, asked, seen>>
vars   == <<rxVars, txVars, due, serving, taken>>

Init == /\ rx = [p \in Port |-> <<>>] /\ buf = [p \in Port |-> <<>>]
        /\ heard = <<>> /\ taken = 0 /\ sent = [p \in Port |-> <<>>] /\ pasted = FALSE
        /\ tx = [p \in Port |-> 0]
        /\ txReady = [p \in Port |-> TRUE] /\ txIrq = [p \in Port |-> FALSE]
        /\ due = [p \in Port |-> FALSE] /\ serving = "none"
        /\ transmitted = TRUE /\ at = "idle" /\ todo = <<>> /\ rest = 0
        /\ asked = [p \in Port |-> 0] /\ seen = [p \in Port |-> 0]

-----------------------------------------------------------------------------
(* The host and the driver.                                                *)

HostSends(p, c) ==
  /\ serving = "none" /\ Len(sent[p]) < Sent[p]
  /\ sent' = [sent EXCEPT ![p] = Append(@, c)]
  /\ rx' = [rx EXCEPT ![p] = Append(@, c)]
  /\ due' = [due EXCEPT ![p] = TRUE]
  /\ pasted' = (pasted \/ rx[p] # <<>>)
  /\ UNCHANGED <<buf, heard, txVars, serving, taken>>

HostReads(p) ==
  /\ serving = "none" /\ tx[p] > 0
  /\ \E n \in 1 .. tx[p] : /\ tx' = [tx EXCEPT ![p] = @ - n]
                           /\ seen' = [seen EXCEPT ![p] = @ + n]
  /\ txReady' = [txReady EXCEPT ![p] = TRUE]
  /\ due' = [due EXCEPT ![p] = @ \/ txIrq[p]]
  /\ UNCHANGED <<rxVars, txIrq, transmitted, at, todo, rest, asked, serving, taken>>

-----------------------------------------------------------------------------
(* The handlers.                                                           *)

\* Handler that looks at the transmitter only when there is nothing to read.
HandlerReadsFirst(p) ==
  /\ serving = "none" /\ due[p]
  /\ due' = [due EXCEPT ![p] = FALSE]
  /\ transmitted' = (transmitted \/ (rx[p] = <<>> /\ txReady[p] /\ txIrq[p]))
  /\ serving' = IF rx[p] = <<>> THEN "none" ELSE p
  /\ UNCHANGED <<rxVars, tx, txReady, txIrq, at, todo, rest, asked, seen, taken>>

Handler(p) ==
  /\ serving = "none" /\ due[p]
  /\ due' = [due EXCEPT ![p] = FALSE]
  /\ transmitted' = (transmitted \/ (txReady[p] /\ txIrq[p]))
  /\ serving' = IF rx[p] = <<>> THEN "none" ELSE p
  /\ UNCHANGED <<rxVars, tx, txReady, txIrq, at, todo, rest, asked, seen, taken>>

\* BytesRead that does not subtract chr_ptr.
BytesReadWhole(p) == IF Len(rx[p]) < Size THEN Len(rx[p]) ELSE Size

\* What uart_fifo_read returns: all there is, as far as there is room.
BytesRead(p) == IF Len(rx[p]) < Size - Len(buf[p])
                THEN Len(rx[p]) ELSE Size - Len(buf[p])

\* Filled that forgets chr_ptr.
FilledFromStart(p) == SubSeq(rx[p], 1, BytesRead(p))
Filled(p) == buf[p] \o SubSeq(rx[p], 1, BytesRead(p))

\* Only the mouse port gives up a buffer that is full.
Overflow(p, b) == p = "mouse" /\ Len(b) >= Size

\* Enter without flush_buffer.
EnterOnly(p, b) == /\ heard' = Append(heard, [port |-> p, text |-> Front(b)])
                   /\ buf' = [buf EXCEPT ![p] = b]

\* The line in the buffer is raised and the buffer is empty again.
Enter(p, b) == /\ heard' = Append(heard, [port |-> p, text |-> Front(b)])
               /\ buf' = [buf EXCEPT ![p] = <<>>]

ReadChunk(p) ==
  /\ serving = p /\ BytesRead(p) > 0
  /\ rx' = [rx EXCEPT ![p] = SubSeq(@, BytesRead(p) + 1, Len(@))]
  /\ LET b == Filled(p)
     IN  \/ Last(b) = CR /\ Enter(p, b)
         \/ /\ Last(b) # CR
            /\ buf' = [buf EXCEPT ![p] = IF Overflow(p, b) THEN <<>> ELSE b]
            /\ UNCHANGED heard
  /\ UNCHANGED <<sent, pasted, txVars, due, serving, taken>>

ReadNothing(p) ==
  /\ serving = p /\ BytesRead(p) = 0
  /\ serving' = "none"
  /\ UNCHANGED <<rxVars, txVars, due, taken>>

-----------------------------------------------------------------------------
(* main: one answer per line.  A mouse command is answered on its port, an *)
(* unknown one and a new string on both.                                   *)

Answers(line) == IF line.port = "mouse" /\ line.text \in Command
                 THEN <<"mouse">> ELSE <<"mouse", "kbd">>

TakeLine ==
  /\ serving = "none" /\ at = "idle" /\ taken < Len(heard)
  /\ taken' = taken + 1
  /\ todo' = Answers(heard[taken + 1])
  /\ at' = "enable"
  /\ UNCHANGED <<rxVars, tx, txReady, txIrq, transmitted, rest, asked, seen, due, serving>>

\* uart_irq_tx_enable calls the handler if the port is ready.
TxEnable ==
  /\ serving = "none" /\ at = "enable"
  /\ LET p == Head(todo)
     IN  /\ txIrq' = [txIrq EXCEPT ![p] = TRUE]
         /\ due' = [due EXCEPT ![p] = @ \/ txReady[p]]
         /\ asked' = [asked EXCEPT ![p] = @ + Reply]
  /\ rest' = Reply
  /\ at' = "clear"
  /\ UNCHANGED <<rxVars, tx, txReady, transmitted, todo, seen, serving, taken>>

\* The flag is cleared before the driver can be ready again.
Clear ==
  /\ serving = "none" /\ at = "clear"
  /\ transmitted' = FALSE
  /\ at' = "fill"
  /\ UNCHANGED <<rxVars, tx, txReady, txIrq, todo, rest, asked, seen, due, serving, taken>>

\* Fill that takes the whole text for accepted.
FillAndHope ==
  /\ serving = "none" /\ at = "fill"
  /\ LET p == Head(todo)
         room == TxRing - tx[p]
     IN  /\ tx' = [tx EXCEPT ![p] = @ + IF rest < room THEN rest ELSE room]
         /\ txReady' = [txReady EXCEPT ![p] = FALSE]
  /\ rest' = 0
  /\ at' = "wait"
  /\ UNCHANGED <<rxVars, txIrq, transmitted, asked, todo, seen, due, serving, taken>>

\* The driver takes what it has room for.
Fill ==
  /\ serving = "none" /\ at = "fill"
  /\ LET p == Head(todo)
         room == TxRing - tx[p]
         written == IF rest < room THEN rest ELSE room
     IN  /\ tx' = [tx EXCEPT ![p] = @ + written]
         /\ txReady' = [txReady EXCEPT ![p] = FALSE]
         /\ rest' = rest - written
  /\ at' = "wait"
  /\ UNCHANGED <<rxVars, txIrq, transmitted, todo, asked, seen, due, serving, taken>>

Wait ==
  /\ serving = "none" /\ at = "wait" /\ transmitted
  /\ at' = IF rest > 0 THEN "clear" ELSE "disable"
  /\ UNCHANGED <<rxVars, tx, txReady, txIrq, transmitted, todo, rest, asked, seen,
                 due, serving, taken>>

TxDisable ==
  /\ serving = "none" /\ at = "disable"
  /\ txIrq' = [txIrq EXCEPT ![Head(todo)] = FALSE]
  /\ todo' = Tail(todo)
  /\ at' = IF Len(todo) = 1 THEN "idle" ELSE "enable"
  /\ UNCHANGED <<rxVars, tx, txReady, transmitted, rest, asked, seen, due, serving, taken>>

Main == TakeLine \/ TxEnable \/ Clear \/ Fill \/ Wait \/ TxDisable

Next == \/ \E p \in Port : \/ \E c \in Letter \union {CR} : HostSends(p, c)
                           \/ HostReads(p)
                           \/ Handler(p) \/ ReadChunk(p) \/ ReadNothing(p)
        \/ Main

(***************************************************************************)
(* Fairness: the kernel runs the handlers and main, and the host reads     *)
(* both ports (write_data waits for it without a time limit).              *)
(***************************************************************************)
Spec == Init /\ [][Next]_vars /\ WF_vars(Main)
             /\ \A p \in Port : /\ WF_vars(HostReads(p)) /\ WF_vars(Handler(p))
                                /\ WF_vars(ReadChunk(p) \/ ReadNothing(p))

-----------------------------------------------------------------------------
\* The bytes of port p that were raised.
Raised(p) == FlattenSeq([i \in DOMAIN heard |->
                IF heard[i].port = p THEN Append(heard[i].text, CR) ELSE <<>>])

(***************************************************************************)
(* However the bytes are cut into reads, every byte for the keyboard is    *)
(* once, and in order, in an event, in its buffer or still in the driver.  *)
(* On the mouse port the same holds until a buffer could have overflowed.  *)
(* No read goes past the end of a buffer.                                  *)
(***************************************************************************)
NothingLost ==
  /\ \A p \in Port : Len(buf[p]) <= Size
  /\ \A p \in Port : p = "kbd" \/ Len(sent[p]) < Size
                       => Raised(p) \o buf[p] \o rx[p] = sent[p]

(***************************************************************************)
(* A host that types by hand gets one event per ENTER: no event holds two  *)
(* lines.  (Pasted lines may be merged into one, which is then unknown.)   *)
(***************************************************************************)
OneEventPerLine ==
  ~pasted => \A i \in DOMAIN heard : CR \notin Range(heard[i].text)

(***************************************************************************)
(* A keyboard buffer that is full without a final ENTER is full for good:  *)
(* the port never accepts another string.                                  *)
(***************************************************************************)
FullForGood == [][Len(buf["kbd"]) = Size => buf'["kbd"] = buf["kbd"]]_vars

(***************************************************************************)
(* Of each answer every byte has reached the host, waits in the driver, or *)
(* is still to be handed over: a partial uart_fifo_fill is made up for.    *)
(***************************************************************************)
TextArrives ==
  \A p \in Port : asked[p] = seen[p] + tx[p] +
     (IF at \in {"clear", "fill", "wait", "disable"} /\ Head(todo) = p THEN rest ELSE 0)

(***************************************************************************)
(* Every line raised is answered and main waits for the next one: the flag *)
(* that both handlers set is never set too late for write_data to see it.  *)
(***************************************************************************)
AnswersAll == []<>(at = "idle" /\ taken = Len(heard))
=============================================================================

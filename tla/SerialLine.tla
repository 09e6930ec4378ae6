----------------------------- MODULE SerialLine -----------------------------
(***************************************************************************)
(* 011.timer/pwm_ring_buf and 005.uart/ring_buffer: a line is read byte by *)
(* byte from the UART, goes through a ring buffer into data_read, and is   *)
(* used there: as the number that sets the brightness of a LED, or to be   *)
(* printed.                                                                *)
(*                                                                         *)
(* The ring is empty again after every line.  data_read is a variable of   *)
(* the loop that nobody clears: what an earlier line left in it stays.     *)
(*                                                                         *)
(* External: the UART, whose bytes wait for the program that polls it.     *)
(* Lines are shorter than data_write.                                      *)
(***************************************************************************)
EXTENDS Naturals, Sequences, SequencesExt

CONSTANTS Digits, End, \* the bytes of a line, and '\n'
          Nul,         \* '\0'
          Longest,     \* bytes of the longest line with its terminator
          Fifo         \* bytes that wait in the UART

ASSUME SerialAssumption == /\ End \notin Digits /\ Nul \notin Digits /\ End # Nul
                           /\ Longest \in Nat \ {0} /\ Fifo \in Nat \ {0}

VARIABLES
  unit,       \* which of the two programs
  uart,       \* the bytes that wait
  reading,    \* the loop has begun: the first uart_fifo_read of the line is done
  data_write,
  data_read,
  used,       \* the string that was used last
  line,       \* history: the bytes the program took since it used a line
  early       \* history: the first of them was there before the program looked

serial == <<unit, uart, reading, data_write, data_read, used, line, early>>

Places == 1 .. Longest

\* The memory of data_read is what it happens to be.
SerialInit ==
  /\ unit \in {"pwm_ring_buf", "ring_buffer"}
  /\ uart = <<>> /\ reading = FALSE /\ data_write = <<>>
  /\ data_read \in [Places -> Digits \cup {Nul}]
  /\ used = <<>> /\ line = <<>> /\ early = FALSE

-----------------------------------------------------------------------------
\* Bytes of the line that is being typed.
Unfinished == LET all == line \o uart
              IN  Len(all) - Max({i \in DOMAIN all : all[i] = End} \cup {0})

Types(b) ==
  /\ Len(uart) < Fifo /\ (b = End \/ Unfinished < Longest - 1)
  /\ uart' = Append(uart, b)
  /\ UNCHANGED <<unit, reading, data_write, data_read, used, line, early>>

\* A string in memory ends at its first terminator.
String(bytes) == SubSeq(bytes, 1, SelectInSeq(Append(bytes, Nul), LAMBDA b : b = Nul) - 1)

\* What is put into the ring: strlen bytes, or strlen + 1.
Bare(text) == text
Stored(text) == IF unit = "pwm_ring_buf" THEN Append(text, Nul) ELSE text

\* ring_buf_put, ring_buf_get, then atoi or printk; and the loop begins again.
ring_rd_wt(text) ==
  /\ data_read' = Stored(text) \o SubSeq(data_read, Len(Stored(text)) + 1, Longest)
  /\ used' = String(data_read')
  /\ reading' = FALSE /\ data_write' = <<>> /\ line' = <<>> /\ early' = FALSE

\* The uart_fifo_read before the loop: what it takes is only compared with '\n'.
FirstRead ==
  /\ ~reading
  /\ \/ /\ uart = <<>> /\ reading' = TRUE
        /\ UNCHANGED <<uart, data_write, data_read, used, line, early>>
     \/ /\ uart # <<>> /\ Head(uart) # End /\ reading' = TRUE
        /\ uart' = Tail(uart) /\ line' = <<Head(uart)>> /\ early' = TRUE
        /\ UNCHANGED <<data_write, data_read, used>>
     \/ uart # <<>> /\ Head(uart) = End /\ uart' = Tail(uart) /\ ring_rd_wt(<<>>)
  /\ UNCHANGED unit

uart_fifo_read ==
  /\ reading /\ uart # <<>> /\ uart' = Tail(uart)
  /\ \/ /\ Head(uart) # End
        /\ data_write' = Append(data_write, Head(uart)) /\ line' = Append(line, Head(uart))
        /\ UNCHANGED <<reading, data_read, used, early>>
     \/ Head(uart) = End /\ ring_rd_wt(data_write)
  /\ UNCHANGED unit

SerialNext == FirstRead \/ uart_fifo_read \/ \E b \in Digits \cup {End} : Types(b)
SerialSpec == SerialInit /\ [][SerialNext]_serial

-----------------------------------------------------------------------------
SerialTypeOK ==
  /\ uart \in Seq(Digits \cup {End}) /\ Len(uart) <= Fifo
  /\ reading \in BOOLEAN /\ early \in BOOLEAN
  /\ data_write \in Seq(Digits)
  /\ data_read \in Seq(Digits \cup {Nul}) /\ Longest <= Len(data_read)
  /\ used \in Seq(Digits) /\ line \in Seq(Digits)

(***************************************************************************)
(* The string that sets the LED is the line that was typed, short of its   *)
(* first byte if that was there before the program looked; no digit of an  *)
(* earlier, longer line is read with it.  ring_buffer, which puts no       *)
(* terminator into the ring, prints a string that begins with the line.    *)
(***************************************************************************)
DutyIsTheLine ==
  [][uart # <<>> /\ Head(uart) = End /\ uart' = Tail(uart) =>
       LET text == IF early THEN Tail(line) ELSE line
       IN  IF unit = "pwm_ring_buf" THEN used' = text ELSE IsPrefix(text, used')]_serial
=============================================================================

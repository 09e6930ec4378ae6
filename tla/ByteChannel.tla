---------------------------- MODULE ByteChannel ----------------------------
(***************************************************************************)
(* What an echoing serial port promises to the host: the bytes it gets are *)
(* those it sent, each once and in order.                                  *)
(***************************************************************************)
EXTENDS Naturals, Sequences

CONSTANT Byte
VARIABLES in,   \* what was sent
          out   \* what has been delivered

cvars == <<in, out>>

ChannelInit == in = <<>> /\ out = <<>>

Send == /\ \E b \in Byte : in' = Append(in, b)
        /\ UNCHANGED out

Deliver == /\ \E n \in Len(out) .. Len(in) : out' = SubSeq(in, 1, n)
           /\ UNCHANGED in

ChannelSpec == ChannelInit /\ [][Send \/ Deliver]_cvars
=============================================================================

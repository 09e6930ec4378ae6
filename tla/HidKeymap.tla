----------------------------- MODULE HidKeymap -----------------------------
(***************************************************************************)
(* The key table of 013.usb/usb_hid_cdc: which key main presses for a byte *)
(* of the saved string, and whether with SHIFT, set against the US layout  *)
(* by which a host reads keys.  HidCdc takes the table as its constants    *)
(* KeyOf and Shifted; this module says what they are for every byte.       *)
(***************************************************************************)
EXTENDS Integers

None == -1

\* Codes of the HID usage table: letters from 4 on, digits 1 .. 9 from 30 on.
Digit(d)   == IF d = 0 THEN 39 ELSE 29 + d
Space      == 44
Minus      == 45
Equal      == 46
LeftBrace  == 47
RightBrace == 48
Backslash  == 49
Semicolon  == 51
Apostrophe == 52
Grave      == 53
Comma      == 54
Dot        == 55
Slash      == 56
Delete     == 76

ascii_to_hid(c) ==
  CASE c = 48          -> Digit(0)
    [] c \in 49 .. 57  -> c - 19
    [] c \in 65 .. 90  -> c - 61
    [] c \in 97 .. 122 -> c - 93
    [] c = 33 -> Digit(1)   [] c = 64 -> Digit(2)   [] c = 35 -> Digit(3)
    [] c = 36 -> Digit(4)   [] c = 37 -> Digit(5)   [] c = 94 -> Digit(6)
    [] c = 38 -> Digit(7)   [] c = 42 -> Digit(8)   [] c = 40 -> Digit(9)
    [] c = 41 -> Digit(0)   [] c = 32 -> Space      [] c = 127 -> Delete
    [] c = 45 \/ c = 95 -> Minus       [] c = 43 \/ c = 61 -> Equal
    [] c = 91 \/ c = 123 -> LeftBrace  [] c = 93 \/ c = 125 -> RightBrace
    [] c = 92 \/ c = 124 -> Backslash  [] c = 58 \/ c = 59 -> Semicolon
    [] c = 34 \/ c = 39 -> Apostrophe  [] c = 96 \/ c = 126 -> Grave
    [] c = 44 \/ c = 60 -> Comma       [] c = 46 \/ c = 62 -> Dot
    [] c = 47 \/ c = 63 -> Slash       [] OTHER -> None

needs_shift(c) == \/ c \in 33 .. 43 /\ c # 39
                  \/ c \in 58 .. 90 /\ c # 59 /\ c # 61
                  \/ c \in {94, 95} \/ c \in 123 .. 126

-----------------------------------------------------------------------------
\* What a host with a US layout reads when a key is pressed, alone and with SHIFT.
Plain(k) ==
  CASE k \in 4 .. 29 -> k + 93  [] k \in 30 .. 38 -> k + 19  [] k = 39 -> 48
    [] k = Space -> 32          [] k = Minus -> 45           [] k = Equal -> 61
    [] k = LeftBrace -> 91      [] k = RightBrace -> 93      [] k = Backslash -> 92
    [] k = Semicolon -> 59      [] k = Apostrophe -> 39      [] k = Grave -> 96
    [] k = Comma -> 44          [] k = Dot -> 46             [] k = Slash -> 47
    [] OTHER -> None

WithShift(k) ==
  CASE k \in 4 .. 29 -> k + 61
    [] k = 30 -> 33  [] k = 31 -> 64  [] k = 32 -> 35  [] k = 33 -> 36  [] k = 34 -> 37
    [] k = 35 -> 94  [] k = 36 -> 38  [] k = 37 -> 42  [] k = 38 -> 40  [] k = 39 -> 41
    [] k = Space -> 32          [] k = Minus -> 95           [] k = Equal -> 43
    [] k = LeftBrace -> 123     [] k = RightBrace -> 125     [] k = Backslash -> 124
    [] k = Semicolon -> 58      [] k = Apostrophe -> 34      [] k = Grave -> 126
    [] k = Comma -> 60          [] k = Dot -> 62             [] k = Slash -> 63
    [] OTHER -> None

Typed(c) == IF needs_shift(c) THEN WithShift(ascii_to_hid(c)) ELSE Plain(ascii_to_hid(c))

(***************************************************************************)
(* A printable character comes back as itself.                             *)
(***************************************************************************)
TypedAsItself == \A c \in 32 .. 126 : Typed(c) = c

(***************************************************************************)
(* Of the other bytes only DEL has a key, which types nothing: the string  *)
(* that the host gets back is the one it sent without its unprintables.    *)
(***************************************************************************)
OthersTypeNothing ==
  \A c \in 0 .. 255 \ 32 .. 126 : Typed(c) = None /\ (ascii_to_hid(c) # None => c = 127)
=============================================================================

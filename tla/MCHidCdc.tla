------------------------------ MODULE MCHidCdc ------------------------------
(* Instances of HidCdc, with the key table of HidKeymap.  "a" and "A" share *)
(* a key; TAB is not supported.                                             *)
EXTENDS HidCdc, TLC

Keymap == INSTANCE HidKeymap

\* The table types every printable character and nothing else.
ASSUME KeymapAssumption == Keymap!TypedAsItself /\ Keymap!OthersTypeNothing

Ascii     == "a" :> 97 @@ "A" :> 65 @@ "b" :> 98 @@ "TAB" :> 9
MCChar    == DOMAIN Ascii
MCKeyOf   == [c \in {d \in MCChar : Keymap!ascii_to_hid(Ascii[d]) # Keymap!None}
               |-> ToString(Keymap!ascii_to_hid(Ascii[c]))]
MCShifted == {c \in MCChar : Keymap!needs_shift(Ascii[c])}

\* A mouse button, the string button twice, CAPS LOCK and one string.
MCMixed        == {"GPIO_BUTTON_1", "GPIO_BUTTON_2", "GPIO_BUTTON_3", "CDC_STRING"}
MCMixedPresses == [e \in MCMixed |-> IF e = "GPIO_BUTTON_2" THEN 2 ELSE 1]
MCMixedLines   == {<<"A", "b">>}

\* One press of button 2, the same string sent twice, a command beside it.
MCType        == {"GPIO_BUTTON_2", "CDC_UNKNOWN", "CDC_UP", "CDC_STRING"}
MCTypePresses == [e \in MCType |-> IF e = "CDC_STRING" THEN 2 ELSE 1]
MCTypeLines   == {<<"A", "b", "TAB", "a">>}

\* One press of button 2 on a string that holds a key twice in a row.
MCTwice        == {"GPIO_BUTTON_2", "CDC_STRING"}
MCTwicePresses == [e \in MCTwice |-> 1]
MCTwiceLines   == {<<"b", "b">>}

\* A long string, replaced by a short one.
MCReplacePresses == [e \in MCTwice |-> IF e = "CDC_STRING" THEN 2 ELSE 1]
MCReplaceLines   == {<<"a", "b", "a">>, <<"b">>}

\* One movement and the host away for a while.
MCAway        == {"GPIO_BUTTON_0"}
MCAwayPresses == [e \in MCAway |-> 2]
=============================================================================

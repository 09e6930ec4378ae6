---------------------------- MODULE MCHidEvents ----------------------------
(* HidEvents with one stimulus of each shape: the button that types the    *)
(* string, a mouse command and a keyboard line.                            *)
EXTENDS HidEvents
MCStimuli == {"GPIO_BUTTON_2", "CDC_UP", "CDC_STRING"}
=============================================================================

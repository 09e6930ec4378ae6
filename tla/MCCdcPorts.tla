----------------------------- MODULE MCCdcPorts -----------------------------
(* CdcPorts with a one-letter command and buffers of two bytes.             *)
EXTENDS CdcPorts
MCLetter  == {"u"}
MCCommand == {<<"u">>}
MCSent    == [p \in Port |-> IF p = "mouse" THEN 2 ELSE 3]
=============================================================================

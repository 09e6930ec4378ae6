------------------------------ MODULE MCCdcEcho ------------------------------
(* CdcEcho with a ring of three bytes, moved two at a time.                  *)
EXTENDS CdcEcho
MCByte == {"a", "b"}
=============================================================================

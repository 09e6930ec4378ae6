----------------------------- MODULE MCCdcBridge -----------------------------
(* CdcBridge with rings of two bytes, moved two at a time.                  *)
EXTENDS CdcBridge
MCByte == {"a", "b"}
=============================================================================

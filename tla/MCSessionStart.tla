---------------------------- MODULE MCSessionStart ----------------------------
(* Small instances of SessionStart, and with it of LogWriter, for TLC. *)
EXTENDS SessionStart, TLC

CONSTANTS main_thread, h1
=============================================================================

--------------------------- MODULE MCAlertRuntime ---------------------------
(* AlertRuntime with model values for TLC. *)
EXTENDS AlertRuntime

CONSTANTS r1, offline
=============================================================================

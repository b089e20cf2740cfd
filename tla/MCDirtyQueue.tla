---------------------------- MODULE MCDirtyQueue ----------------------------
(* The dirty queue with a few servers and workers.                         *)
EXTENDS DirtyQueue
=============================================================================

---------------------------- MODULE MCWorkQueue ----------------------------
(* WorkQueue for TLC: the parameters are in WorkQueue.cfg. *)
EXTENDS WorkQueue
============================================================================

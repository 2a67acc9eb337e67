----------------------------- MODULE SoftTimerMC -----------------------------
(* Small instances of SoftTimer for TLC. *)
EXTENDS SoftTimer
=============================================================================

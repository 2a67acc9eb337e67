------------------------------- MODULE KeyMC -------------------------------
(* A key polled with thresholds that are no multiples of the period. *)
EXTENDS Key
=============================================================================

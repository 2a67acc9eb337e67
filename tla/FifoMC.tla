------------------------------- MODULE FifoMC -------------------------------
(* A ring small enough for TLC: the least size LLOS_FIFO_Init accepts, and   *)
(* counters that wrap after twice as many bytes.                             *)
EXTENDS Fifo

\* each call has one caller, and the main program makes at least one of the two
OneSideEach == [input : {"main"}, output : {"main", "isr"}] \cup [input : {"isr"}, output : {"main"}]
=============================================================================

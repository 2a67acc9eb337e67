----------------------------- MODULE MemPoolMC -----------------------------
(* A pool small enough for TLC: every layout of blocks of one and two words, *)
(* and every content of their payloads.                                      *)
EXTENDS MemPool
=============================================================================

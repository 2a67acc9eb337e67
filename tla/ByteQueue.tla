----------------------------- MODULE ByteQueue -----------------------------
(***************************************************************************)
(* What a FIFO promises: bytes come out once each, in the order they went  *)
(* in, and there are never more than Size of them inside.                  *)
(***************************************************************************)
EXTENDS Naturals, Sequences

CONSTANT Size

VARIABLES q,   \* the bytes inside, oldest first
          io   \* the bytes the last transfer moved, and in which direction

queue == <<q, io>>

Init == q = <<>> /\ io = [way |-> "none", bytes |-> <<>>]

Put == io'.way = "in" /\ q' = q \o io'.bytes /\ Len(q') <= Size

Get == io'.way = "out" /\ q = io'.bytes \o q'

Clear == q' = <<>> /\ UNCHANGED io

Next == Put \/ Get \/ Clear

Spec == Init /\ [][Next]_queue

=============================================================================

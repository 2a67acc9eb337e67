---------------------------- MODULE EventLoopMC ----------------------------
(* Small instances of EventLoop for TLC. *)
EXTENDS EventLoop

\* no point of the main program is free of interrupts
Never == {}
=============================================================================

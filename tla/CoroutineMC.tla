---------------------------- MODULE CoroutineMC ----------------------------
EXTENDS Coroutine

\* Between these loads and stores an event set by an interrupt is lost.
Stores == {"registerStore", "setStore", "clearStore", "waitStore"}
=============================================================================

-------------------------------- MODULE LedMC --------------------------------
EXTENDS Led

\* a short blink, one of several ticks with a remainder, one without end, a stop,
\* and one whose duty is cut to 100
SomeBlinks == {[num |-> 2, duty |-> 50, ms |-> 45], [num |-> 1, duty |-> 120, ms |-> 20],
               [num |-> FOREVER, duty |-> 70, ms |-> 30], [num |-> 0, duty |-> 0, ms |-> 1]}
=============================================================================

------------------------------ MODULE ConsoleMC ------------------------------
EXTENDS Console, CmdParams

\* A command that is the beginning of a longer one, with a separator within
SomeCommands == << <<"*RST">>, <<"LED">>, <<"LED", "space", "R">>, <<"*IDN?">> >>
\* With and without parameters, in other case, with an end of line, a word that only
\* starts like a command, an unknown one, the longest line and one that is too long
SomeLines == { <<"*rst">>, <<"LED", "space", "1">>, <<"LED", "space", "R", "space", "1">>,
               <<"LED", "space", "R", "cr">>, <<"*RST", "x">>,
               <<"LED", "space", "R", "comma", "1", "cr">>,
               <<"LED", "space", "1", "2", "3", "4">>,
               <<"LED", "space", "1", "2", "3", "4", "cr">> }
SomeTokens == UNION {Range(l) : l \in SomeLines \cup Range(SomeCommands)}
SomeSeparators == {"space", "tab", "comma", "cr", "lf"}
SomeRooms == 0 .. 6

\* The parsers return the parameters that were written, whatever their types and values
\* and whichever separator is used: none takes a part of the next one or trips over what
\* the one before left (llos.c:1015-1046, 1133-1327).  They keep no state, so the initial
\* state is enough to say so in.
ParamsComeBack ==
    ConsoleInit => \A p1 \in Meant, p2 \in Meant, p3 \in Meant, sep \in Separators :
                ~Ambiguous(p1, p2) /\ ~Ambiguous(p2, p3) => ComeBack(p1, p2, p3, sep)
=============================================================================

------------------------------ MODULE CmdParams ------------------------------
(***************************************************************************)
(* The parameters of a command: LLOS_Cmd_ParamBool, ParamInt32, ParamFloat *)
(* and ParamCopyText (kernel/llos.c), which a command's callback calls one *)
(* after the other.  Each takes its parameter off the front of the buffer. *)
(*                                                                         *)
(* A buffer is a sequence of tokens: delimiters, numbers, words and units. *)
(* A number is its value; values with units are counted in thousandths.    *)
(* The numbers fit their types: that ParamInt32 and ParamFloat refuse      *)
(* others, before or after the unit, is left out (llos.c:1233, 1270-1281). *)
(***************************************************************************)
EXTENDS Integers, Sequences, SequencesExt

Delimiters == {"space", "comma", "tab"}
BoolWords == {"0", "1", "ON", "OFF", "TRUE", "FALSE"}
NumberWords == {"0", "1", "15", "-2"}
Units == {"mA", "kA", "s", "F"}

IsTrue(word) == word \in {"1", "ON", "TRUE"}
NumberOf == [word \in NumberWords |->
    CASE word = "0" -> 0 [] word = "1" -> 1 [] word = "15" -> 15 [] word = "-2" -> -2]
Thousandths == [unit \in Units |->
    CASE unit = "mA" -> 1 [] unit = "kA" -> 1000000 [] unit \in {"s", "F"} -> 1000]

Failed(text) == [ok |-> FALSE, val |-> [none |-> 0], text |-> text]
Got(val, text) == [ok |-> TRUE, val |-> val, text |-> text]

Trim_spaces(text) ==   \* mutant: a comma is not skipped
    LET n == SelectInSeq(text, LAMBDA tok : tok # "space")
    IN IF n = 0 THEN <<>> ELSE SubSeq(text, n, Len(text))
Trim(text) ==
    LET n == SelectInSeq(text, LAMBDA tok : tok \notin {"space", "comma"})
    IN IF n = 0 THEN <<>> ELSE SubSeq(text, n, Len(text))

\* the parameter must end where a delimiter or the end of the buffer follows
Ends(text) == text = <<>> \/ Head(text) \in Delimiters

ParamBool(buffer) ==
    LET text == Trim(buffer)
    IN IF text # <<>> /\ Head(text) \in BoolWords /\ Ends(Tail(text))
         THEN Got([bool |-> IsTrue(Head(text))], Tail(text)) ELSE Failed(text)

\* convert_unit: behind blanks and commas, the longest unit the text starts with.  It is
\* found in a longer word, too: FALSE starts with F.
convert_unit(text) ==
    LET at == Trim(text) IN
    CASE at # <<>> /\ Head(at) \in Units -> [times |-> Thousandths[Head(at)], text |-> Tail(at)]
      [] at # <<>> /\ Head(at) = "FALSE" -> [times |-> Thousandths["F"],
                                             text |-> <<"ALSE">> \o Tail(at)]
      [] OTHER                           -> [times |-> 1000, text |-> text]

\* the number in thousandths
ParamNumber(buffer) ==
    LET text == Trim(buffer) IN
    IF text = <<>> \/ Head(text) \notin NumberWords THEN Failed(text)
    ELSE LET unit == convert_unit(Tail(text))
         IN IF Ends(unit.text) THEN Got([num |-> NumberOf[Head(text)] * unit.times], unit.text)
            ELSE Failed(text)

\* the conversion to int32_t truncates towards 0
Truncated(x) == IF x < 0 THEN -((-x) \div 1000) ELSE x \div 1000
ParamInt32(buffer) ==
    LET param == ParamNumber(buffer)
    IN IF param.ok THEN Got([num |-> Truncated(param.val.num)], param.text) ELSE param
ParamFloat(buffer) == ParamNumber(buffer)

\* What precedes the first quote is skipped; the text is cut to copyLen.
ParamCopyText(buffer, copyLen) ==
    LET text == Trim(buffer)
        start == SelectInSeq(text, LAMBDA tok : tok = "quote")
        behind == SubSeq(text, start + 1, Len(text))
        end == SelectInSeq(behind, LAMBDA tok : tok = "quote")
    IN IF start = 0 \/ end = 0 THEN Failed(text)
       ELSE Got([text |-> SubSeq(behind, 1, IF end - 1 > copyLen THEN copyLen ELSE end - 1)],
                SubSeq(behind, end + 1, Len(behind)))

-----------------------------------------------------------------------------
(* Properties.                                                               *)

CopyLen == 2

\* Parameters a sender means, and how they are written.
Meant ==
    { [type |-> "bool", word |-> <<w>>, val |-> [bool |-> IsTrue(w)]] : w \in BoolWords }
    \cup { [type |-> "int32", word |-> <<w>>, val |-> [num |-> NumberOf[w]]] : w \in NumberWords }
    \cup { [type |-> "int32", word |-> <<w, "kA">>, val |-> [num |-> NumberOf[w] * 1000]] : w \in {"1", "-2"} }
    \cup { [type |-> "float", word |-> <<w, "mA">>, val |-> [num |-> NumberOf[w]]] : w \in {"15", "-2"} }
    \cup { [type |-> "text", word |-> <<"quote">> \o s \o <<"quote">>, val |-> [text |-> s]] :
             s \in {<<>>, <<"comma">>, <<"1", "TRUE">>} }

Separators == {<<"comma">>, <<"space">>, <<"comma", "space">>}
Written(p1, p2, p3, sep) == p1.word \o sep \o p2.word \o sep \o p3.word

Param(p, buffer) ==
    CASE p.type = "bool"  -> ParamBool(buffer)
      [] p.type = "int32" -> ParamInt32(buffer)
      [] p.type = "float" -> ParamFloat(buffer)
      [] p.type = "text"  -> ParamCopyText(buffer, CopyLen)

\* A number without a unit must not be followed by FALSE: its F is taken for farad.
Ambiguous(p, q) == p.type \in {"int32", "float"} /\ Len(p.word) = 1 /\ q.word = <<"FALSE">>

\* The parsers, called one after the other, return three parameters as they were
\* written and leave nothing over.
ComeBack(p1, p2, p3, sep) ==
    LET first == Param(p1, Written(p1, p2, p3, sep))
        second == Param(p2, first.text)
        third == Param(p3, second.text)
    IN /\ first.ok /\ second.ok /\ third.ok
       /\ first.val = p1.val /\ second.val = p2.val /\ third.val = p3.val
       /\ third.text = <<>>
=============================================================================

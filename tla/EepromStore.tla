----------------------------- MODULE EepromStore -----------------------------
(***************************************************************************)
(* What the emulated EEPROM promises its user, whatever happens to the     *)
(* power: a map from virtual addresses to values in which one write at a   *)
(* time takes effect at one instant or not at all, and a write that has    *)
(* reported success has taken effect for good.                             *)
(***************************************************************************)
CONSTANTS Vars,    \* virtual addresses
          Data,    \* 32-bit values
          Blank,   \* what an address holds that was never written
          NoWrite  \* no write is under way

VARIABLES val,  \* the stored map
          op,   \* the write under way
          out   \* what the last write reported

store == <<val, op, out>>

Writes == [var : Vars, data : Data]

Init == val = [v \in Vars |-> Blank] /\ op = NoWrite /\ out = "none"

Begin(w) == op = NoWrite /\ op' = w /\ out' = "none" /\ UNCHANGED val

Written == [val EXCEPT ![op.var] = op.data]

Commit == op \in Writes /\ val' = Written /\ UNCHANGED <<op, out>>

Succeed == /\ op \in Writes /\ val[op.var] = op.data
           /\ out' = "ok" /\ op' = NoWrite /\ UNCHANGED val

Rewrite(w) == op = NoWrite /\ val[w.var] = w.data /\ out' = "ok" /\ UNCHANGED <<val, op>>

\* A write that reports an error may have taken effect.
Fail == op \in Writes /\ val' \in {val, Written} /\ out' = "error" /\ op' = NoWrite

\* The power fails: the user never learns whether the write took effect.
PowerFail == op' = NoWrite /\ out' = "none" /\ UNCHANGED val

Next ==
    \/ \E w \in Writes : Begin(w) \/ Rewrite(w)
    \/ Commit \/ Succeed \/ Fail \/ PowerFail

Spec == Init /\ [][Next]_store

=============================================================================

----------------------------- MODULE MCSettings -----------------------------
(* Settings with values on either side of the floors, and lists of the Mini *)
(* App that the keyboard would not make.                                    *)
EXTENDS Settings, TLC

MCAll == {"sports", "crypto"}

TwoFields == {"amount", "trades"}
OneField == {"amount"}

\* Too low for an amount and good for a number of trades, and the commands.
LimitTexts == {9, Start, Stop, Menu}
\* Under the least amount, at it, and leaving.
FewTexts == {9, 10, Stop}

\* Numbers below every floor, with all categories listed, or as many names of
\* which one is no category.
LimitForms == {[num |-> [f \in Fields |-> 0], cats |-> cats] :
                  cats \in {All, {"sports"} \cup Unknown}}
LowForms == {[num |-> [f \in Fields |-> 0], cats |-> {"sports"}]}

Alike == Permutations(Handlers) \cup Permutations(Panels)
=============================================================================

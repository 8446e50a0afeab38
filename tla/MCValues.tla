------------------------------ MODULE MCValues ------------------------------
(* Small instances of Values for TLC.                                      *)
EXTENDS Values, TLC

CONSTANTS v1, v2, a, b

MCValues == {v1, v2}
MCWords == {a, b}
MCTexts == {<<a>>, <<a, b>>}

AllRules == CallerRules
Symmetric == Permutations(Strings) \cup Permutations(MCValues)
=============================================================================

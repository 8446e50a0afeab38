--------------------------- MODULE MCObjectFreeing ---------------------------
(* Small instances of ObjectFreeing for TLC.                               *)
EXTENDS ObjectFreeing

AllRules == CallerRules
=============================================================================

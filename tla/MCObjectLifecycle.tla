-------------------------- MODULE MCObjectLifecycle --------------------------
(* Small instances of ObjectLifecycle for TLC.                             *)
EXTENDS ObjectLifecycle

CONSTANTS t1, t2, o1, o2

TwoThreads == {t1, t2}
TwoObjects == {o1, o2}

AllRules == CallerRules
=============================================================================

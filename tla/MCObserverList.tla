--------------------------- MODULE MCObserverList ---------------------------
(* Small instances of ObserverList for TLC.                                *)
EXTENDS ObserverList, TLC

CONSTANTS t1, t2, t3, upper, lower, w1, w2, w3

MCThreads == {t1, t2, t3}
MCSubjects == {upper, lower}
MCWatchers == {w1, w2, w3}

(* The handler of w1 notifies the lower subject, those of w2 and w3 nobody.  *)
MCForward == (w1 :> lower) @@ (w2 :> NULL) @@ (w3 :> NULL)
MCLevel == (upper :> 2) @@ (lower :> 1)

AllRules == CallerRules
=============================================================================

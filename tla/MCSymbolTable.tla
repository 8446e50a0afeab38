---------------------------- MODULE MCSymbolTable ----------------------------
(* Small instances of SymbolTable for TLC.                                 *)
EXTENDS SymbolTable

CONSTANTS t1, t2, empty, foo, bar

MCThreads == {t1, t2}
MCStrings == {empty, foo, bar}
=============================================================================

-------------------------- MODULE MCNodeDirectory --------------------------
(* Small instances of NodeDirectory for TLC.                               *)
EXTENDS NodeDirectory

CONSTANTS o1, o2

MCWords == {"a", "b", "1", "2", "3", "4", "5"}
MCNumerals == <<"1", "2", "3", "4", "5">>
MCObservers == {o1, o2}
OneObserver == {o1}

A == <<"/", "a">>
B == <<"/", "b">>
AB == A \o B
A1B == <<"/", "a", ".", "1", "/", "b">>

SmallRequests == {A, AB, B}
SmallKeys == {A, Separator}
TreeRequests == {A, AB, A1B}
TreeKeys == {A}
SmallNames == {<<"b">>}
SmallInstances == {<<"1">>}

(* The levels a, b, a.1, b.1, ... and the addresses of at most two.        *)
MCLevels ==
  [name : {<<"a">>, <<"b">>}, instance : {None} \cup {<<i>> : i \in Range(MCNumerals)}]
MCPlaces ==
  {Separator} \cup {Write(<<l>>, None) : l \in MCLevels}
  \cup {Write(<<l1, l2>>, None) : l1, l2 \in MCLevels}

AnyName == [name |-> Wildcard, instance |-> None]
AnyInstance == [name |-> Wildcard, instance |-> Wildcard]
AnyA == [name |-> <<"a">>, instance |-> Wildcard]
AnyFirst == [name |-> Wildcard, instance |-> <<"1">>]
PlainB == [name |-> <<"b">>, instance |-> None]

(* /a/b, and every address of at most two levels with these wildcards.     *)
MCPatterns ==
  LET wild == {AnyName, AnyInstance, AnyA, AnyFirst}
  IN  {AB} \cup {Write(<<l>>, None) : l \in wild}
      \cup {Write(<<l1, l2>>, None) : l1 \in wild, l2 \in wild \cup {PlainB}}

Symmetric == Permutations(MCObservers)

AllRules == CallerRules
=============================================================================

----------------------------- MODULE OscAddress -----------------------------
(***************************************************************************)
(* The address functions of library/source/TTNodeDirectory.cpp: splitting, *)
(* merging and comparing addresses /name.instance/...:property.            *)
(*                                                                         *)
(* An address is the sequence of its tokens: words and the four characters *)
(* that the code looks for.  The empty symbol, which stands for no name,   *)
(* no instance, no parent and no property alike, is the empty sequence.    *)
(***************************************************************************)
EXTENDS Naturals, Sequences, FiniteSets, SequencesExt

CONSTANT Words   (* the names, instances and properties without separators *)

ASSUME OscAddressAssumption == Words \cap {"/", ".", ":", "*"} = {}

Address == Seq(Words \cup {"/", ".", ":", "*"})

None == <<>>
Separator == <<"/">>
Wildcard == <<"*">>

Before(a, i) == SubSeq(a, 1, i - 1)
After(a, i) == SubSeq(a, i + 1, Len(a))

(* Mutant of LastIndex: strchr.                                            *)
FirstIndex(a, token) == SelectInSeq(a, LAMBDA t : t = token)

(* strrchr: 0 where the code gets NULL.                                    *)
LastIndex(a, token) == SelectLastInSeq(a, LAMBDA t : t = token)

-----------------------------------------------------------------------------
CountSeparator(a) == Cardinality({i \in DOMAIN a : a[i] = "/"})

(* The part up to the '/' number whereToSplit (from 0), and the rest.      *)
SplitAtOSCAddress(a, whereToSplit) ==
  IF CountSeparator(a) <= whereToSplit
  THEN [top |-> a, rest |-> None, err |-> TRUE]
  ELSE LET at == CHOOSE i \in DOMAIN a :
                   a[i] = "/" /\ CountSeparator(SubSeq(a, 1, i)) = whereToSplit + 1
       IN  [top |-> SubSeq(a, 1, at), rest |-> After(a, at), err |-> FALSE]

(* /parent/name.instance:property; the root has no parent, and the name /. *)
SplitOSCAddress(a) ==
  LET colon == LastIndex(a, ":")
      path == IF colon = 0 THEN a ELSE Before(a, colon)
      slash == LastIndex(path, "/")
      whole == slash = 0 \/ path = Separator
      node == IF whole THEN path ELSE After(path, slash)
      dot == LastIndex(node, ".")
  IN  [parent |-> IF whole THEN None
                  ELSE IF slash = 1 THEN Separator ELSE Before(path, slash),
       name |-> IF dot = 0 THEN node ELSE Before(node, dot),
       instance |-> IF dot = 0 THEN None ELSE After(node, dot),
       property |-> IF colon = 0 THEN None ELSE After(a, colon)]

Prefixed(mark, word) == IF word = None THEN None ELSE mark \o word

MergeOSCAddress(parent, name, instance, property) ==
  parent
  \o Prefixed(IF name = Separator \/ parent = Separator THEN None ELSE Separator, name)
  \o Prefixed(<<".">>, instance)
  \o Prefixed(<<":">>, property)

-----------------------------------------------------------------------------
(* The tops and rests of both addresses at the first level that differs or *)
(* that is the last of one of them.                                        *)
FirstDifference[pair \in Address \X Address] ==
  LET s1 == SplitAtOSCAddress(pair[1], 0)
      s2 == SplitAtOSCAddress(pair[2], 0)
  IN  IF s1.top = s2.top /\ ~ s1.err /\ ~ s2.err
      THEN FirstDifference[<<s1.rest, s2.rest>>]
      ELSE <<s1, s2>>

(* A level without the slash that may end it, split in its parts.          *)
LevelOf(top) ==
  SplitOSCAddress(IF top # None /\ top[Len(top)] = "/" THEN Before(top, Len(top)) ELSE top)

(* Mutant of Alike: only the first word is tried as a wildcard.            *)
AlikeOneSided(word1, word2) == word1 = word2 \/ word1 = Wildcard

Alike(word1, word2) == word1 = word2 \/ Wildcard \in {word1, word2}

LevelsMatch(level1, level2) ==
  /\ Alike(level1.name, level2.name)
  /\ Alike(level1.instance, level2.instance)
  /\ level1.property = level2.property

CompareOSCAddress[pair \in Address \X Address] ==
  LET a == pair[1]
      b == pair[2]
      s1 == FirstDifference[pair][1]
      s2 == FirstDifference[pair][2]
  IN  CASE a = b -> "Equal"
        [] a # b /\ a = Separator -> "Upper"
        [] a # b /\ b = Separator -> "Lower"
        [] OTHER ->
             IF ~ LevelsMatch(LevelOf(s1.top), LevelOf(s2.top)) THEN "Different"
             ELSE CASE s1.err /\ ~ s2.err -> "Upper"
                    [] ~ s1.err /\ s2.err -> "Lower"
                    [] OTHER -> CompareOSCAddress[<<s1.rest, s2.rest>>]

-----------------------------------------------------------------------------
(* Paths: an address as the sequence of its levels, the reference for the  *)
(* functions above.  Only the last level carries the property.             *)
Level == [name : {<<w>> : w \in Words \cup {"*"}},
          instance : {None} \cup {<<w>> : w \in Words \cup {"*"}}]

WriteLevel(l) == l.name \o Prefixed(<<".">>, l.instance)

Write(path, property) ==
  (IF path = <<>> THEN Separator
   ELSE FoldLeft(LAMBDA text, l : text \o Separator \o WriteLevel(l), None, path))
  \o Prefixed(<<":">>, property)

(* What the flags of TTNodeDirectory.h:31-36 mean.                         *)
Covers(word1, word2) == word1 \in {word2, Wildcard}

Relation(path1, property1, path2, property2) ==
  LET n1 == Len(path1)
      n2 == Len(path2)
      PropertyAt(path, property, i) == IF i = Len(path) THEN property ELSE None
      same == \A i \in 1..n1 \cap 1..n2 :
                /\ \A part \in {"name", "instance"} :
                     \/ Covers(path1[i][part], path2[i][part])
                     \/ Covers(path2[i][part], path1[i][part])
                /\ PropertyAt(path1, property1, i) = PropertyAt(path2, property2, i)
  IN  CASE ~ same -> "Different"
        [] same /\ n1 = n2 -> "Equal"
        [] same /\ n1 > n2 -> "Lower"
        [] same /\ n1 < n2 -> "Upper"

=============================================================================

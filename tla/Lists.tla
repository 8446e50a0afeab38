------------------------------- MODULE Lists -------------------------------
(***************************************************************************)
(* What TTList (library/source/TTList.cpp) does with its std::list: an     *)
(* element is added behind the others, and the first one that is equal is  *)
(* taken out.  The mutex and the iterator of a list are in the modules that*)
(* use it.                                                                 *)
(***************************************************************************)
EXTENDS Naturals, Sequences

Elements(seq) == {seq[i] : i \in DOMAIN seq}

(* appendUnique: findEquals, then append.                                  *)
AppendUnique(seq, x) == IF x \in Elements(seq) THEN seq ELSE Append(seq, x)

(* remove: each element is allocated by itself, so that the list forgets   *)
(* the one that was found and no other.                                    *)
RemoveFirst(seq, w) ==
  LET at == {i \in DOMAIN seq : seq[i] = w}
  IN  IF at = {} THEN seq
      ELSE LET first == CHOOSE i \in at : \A j \in at : i <= j
           IN  [i \in 1..Len(seq) - 1 |-> IF i < first THEN seq[i] ELSE seq[i + 1]]
=============================================================================

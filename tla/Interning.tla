------------------------------ MODULE Interning ------------------------------
(***************************************************************************)
(* What a symbol table promises (TTSymbolTable.h:90): each string has one  *)
(* id, the same for every caller and for ever, and ids are given in the    *)
(* order in which the strings first came.                                  *)
(***************************************************************************)
EXTENDS Naturals, Sequences

CONSTANTS
  Strings,     (* the contents that may be interned                        *)
  EmptyString  (* interned from the start, with the id 0                   *)

VARIABLES
  interned,    (* the strings in the order of their ids                    *)
  answered     (* the pairs <<string, id>> that callers were told          *)

Init ==
  /\ interned = <<EmptyString>>
  /\ answered = {}

Intern(s) ==
  /\ \A i \in DOMAIN interned : interned[i] # s
  /\ interned' = Append(interned, s)
  /\ UNCHANGED answered

Answer(s) ==
  /\ \E i \in DOMAIN interned :
       /\ interned[i] = s
       /\ answered' = answered \cup {<<s, i - 1>>}
  /\ UNCHANGED interned

Next == \E s \in Strings : Intern(s) \/ Answer(s)

Spec == Init /\ [][Next]_<<interned, answered>>

=============================================================================

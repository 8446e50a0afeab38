----------------------------- MODULE AddressTree -----------------------------
(***************************************************************************)
(* What a node directory promises (TTNodeDirectory.h:53-76): a tree of     *)
(* addresses, complete towards the root, in which an address appears below *)
(* one that is there, goes together with all the addresses below it, and   *)
(* changes its last level where nothing is below it.                       *)
(***************************************************************************)
CONSTANTS
  Addresses,
  Root,
  Parent(_),      (* the address one level up                              *)
  Below(_, _)     (* the first address is below the second                 *)

VARIABLE tree

Init == tree = {Root}

Leaf(a) == a \in tree \ {Root} /\ \A b \in tree : ~ Below(b, a)

Add(a) ==
  /\ a \notin tree
  /\ Parent(a) \in tree
  /\ tree' = tree \cup {a}

Prune(a) ==
  /\ a \in tree \ {Root}
  /\ tree' = {b \in tree : b # a /\ ~ Below(b, a)}

Move(a) ==
  /\ Leaf(a)
  /\ \E b \in Addresses \ tree :
       Parent(b) = Parent(a) /\ tree' = (tree \ {a}) \cup {b}

Next == \E a \in Addresses : Add(a) \/ Prune(a) \/ Move(a)

Spec == Init /\ [][Next]_tree

=============================================================================

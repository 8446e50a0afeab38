-------------------------- MODULE MCDirectoryTree --------------------------
(* What addresses match: the functions on addresses, for every pair of     *)
(* small addresses, and the lookups in every tree of a small instance of   *)
(* NodeDirectory.                                                          *)
EXTENDS MCNodeDirectory

CONSTANTS
  AddressLevels,  (* the levels that addresses are built from              *)
  Properties,     (* the properties, None among them                       *)
  MaxLevels       (* bound: the levels of an address                       *)

MCProperties == {None, <<"a">>}

(* a, b, a.1, *, a.* and *.1                                               *)
MCAddressLevels ==
  {[name |-> <<w>>, instance |-> None] : w \in {"a", "b", "*"}} \cup
  {[name |-> <<"a">>, instance |-> <<w>>] : w \in {"1", "*"}} \cup
  {[name |-> Wildcard, instance |-> <<"1">>]}

Paths == UNION {[1..n -> AddressLevels] : n \in 0..MaxLevels}

(* A path with a property, and as it is written.  The root itself carries  *)
(* no property.                                                            *)
Named(p, q) == [path |-> p, property |-> q, address |-> Write(p, q)]
Small == {Named(p, q) : p \in Paths \ {<<>>}, q \in Properties} \cup {Named(<<>>, None)}

(* The nodes of a tree: the path from the root, and the address that       *)
(* getOscAddress gives.                                                    *)
PathTo[n \in DOMAIN nodes] ==
  IF nodes[n].parent = 0 THEN <<>>
  ELSE Append(PathTo[nodes[n].parent], [name |-> nodes[n].name, instance |-> nodes[n].instance])
InTree ==
  {[path |-> PathTo[n], property |-> None, address |-> OscAddress(n)] : n \in Handed}

-----------------------------------------------------------------------------
Compares(x, y) ==
  CompareOSCAddress[<<x.address, y.address>>] = Relation(x.path, x.property, y.path, y.property)

(* The parent, the name, the instance and the property that an address was *)
(* written with.                                                           *)
SplitsAndMergesBack(x) ==
  LET parts == SplitOSCAddress(x.address)
  IN  /\ MergeOSCAddress(parts.parent, parts.name, parts.instance, parts.property) = x.address
      /\ x.path # <<>> =>
           LET l == x.path[Len(x.path)]
           IN  parts = [parent |-> Write(Front(x.path), None), name |-> l.name,
                        instance |-> l.instance, property |-> x.property]

(* The two parts of a split at any '/' put together are the address, and   *)
(* the first one holds the levels before it.                               *)
SplitsAtSeparator(x) ==
  \A n \in 0..MaxLevels :
    LET s == SplitAtOSCAddress(x.address, n)
    IN  /\ s.top \o s.rest = x.address
        /\ s.err <=> n >= CountSeparator(x.address)
        /\ ~ s.err /\ x.path # <<>> =>
             s.top = (IF n = 0 THEN None ELSE Write(SubSeq(x.path, 1, n), None)) \o Separator

ComparesSmall == \A x, y \in Small : Compares(x, y)
SplitsSmall == \A x \in Small : SplitsAndMergesBack(x) /\ SplitsAtSeparator(x)

(* TTNodeDirectory.cpp:675-747, TTNodeDirectory.h:31-36.  The comparison   *)
(* that skips equal levels, then matches one level with wildcards and      *)
(* recurses, finds what a level-by-level comparison of the paths finds, for*)
(* all small addresses and for those of the nodes of any tree.             *)
ComparesPaths == ComparesSmall /\ (stack = <<>> => \A x, y \in InTree : Compares(x, y))

(* TTNodeDirectory.cpp:528-673, TTNode.cpp:478-559.  Both ways to split an *)
(* address are undone by putting the parts together, and cut it where its  *)
(* levels are: those it was written with, those of the nodes above a node. *)
SplitsAndMerges ==
  SplitsSmall /\ (stack = <<>> => \A x \in InTree : SplitsAndMergesBack(x) /\ SplitsAtSeparator(x))

=============================================================================

---------------------------- MODULE NodeDirectory ----------------------------
(***************************************************************************)
(* TTNodeDirectory and TTNode (library/source/TTNodeDirectory.cpp and      *)
(* TTNode.cpp): a tree of nodes, a hash table from addresses to nodes that *)
(* has to follow it, and the observers that are told when a node at or     *)
(* below their address is created or destroyed.                            *)
(*                                                                         *)
(* One thread uses a directory, but its calls nest: a creation creates the *)
(* missing ancestors, a removal removes the children from the destructor   *)
(* of their parent, and an observer may call the directory while it is     *)
(* being told.  `stack' holds the calls in progress, the innermost first;  *)
(* a step is what the code does between two of these nested calls.         *)
(***************************************************************************)
EXTENDS OscAddress

CONSTANTS
  Observers,
  Numerals,    (* what "%u" prints for 1, 2, ...: a sequence of words      *)
  Requests,    (* the addresses that callers create                        *)
  Keys,        (* the addresses that observers are registered for          *)
  NewNames,    (* the names and instances that nodes are given by          *)
  NewInstances,(* setName and setInstance                                  *)
  Places,      (* every address a node can get from these                  *)
  Patterns,    (* the addresses, with wildcards, that are looked up        *)
  Rules,       (* the rules the callers follow, see CallerRules            *)
  MaxNodes,    (* bound: no creation starts once so many nodes were made   *)
  MaxNesting   (* bound: how deep observers call the directory             *)

CallerRules == {
  "CreateElsewhere", (* an observer that is being told something creates   *)
                     (* only in other branches of the tree                 *)
  "ChangeElsewhere", (* nor does it remove or rename but there             *)
  "RenameLeaves"}    (* only nodes without children get another name       *)

(* /word or /word.word, level by level: what TTNodeCreate makes nodes for. *)
IsPath(a) ==
  /\ a # None /\ a[1] = "/"
  /\ \A i \in DOMAIN a :
       \/ a[i] \in Words /\ i > 1 /\ a[i - 1] \in {"/", "."}
       \/ a[i] = "/" /\ i < Len(a) /\ a[i + 1] \in Words
       \/ a[i] = "." /\ i < Len(a) /\ a[i + 1] \in Words /\ i > 2 /\ a[i - 2] = "/"

(* As there are numbers without end, there are enough for the nodes that   *)
(* the bound allows, and a creation adds one for each level at most.       *)
ASSUME NodeDirectoryAssumption ==
  /\ Requests \cup Keys \cup Places \cup Patterns \subseteq Address \ {None}
  /\ \A a \in Requests : IsPath(a) /\ MaxNodes + CountSeparator(a) <= Len(Numerals) + 1
  /\ Numerals \in Seq(Words) \ {<<>>} /\ IsInjective(Numerals)
  /\ NewNames \subseteq {<<w>> : w \in Words}
  /\ NewInstances \subseteq {None} \cup {<<w>> : w \in Words}
  /\ Rules \subseteq CallerRules
  /\ MaxNodes \in Nat /\ MaxNesting \in Nat

(* Places has the parents of its addresses, and those that they get with   *)
(* another name or instance.                                               *)
ASSUME PlacesAssumption ==
  /\ {Separator} \cup Requests \subseteq Places
  /\ \A a \in Places \ {Separator} :
       LET parts == SplitOSCAddress(a)
       IN  /\ parts.parent \in Places
           /\ \A name \in NewNames \cup {parts.name} :
                \A instance \in NewInstances \cup {parts.instance}
                                  \cup {<<Numerals[i]>> : i \in DOMAIN Numerals} :
                  MergeOSCAddress(parts.parent, name, instance, None) \in Places

VARIABLES
  nodes,      (* every TTNode ever made: name, instance, parent (0: NULL), *)
              (* children (by name and instance), whether its memory is    *)
              (* live, and (history) how often its creation and its        *)
              (* destruction were announced                                *)
  directory,  (* mDirectory: addresses to nodes                            *)
  observers,  (* mObservers: keys to their TTList, with its one iterator   *)
  stack       (* the calls in progress                                     *)

vars == <<nodes, directory, observers, stack>>

Root == 1
EmptyTable == <<>>
Pick(f, S) == [x \in DOMAIN f \cap S |-> f[x]]
Without(f, x) == Pick(f, DOMAIN f \ {x})
(* With an entry more, unless there is one.                                *)
With(f, x, y) == [z \in DOMAIN f \cup {x} |-> IF z \in DOMAIN f THEN f[z] ELSE y]

-----------------------------------------------------------------------------
(* TTNode::TTNode                                                          *)
Node(name, instance, parent) ==
  [name |-> name, instance |-> instance, parent |-> parent, children |-> EmptyTable,
   live |-> TRUE, created |-> 0, destroyed |-> 0]

(* TTNode::getOscAddress: from the root down to the node.                  *)
OscAddressIn(ns, n) ==
  LET level(m) == WriteLevel([name |-> ns[m].name, instance |-> ns[m].instance])
      text[m \in DOMAIN ns] ==
        LET p == ns[m].parent
        IN  IF p = 0 THEN Separator
            ELSE (IF ns[p].parent = 0 THEN None ELSE text[p]) \o Separator \o level(m)
  IN  text[n]

OscAddress(n) == OscAddressIn(nodes, n)

ChildKey(ns, n) == <<ns[n].name, ns[n].instance>>

(* TTNode::setChild: a name and instance that are taken are left alone.    *)
SetChild(ns, n) ==
  [ns EXCEPT ![ns[n].parent].children = With(@, ChildKey(ns, n), n)]

(* Mutant of GenerateInstance: the search stops at once.                   *)
FirstInstance(ns, p, name) == <<Numerals[1]>>

(* TTNode::generateInstance: the first numeral that no child of this name  *)
(* has.                                                                    *)
GenerateInstance(ns, p, name) ==
  LET free == {i \in DOMAIN Numerals : <<name, <<Numerals[i]>>>> \notin DOMAIN ns[p].children}
  IN  <<Numerals[Min(free)]>>

-----------------------------------------------------------------------------
(* A call: where it is, its address and node, and for the loops: what is   *)
(* still to visit (todo, and inside it group or key).                      *)
Frame(op, pc, address, node) ==
  [op |-> op, pc |-> pc, address |-> address, node |-> node,
   todo |-> {}, group |-> {}, key |-> None]

(* notifyObservers: the keys are read once, when it starts.                *)
NotifyFrame(address, node) ==
  [Frame("notify", "keys", address, node) EXCEPT
     !.todo = {k \in DOMAIN observers : CompareOSCAddress[<<address, k>>] \in {"Equal", "Lower"}}]

At(op, pc) == stack # <<>> /\ Head(stack).op = op /\ Head(stack).pc = pc
Top == Head(stack)
Replace(frames) == stack' = frames \o Tail(stack)

Init ==
  /\ nodes = <<[Node(Separator, None, 0) EXCEPT !.created = 1]>>
  /\ directory = [a \in {Separator} |-> Root]
  /\ observers = EmptyTable
  /\ stack = <<>>

(* Where a caller may call the directory: outside of every call, or as an  *)
(* observer that is being told something.                                  *)
MayCall(rule, address) ==
  \/ stack = <<>>
  \/ /\ At("notify", "callback")
     /\ Cardinality({i \in DOMAIN stack : stack[i].op = "notify"}) <= MaxNesting
     /\ rule \in Rules =>
          \A i \in DOMAIN stack : \A a \in {stack[i].address, stack[i].key} \ {None} :
            CompareOSCAddress[<<address, a>>] = "Different"

-----------------------------------------------------------------------------
(* TTNodeCreate, the steps 1 to 5 of its comments.                         *)
CallCreate(a) ==
  /\ MayCall("CreateElsewhere", a)
  /\ Len(nodes) < MaxNodes
  /\ stack' = <<Frame("create", "instantiate", a, 0)>> \o stack
  /\ UNCHANGED <<nodes, directory, observers>>

(* An address that is taken gets a new instance.  setParent finds the      *)
(* parent in the directory or creates a container at its address.          *)
Instantiate ==
  LET a == Top.address
      parts == SplitOSCAddress(a)
      found == IF a \in DOMAIN directory THEN directory[a] ELSE 0
      instance == IF found = 0 THEN parts.instance
                  ELSE GenerateInstance(nodes, nodes[found].parent, nodes[found].name)
      known == parts.parent \in DOMAIN directory
      me == [Top EXCEPT !.pc = "setChild", !.node = Len(nodes) + 1]
  IN  /\ At("create", "instantiate")
      /\ nodes' = Append(nodes, Node(parts.name, instance,
                                     IF known THEN directory[parts.parent] ELSE 0))
      /\ Replace(IF known THEN <<me>>
                 ELSE <<Frame("create", "instantiate", parts.parent, 0), me>>)
      /\ UNCHANGED <<directory, observers>>

(* The effective address enters the directory, unless it is there already, *)
(* and the observers are told AFTER that.                                  *)
Attach ==
  LET n == Top.node
      linked == SetChild(nodes, n)
      got == OscAddressIn(linked, n)
  IN  /\ At("create", "setChild")
      /\ nodes' = [linked EXCEPT ![n].created = @ + 1]
      /\ directory' = With(directory, got, n)
      /\ Replace(<<NotifyFrame(got, n), [Top EXCEPT !.pc = "return"]>>)
      /\ UNCHANGED observers

(* *returnedTTNode is the caller's, or the parent pointer of setParent.    *)
ReturnNode ==
  /\ At("create", "return")
  /\ stack' = Tail(stack)
  /\ nodes' = IF Len(stack) > 1 /\ stack[2].op = "create"
              THEN [nodes EXCEPT ![stack[2].node].parent = Top.node]
              ELSE nodes
  /\ UNCHANGED <<directory, observers>>

-----------------------------------------------------------------------------
(* TTNodeRemove: the observers are told BEFORE the destruction.            *)
RemoveFrames(a) ==
  <<NotifyFrame(a, directory[a]), Frame("remove", "erase", a, directory[a])>>

Announced(n) == nodes' = [nodes EXCEPT ![n].destroyed = @ + 1]

(* Mutant of CallRemove: the key goes before the observers are told.       *)
CallRemoveErasesFirst(a) ==
  /\ MayCall("ChangeElsewhere", a)
  /\ a \in DOMAIN directory \ {Separator}
  /\ stack' = RemoveFrames(a) \o stack
  /\ directory' = Without(directory, a)
  /\ Announced(directory[a])
  /\ UNCHANGED observers

CallRemove(a) ==
  /\ MayCall("ChangeElsewhere", a)
  /\ a \in DOMAIN directory \ {Separator}
  /\ stack' = RemoveFrames(a) \o stack
  /\ Announced(directory[a])
  /\ UNCHANGED <<directory, observers>>

(* The key goes, then TTObjectRelease runs the destructor of the node.     *)
Erase ==
  /\ At("remove", "erase")
  /\ directory' = Without(directory, Top.address)
  /\ Replace(<<[Frame("destroy", "children", None, Top.node) EXCEPT
                  !.todo = {k[1] : k \in DOMAIN nodes[Top.node].children}],
               [Top EXCEPT !.pc = "destroying"]>>)
  /\ UNCHANGED <<nodes, observers>>

(* TTNode::~TTNode: the names of the children are read once, the instances *)
(* of a name when it is reached; each child is removed by its address.     *)
NextName ==
  /\ At("destroy", "children") /\ Top.group = {}
  /\ \E name \in Top.todo :
       Replace(<<[Top EXCEPT !.todo = @ \ {name},
                             !.group = {k \in DOMAIN nodes[Top.node].children : k[1] = name}]>>)
  /\ UNCHANGED <<nodes, directory, observers>>

(* Mutants of DestroyChild: the children stay, or go unannounced.          *)
SkipChild ==
  /\ At("destroy", "children")
  /\ \E k \in Top.group : Replace(<<[Top EXCEPT !.group = @ \ {k}]>>)
  /\ UNCHANGED <<nodes, directory, observers>>

DestroyChildSilently ==
  /\ At("destroy", "children")
  /\ \E k \in Top.group :
       LET rest == [Top EXCEPT !.group = @ \ {k}]
           n == nodes[Top.node].children[k]
       IN  Replace(<<Frame("remove", "erase", OscAddress(n), n), rest>>)
  /\ UNCHANGED <<nodes, directory, observers>>

DestroyChild ==
  /\ At("destroy", "children")
  /\ \E k \in Top.group :
       LET rest == [Top EXCEPT !.group = @ \ {k}]
           children == nodes[Top.node].children
           known == k \in DOMAIN children /\ OscAddress(children[k]) \in DOMAIN directory
           a == OscAddress(children[k])
       IN  IF known
           THEN Replace(RemoveFrames(a) \o <<rest>>) /\ Announced(directory[a])
           ELSE Replace(<<rest>>) /\ UNCHANGED nodes
  /\ UNCHANGED <<directory, observers>>

(* Mutant of Unlink: the table of the parent keeps the entry.              *)
UnlinkKeepsEntry ==
  /\ At("destroy", "children") /\ Top.todo = {} /\ Top.group = {}
  /\ nodes' = [nodes EXCEPT ![Top.node].live = FALSE]
  /\ stack' = Tail(Tail(stack))
  /\ UNCHANGED <<directory, observers>>

(* It leaves the table of its parent; the calls of ~TTNode and of          *)
(* TTNodeRemove return.                                                    *)
Unlink ==
  LET n == Top.node
  IN  /\ At("destroy", "children") /\ Top.todo = {} /\ Top.group = {}
      /\ nodes' = [nodes EXCEPT ![nodes[n].parent].children = Without(@, ChildKey(nodes, n)),
                                ![n].live = FALSE]
      /\ stack' = Tail(Tail(stack))
      /\ UNCHANGED <<directory, observers>>

-----------------------------------------------------------------------------
(* notifyObservers walks the list of each key with the list's own iterator.*)
NextKey ==
  /\ At("notify", "keys")
  /\ \E k \in Top.todo :
       /\ Replace(<<[Top EXCEPT !.todo = @ \ {k}, !.key = k, !.pc = "observers"]>>)
       /\ observers' = [observers EXCEPT ![k].iter = 1]
  /\ UNCHANGED <<nodes, directory>>

Tell ==
  /\ At("notify", "observers")
  /\ Replace(<<[Top EXCEPT !.pc = "callback"]>>)
  /\ UNCHANGED <<nodes, directory, observers>>

(* Mutant of Told: the iterator does not move.                             *)
ToldAgain ==
  /\ At("notify", "callback")
  /\ Replace(<<[Top EXCEPT !.pc = "observers"]>>)
  /\ UNCHANGED <<nodes, directory, observers>>

(* The observer returns and the iterator moves on.  Past the end, where a  *)
(* nested walk may have left it, it wraps around.                          *)
Told ==
  LET o == observers[Top.key]
      next == (o.iter % (Len(o.list) + 1)) + 1
      ended == next > Len(o.list)
  IN  /\ At("notify", "callback")
      /\ observers' = [observers EXCEPT ![Top.key].iter = next]
      /\ Replace(<<[Top EXCEPT !.pc = IF ended THEN "keys" ELSE "observers",
                               !.key = IF ended THEN None ELSE @]>>)
      /\ UNCHANGED <<nodes, directory>>

EveryoneTold ==
  /\ At("notify", "keys") /\ Top.todo = {}
  /\ stack' = Tail(stack)
  /\ UNCHANGED <<nodes, directory, observers>>

-----------------------------------------------------------------------------
(* Mutant of Rekeyed: the old key stays.                                   *)
RekeyedKeepsOld(old, new) ==
  IF old \in DOMAIN directory THEN With(directory, new, directory[old]) ELSE directory

(* setName and setInstance: the node moves in the table of its parent, with*)
(* a new instance where the old one is taken, and the key that equals its  *)
(* old address is replaced.  Keys that only begin with the old address are *)
(* met too, but what follows is never exactly the separator.               *)
Rekeyed(old, new) ==
  IF old \in DOMAIN directory
  THEN With(Without(directory, old), new, directory[old])
  ELSE directory

Rename(n, name, instance) ==
  LET p == nodes[n].parent
      out == [nodes EXCEPT ![p].children = Without(@, ChildKey(nodes, n))]
      taken == <<name, instance>> \in DOMAIN out[p].children
      named == [out EXCEPT ![n].name = name,
                           ![n].instance = IF taken THEN GenerateInstance(out, p, name)
                                           ELSE instance]
  IN  /\ MayCall("ChangeElsewhere", OscAddress(n))
      /\ n # Root
      /\ "RenameLeaves" \in Rules => nodes[n].children = EmptyTable
      /\ nodes' = SetChild(named, n)
      /\ directory' = Rekeyed(OscAddress(n), OscAddressIn(named, n))
      /\ UNCHANGED <<observers, stack>>

SetName(n, name) == Rename(n, name, nodes[n].instance)
SetInstance(n, instance) == Rename(n, nodes[n].name, instance)

-----------------------------------------------------------------------------
(* Observers come and go between the calls only.  No walk goes on then:    *)
(* the iterator, which the next walk sets, is noted at the end.            *)
Listing(list) == [list |-> list, iter |-> Len(list) + 1]

AddObserver(k, o) ==
  LET old == IF k \in DOMAIN observers THEN observers[k].list ELSE <<>>
  IN  /\ stack = <<>>
      /\ o \notin Range(old)
      /\ observers' = With(Without(observers, k), k, Listing(Append(old, o)))
      /\ UNCHANGED <<nodes, directory, stack>>

(* With the last observer of a key goes the key.                           *)
RemoveObserver(k, o) ==
  /\ stack = <<>>
  /\ k \in DOMAIN observers /\ o \in Range(observers[k].list)
  /\ observers' = IF Len(observers[k].list) = 1 THEN Without(observers, k)
                  ELSE [observers EXCEPT ![k] = Listing(RemoveFirst(@.list, o))]
  /\ UNCHANGED <<nodes, directory, stack>>

-----------------------------------------------------------------------------
(* The nodes that a caller can have a pointer to.                          *)
Handed == {directory[a] : a \in DOMAIN directory}

Call ==
  \/ \E a \in Requests : CallCreate(a)
  \/ \E a \in DOMAIN directory : CallRemove(a)
  \/ \E n \in Handed, name \in NewNames : SetName(n, name)
  \/ \E n \in Handed, instance \in NewInstances : SetInstance(n, instance)
  \/ \E k \in Keys, o \in Observers : AddObserver(k, o) \/ RemoveObserver(k, o)

Step ==
  \/ Instantiate
  \/ Attach
  \/ ReturnNode
  \/ Erase
  \/ NextName
  \/ DestroyChild
  \/ Unlink
  \/ NextKey
  \/ Tell
  \/ Told
  \/ EveryoneTold

Next == Call \/ Step

Spec == Init /\ [][Next]_vars

(* A call in progress goes on; observers return.  This is WF_vars(Step): a *)
(* step is enabled exactly while a call is in progress, and changes stack. *)
FairSpec == Spec /\ ([]<>(stack = <<>>) \/ []<><<Step>>_vars)

-----------------------------------------------------------------------------
(* TTNodeDirectory::Lookup and TTNode::getChildren.  Without a wildcard    *)
(* the directory answers; with one, the children of what the parent's      *)
(* address selects.                                                        *)
HasWildcard(a) == LastIndex(a, "*") # 0

(* Mutant of GetChildren: a wildcard for the name asks for no instance.    *)
GetPlainChildren(n, name, instance) ==
  LET table == nodes[n].children
      own == IF name = Wildcard THEN None ELSE instance
  IN  {table[k] : k \in {k \in DOMAIN table :
         (name = Wildcard \/ name = k[1]) /\ (own = Wildcard \/ own = k[2])}}

GetChildren(n, name, instance) ==
  LET table == nodes[n].children
      all(word, own) == word = Wildcard \/ word = own
  IN  {table[k] : k \in {k \in DOMAIN table : all(name, k[1]) /\ all(instance, k[2])}}

NoProperty(a) ==
  LET parts == SplitOSCAddress(a)
  IN  IF parts.property = None THEN a
      ELSE MergeOSCAddress(parts.parent, parts.name, parts.instance, None)

Lookup[a \in Address] ==
  LET parts == SplitOSCAddress(a)
  IN  IF HasWildcard(a)
      THEN UNION {GetChildren(n, parts.name, parts.instance) : n \in Lookup[parts.parent]}
      ELSE Range(Pick(directory, {NoProperty(a)}))

AllChildren(n) == GetChildren(n, Wildcard, Wildcard)

(* Mutant of LookingFor: only the children are tested.                     *)
LookingForChildren(where, passing) ==
  UNION {AllChildren(n) \cap passing : n \in where}

(* TTNodeDirectory::LookingFor: the children of a node that pass the test, *)
(* then those of its children; the node itself is not asked.  passing: the *)
(* nodes for which the test function returns true.                         *)
LookingFor(where, passing) ==
  LET below[n \in DOMAIN nodes] ==
        (AllChildren(n) \cap passing) \cup UNION {below[c] : c \in AllChildren(n)}
  IN  UNION {below[n] : n \in where}

(* TTNodeDirectory::IsThere stops at the first node that passes; a node    *)
(* without children answers no.                                            *)
IsThere(where, passing) ==
  LET there[n \in DOMAIN nodes] ==
        \/ AllChildren(n) \cap passing # {}
        \/ \E c \in AllChildren(n) : there[c]
  IN  \E n \in where : there[n]

-----------------------------------------------------------------------------
(* Every variable has its type.                                            *)
TypeOK ==
  /\ \A n \in DOMAIN nodes :
       /\ nodes[n].name \in Address /\ nodes[n].instance \in Address
       /\ nodes[n].parent \in 0..Len(nodes)
       /\ \A k \in DOMAIN nodes[n].children : nodes[n].children[k] \in DOMAIN nodes
  /\ DOMAIN directory \subseteq Address /\ Handed \subseteq DOMAIN nodes
  /\ DOMAIN observers \subseteq Keys
  /\ \A k \in DOMAIN observers :
       /\ observers[k].list \in Seq(Observers) \ {<<>>}
       /\ observers[k].iter \in 1..Len(observers[k].list) + 1
  /\ \A i \in DOMAIN stack :
       /\ stack[i].op \in {"create", "remove", "destroy", "notify"}
       /\ stack[i].node \in 0..Len(nodes)

(* TTNode.cpp:162-197, TTNodeDirectory.cpp:187-189.  Every entry of the    *)
(* directory leads to a live node whose place in the tree is that address, *)
(* also while calls are in progress.                                       *)
DirectoryFollowsTree ==
  TypeOK /\ \A a \in DOMAIN directory :
    nodes[directory[a]].live /\ OscAddress(directory[a]) = a

(* TTNodeDirectory.cpp:215-242, TTNode.cpp:33-107.  Between the calls the  *)
(* live nodes are those of the directory and those that the tables of      *)
(* children hold below the root: a removal leaks nothing, and forgets no   *)
(* table.                                                                  *)
NothingLost ==
  stack = <<>> =>
    LET live == {n \in DOMAIN nodes : nodes[n].live}
    IN  /\ Handed = live
        /\ \A n \in live \ {Root} :
             /\ nodes[n].parent \in live
             /\ ChildKey(nodes, n) \in DOMAIN nodes[nodes[n].parent].children
             /\ nodes[nodes[n].parent].children[ChildKey(nodes, n)] = n
        /\ \A n \in live : Range(nodes[n].children) \subseteq live

(* TTNode.cpp:84, TTNodeDirectory.cpp:205,228,235.  No call in progress    *)
(* works on a node that is freed, or under a parent that is.               *)
NoFreedNode ==
  \A i \in DOMAIN stack :
    LET n == stack[i].node
    IN  n # 0 => nodes[n].live /\ (nodes[n].parent # 0 => nodes[nodes[n].parent].live)

(* TTNodeDirectory.h:56, TTNodeDirectory.cpp:176-208.  "Every time we      *)
(* create a TTNode then this gets added to the tree": what TTNodeCreate is *)
(* about to return can be found at an address below the parent asked for.  *)
CreatedIsInTree ==
  At("create", "return") =>
    /\ Top.node \in Handed
    /\ OscAddress(Top.node) \in DOMAIN directory
    /\ directory[OscAddress(Top.node)] = Top.node
    /\ SplitOSCAddress(OscAddress(Top.node)).parent = SplitOSCAddress(Top.address).parent

(* TTNodeDirectory.cpp:204-228, TTNode.cpp:67-77.  Whoever is told of a    *)
(* node finds it at the address told: created nodes are there already,     *)
(* destroyed ones still, also those that go with an ancestor.              *)
FindsWhatIsTold ==
  At("notify", "callback") => Top.address \in DOMAIN directory /\ directory[Top.address] = Top.node

(* TTNodeDirectory.cpp:205,228.  Over all calls, a node is announced once  *)
(* when it is created and once before it is freed, never otherwise.        *)
AnnouncedOnce ==
  stack = <<>> =>
    \A n \in DOMAIN nodes :
      nodes[n].created = 1 /\ nodes[n].destroyed = (IF nodes[n].live THEN 0 ELSE 1)

(* TTNodeDirectory.cpp:244-314 and 675-747.  The nodes that Lookup selects *)
(* are those whose addresses compareOSCAddress finds equal to the pattern. *)
LookupSelectsEqual ==
  stack = <<>> =>
    \A pattern \in Patterns :
      Lookup[pattern] = {n \in Handed : CompareOSCAddress[<<OscAddress(n), pattern>>] = "Equal"}

(* TTNodeDirectory.h:122-145, TTNodeDirectory.cpp:316-410.  "Find TTNodes  *)
(* by testing each TTNodes below an address": from what a pattern selects, *)
(* the search through the tables of children comes to every node whose     *)
(* address is below, and both searches agree on whether there is one that  *)
(* passes, here: one of a given name.                                      *)
SearchFindsBelow ==
  stack = <<>> =>
    \A pattern \in Patterns \cup {Separator}, name \in Words :
      LET named == {n \in DOMAIN nodes : nodes[n].name = <<name>>}
          where == Lookup[pattern]
          below == {n \in Handed \cap named : \E w \in where :
                      CompareOSCAddress[<<OscAddress(n), OscAddress(w)>>] = "Lower"}
      IN  /\ LookingFor(where, named) = below
          /\ IsThere(where, named) <=> below # {}

(* TTNodeDirectory.h:56-59, TTNodeDirectory.cpp:215-242.  The calls, nested*)
(* as they are, act on the addresses like single steps on a complete tree. *)
(* A removal takes effect when it erases its key, before its children go.  *)
Visible(a) ==
  \A i \in DOMAIN stack :
    stack[i].op = "remove" /\ stack[i].pc = "destroying" =>
      ~ IsPrefix(stack[i].address \o Separator, a)

Addressed == {a \in DOMAIN directory : Visible(a)}

Tree == INSTANCE AddressTree WITH
  Addresses <- Places,
  Root <- Separator,
  Parent <- LAMBDA a : SplitOSCAddress(a).parent,
  Below <- LAMBDA a, b : b = Separator \/ IsPrefix(b \o Separator, a),
  tree <- Addressed

(* Tree!Spec, with the stuttering steps told apart first.                  *)
ImplementsTree == Tree!Init /\ [][Addressed' # Addressed => Tree!Next]_vars

(* TTNodeDirectory.cpp:466-520.  When callers stop calling, what they have *)
(* begun ends: creations, removals and the walks of the lists.             *)
CallsEnd == (<>[][Step]_vars) => (stack # <<>> ~> stack = <<>>)

=============================================================================

----------------------------- MODULE Attributes -----------------------------
(***************************************************************************)
(* The attributes of a TTObject (library/source/TTObject.cpp,              *)
(* TTAttribute.cpp): a table from names to TTAttribute objects, each with  *)
(* a setter, a range and a mode of range checking.  An attribute is itself *)
(* an object whose attributes, its properties, set these fields.           *)
(*                                                                         *)
(* A value is a sequence of elements, each with its type; numbers are      *)
(* integers and keep the width of their type.                              *)
(***************************************************************************)
EXTENDS Integers, Sequences, Functions, TLC

CONSTANTS
  Self,        (* the TTObject                                             *)
  Memory,      (* where TTAttribute objects are allocated                  *)
  Free,
  Names,       (* names of attributes of Self                              *)
  AttrTypes,   (* the data types attributes are registered with            *)
  Addresses,   (* the members of Self that attributes give access to       *)
  Inputs,      (* values that are written to attributes of Self            *)
  Settings,    (* values of each property: [Properties -> SUBSET values]   *)
  Rules        (* the rules the callers follow, see CallerRules            *)

Properties == {"readOnly", "range", "rangeChecking"}
IntTypes == {"int8", "uint8", "int16"}

CallerRules == {
  "RegisterOnce",     (* a name is registered when it is not in the table  *)
  "OwnMember",        (* no two attributes give access to one member       *)
  "RangeFits",        (* a range lies in the types it is compared with     *)
  "NumericValues",    (* a value for a checked attribute begins with a number*)
  "TwoSided"}         (* the modes "cliplow" and "cliphigh" are not used   *)

ASSUME AttributesAssumption ==
  /\ Self \notin Memory /\ Free \notin Memory
  /\ Names \cap Properties = {} /\ AttrTypes \subseteq IntTypes
  /\ Rules \subseteq CallerRules

VARIABLES
  heap,     (* TTAttribute objects, or Free                                *)
  table,    (* the hash table of attributes of each object                 *)
  member    (* the members of Self                                         *)

vars == <<heap, table, member>>

Low(type) == CASE type = "int8" -> -128 [] type = "uint8" -> 0 [] type = "int16" -> -32768
High(type) == CASE type = "int8" -> 127 [] type = "uint8" -> 255 [] type = "int16" -> 32767
Fits(n, type) == n \in Low(type)..High(type)

(* A conversion between integer types, as the processors do it.            *)
Cast(n, type) ==
  LET width == High(type) - Low(type) + 1
  IN  ((n - Low(type)) % width) + Low(type)

Numerical(e) == e.type \in IntTypes

(* CONVERT: an element as a number, -1 when it is none.                    *)
Number(e) == IF Numerical(e) \/ e.type = "boolean" THEN e.data ELSE -1
FirstNumber(v) == IF v = <<>> THEN -1 ELSE Number(v[1])
FirstSymbol(v) == IF v # <<>> /\ v[1].type = "symbol" THEN v[1].data ELSE ""

-----------------------------------------------------------------------------
(* TTClip and TTLimit.                                                     *)
TTClip(n, low, high) == IF n < low THEN low ELSE IF n > high THEN high ELSE n

(* TTLimitMin and TTLimitMax change their own copy of the number.          *)
TTLimited(n, bound) == n

Checked(e, a) ==
  LET low == Cast(a.low, e.type)
      high == Cast(a.high, e.type)
  IN  CASE ~ Numerical(e) -> e
        [] a.checking = "clip" -> [e EXCEPT !.data = TTClip(@, low, high)]
        [] a.checking = "cliplow" -> [e EXCEPT !.data = TTLimited(@, low)]
        [] a.checking = "cliphigh" -> [e EXCEPT !.data = TTLimited(@, high)]
        [] OTHER -> e

InRange(value, a) == [i \in DOMAIN value |-> Checked(value[i], a)]

(* A setting of the object at o, by its attribute a: what it does to the   *)
(* heap h and to the members m.                                            *)
Set(h, m, o, a, v) ==
  CASE a.setter = "default" ->
         [heap |-> h, member |-> [m EXCEPT ![a.address] = Cast(FirstNumber(v), a.type)]]
    [] a.setter = "readOnly" ->
         [heap |-> [h EXCEPT ![o].readOnly = FirstNumber(v) # 0], member |-> m]
    [] a.setter = "range" /\ Len(v) = 2 ->
         [heap |-> [h EXCEPT ![o].low = Number(v[1]), ![o].high = Number(v[2])], member |-> m]
    [] a.setter = "rangeChecking" ->
         [heap |-> [h EXCEPT ![o].checking = FirstSymbol(v)], member |-> m]
    [] OTHER -> [heap |-> h, member |-> m]

(* Mutant of Write: the range is checked after the setter was called.      *)
WriteThenCheck(h, m, o, a, v) ==
  IF a.readOnly THEN [heap |-> h, member |-> m] ELSE Set(h, m, o, a, v)

(* setAttributeValue of the object at o, once the attribute is found.      *)
Write(h, m, o, a, v) ==
  IF a.readOnly THEN [heap |-> h, member |-> m]
  ELSE Set(h, m, o, a, InRange(v, a))

(* What the rules ask of a value for the attribute a of the object at o.   *)
MaySet(o, a, v) ==
  /\ "NumericValues" \in Rules /\ a.setter = "default" /\ a.checking # "none" =>
       v # <<>> /\ Numerical(v[1])
  /\ "RangeFits" \in Rules /\ a.setter = "range" /\ Len(v) = 2 =>
       /\ Number(v[1]) <= Number(v[2])
       /\ heap[o].setter = "default" => \A i \in 1..2 : Fits(Number(v[i]), heap[o].type)
  /\ "RangeFits" \in Rules /\ a.checking # "none" =>
       \A i \in DOMAIN v : Numerical(v[i]) =>
         Fits(a.low, v[i].type) /\ Fits(a.high, v[i].type)
  /\ "TwoSided" \in Rules /\ a.setter = "rangeChecking" =>
       FirstSymbol(v) \notin {"cliplow", "cliphigh"}

-----------------------------------------------------------------------------
NewAttribute(name, type, address, setter) ==
  [name |-> name, type |-> type, address |-> address, setter |-> setter,
   readOnly |-> FALSE, low |-> 0, high |-> 1, checking |-> "none"]

(* TTHash::append: an entry that exists is kept.                           *)
Appended(t, o, name, a) == [t EXCEPT ![o] = @ @@ (name :> a)]

Init ==
  /\ heap = [a \in Memory |-> Free]
  /\ table = [o \in Memory \cup {Self} |-> <<>>]
  /\ member \in [Addresses -> {0}]

(* registerAttribute with the address of a member of Self.                 *)
RegisterAttribute(name, type, address) ==
  /\ "RegisterOnce" \in Rules => name \notin DOMAIN table[Self]
  /\ "OwnMember" \in Rules =>
       \A n \in DOMAIN table[Self] : heap[table[Self][n]].address # address
  /\ \E a \in Memory :
       /\ heap[a] = Free
       /\ heap' = [heap EXCEPT ![a] = NewAttribute(name, type, address, "default")]
       /\ table' = Appended(table, Self, name, a)
  /\ UNCHANGED member

(* registerAttributeProperty: the property is an attribute of the          *)
(* attribute, and set through setAttributeValue at once.  The error of the *)
(* latter is dropped.                                                      *)
RegisterProperty(o, name, property, initial) ==
  /\ name \in DOMAIN table[o]
  /\ LET attr == table[o][name]
     IN  /\ "RegisterOnce" \in Rules => property \notin DOMAIN table[attr]
         /\ \E a \in Memory :
              LET h == [heap EXCEPT ![a] = NewAttribute(property, "local", Free, property)]
                  t == Appended(table, attr, property, a)
                  effect == Write(h, member, attr, h[t[attr][property]], initial)
              IN  /\ heap[a] = Free
                  /\ MaySet(attr, h[t[attr][property]], initial)
                  /\ heap' = effect.heap
                  /\ member' = effect.member
                  /\ table' = t

SetAttributeValue(o, name, v) ==
  /\ name \in DOMAIN table[o]
  /\ LET a == heap[table[o][name]]
         effect == Write(heap, member, o, a, v)
     IN  /\ MaySet(o, a, v)
         /\ heap' = effect.heap
         /\ member' = effect.member
  /\ UNCHANGED table

(* What the destructor of the object at o frees besides: the attributes in *)
(* its table, and theirs.                                                  *)
Below(o) ==
  LET reach[S \in SUBSET Memory] ==
        LET next == S \cup UNION {Range(table[x]) : x \in S}
        IN  IF next = S THEN S ELSE reach[next]
  IN  reach[Range(table[o])]

(* Mutant of Gone: the properties of a deleted object stay.                *)
GoneAlone(o) == {o} \ {Self}

Gone(o) == ({o} \ {Self}) \cup Below(o)

Deleted(gone, t) ==
  /\ heap' = [a \in Memory |-> IF a \in gone THEN Free ELSE heap[a]]
  /\ table' = [o \in Memory \cup {Self} |-> IF o \in gone THEN <<>> ELSE t[o]]

(* removeAttribute: out of the table, then deleted.                        *)
RemoveAttribute(name) ==
  /\ name \in DOMAIN table[Self]
  /\ Deleted(Gone(table[Self][name]),
             [table EXCEPT ![Self] = Restrict(@, DOMAIN @ \ {name})])
  /\ UNCHANGED member

(* The destructor of Self; another object may be constructed in its place. *)
Destroy ==
  /\ Deleted(Gone(Self), [table EXCEPT ![Self] = <<>>])
  /\ member' = [x \in Addresses |-> 0]

Next ==
  \/ \E n \in Names, type \in AttrTypes, x \in Addresses : RegisterAttribute(n, type, x)
  \/ \E n \in Names : RemoveAttribute(n)
  \/ \E n \in Names, v \in Inputs : SetAttributeValue(Self, n, v)
  \/ \E o \in Memory, p \in Properties : \E v \in Settings[p] : SetAttributeValue(o, p, v)
  \/ \E n \in Names, p \in Properties : \E v \in Settings[p] : RegisterProperty(Self, n, p, v)
  \/ \E o \in Memory, n, p \in Properties : \E v \in Settings[p] : RegisterProperty(o, n, p, v)
  \/ Destroy

Spec == Init /\ [][Next]_vars

-----------------------------------------------------------------------------
Attribute == [name : Names \cup Properties, type : AttrTypes \cup {"local"},
  address : Addresses \cup {Free}, setter : {"default"} \cup Properties,
  readOnly : BOOLEAN, low : Int, high : Int, checking : STRING]

(* Every variable has its type.                                            *)
TypeOK ==
  /\ heap \in [Memory -> Attribute \cup {Free}]
  /\ \A o \in Memory \cup {Self} :
       /\ DOMAIN table[o] \subseteq (IF o = Self THEN Names ELSE Properties)
       /\ Range(table[o]) \subseteq Memory
  /\ member \in [Addresses -> Int]

Live == {a \in Memory : heap[a] # Free}
Entries == {<<o, n>> \in (Live \cup {Self}) \X (Names \cup Properties) :
              n \in DOMAIN table[o]}

(* TTObject.cpp:117-143.  What a lookup returns exists, and is the         *)
(* attribute of that name.                                                 *)
FindsNamed ==
  \A e \in Entries : LET a == table[e[1]][e[2]] IN a \in Live /\ heap[a].name = e[2]

(* TTObject.cpp:25-56, 69-127.  Every attribute that exists hangs in one   *)
(* table, from where a removal or the destructor of its object frees it.   *)
OwnedByTable ==
  \A a \in Live : \E e \in Entries :
    \A f \in Entries : table[f[1]][f[2]] = a <=> f = e

(* TTObject.cpp:25-143.  Tables and attributes belong together one by one. *)
TablesOwn == TypeOK /\ FindsNamed /\ OwnedByTable

Keeps(a, n) ==
  /\ a.checking \in {"clip", "cliplow"} => n >= a.low
  /\ a.checking \in {"clip", "cliphigh"} => n <= a.high

(* TTAttribute.h:78, "the value should be checked for range and modified   *)
(* accordingly".  A write that changes a member leaves it in the range its *)
(* attribute has, whatever the types of the value and of the member.       *)
WritesStayInRange ==
  [][\A n \in DOMAIN table[Self] :
       LET a == heap[table[Self][n]]
       IN  n \in DOMAIN table'[Self] /\ member'[a.address] # member[a.address] =>
             Keeps(a, member'[a.address])]_vars
=============================================================================

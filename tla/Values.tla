------------------------------- MODULE Values -------------------------------
(***************************************************************************)
(* The storage of TTValue (library/source/TTValue.cpp): two parallel       *)
(* arrays, types and data, with a count and a flag that says whether any   *)
(* element is a string.  A string lives on the heap and an element holds   *)
(* the pointer; every other type (number, symbol, object, pointer) is      *)
(* plain data.                                                             *)
(***************************************************************************)
EXTENDS Naturals, Sequences, SequencesExt

CONSTANTS
  Values,    (* the TTValue variables of the callers                       *)
  Strings,   (* the memory that new TTString can return                    *)
  Words,     (* plain data, the words of a comma-separated text among it   *)
  Texts,     (* contents of strings: sequences of words                    *)
  Wild,      (* memory nobody has written, seen as data                    *)
  Free,      (* memory of the heap that is not in use                      *)
  Absent,    (* a TTValue that is not constructed                          *)
  Shared,    (* what ValueSemantics says of a string that was copied       *)
  Rules,     (* the rules the callers follow, see CallerRules              *)
  MaxSize    (* bound: the number of elements; numValues is a TTUInt16     *)

CallerRules == {
  "WriteFirst",          (* elements are set before a string joins them    *)
  "AppendOneString",     (* strings are appended where there are none      *)
  "ClearStringsFirst",   (* strings are dropped by clear() only            *)
  "WithinSize"}          (* elements are read and set below getSize()      *)

Cell == [type : {"plain", "none"}, data : Words \cup {Wild}]
          \cup [type : {"string"}, data : Strings \cup {Wild}]
Stores == [cells : Seq(Cell), size : 0..MaxSize, strings : BOOLEAN]

ASSUME ValuesAssumption ==
  /\ \A text \in Texts : text \in Seq(Words) /\ Len(text) \in 1..MaxSize
  /\ Wild \notin Words \cup Strings /\ Words \cap Strings = {}
  /\ Texts \cap (Words \cup {Wild, Free, Shared}) = {}
  /\ Shared \notin Words \cup {Wild}
  /\ Absent \notin Stores \cup Seq(Words \cup Texts \cup {Wild, Shared})
  /\ Rules \subseteq CallerRules
  /\ MaxSize \in 1..2^16 - 2

VARIABLES
  memory,    (* the heap: the text of a string, or Free                    *)
  value,     (* [cells: type and data, size: numValues,                    *)
             (*  strings: stringsPresent]; cells may be longer than size   *)
  copied     (* history: the strings whose pointer has been copied from    *)
             (* one element to another                                     *)

vars == <<memory, value, copied>>

Plain(x) == [type |-> "plain", data |-> x]
StringAt(s) == [type |-> "string", data |-> s]
None == [type |-> "none", data |-> Wild]

(* What new memory may read as: any type, and data that is nobody's.       *)
Unwritten == {Plain(Wild), StringAt(Wild)}

Empty == [cells |-> <<None>>, size |-> 0, strings |-> FALSE]
Single(x) == [cells |-> <<Plain(x)>>, size |-> 1, strings |-> FALSE]

Here == {v \in Values : value[v] # Absent}
Holding(c) == {i \in 1..c.size : c.cells[i].type = "string"}

(* The elements that somebody has set, and the strings among them.         *)
Written(c) == {i \in 1..c.size : c.cells[i].data # Wild}
Stored(c) == Holding(c) \cap Written(c)
Pointers(c) == {c.cells[i].data : i \in Stored(c)}

Init ==
  /\ memory = [s \in Strings |-> Free]
  /\ value = [v \in Values |-> Absent]
  /\ copied = {}

Becomes(v, c) == value' = [value EXCEPT ![v] = c]

-----------------------------------------------------------------------------
(* The heap when clear() or the destructor has deleted what c holds.       *)
Freed(c) ==
  [s \in Strings |->
     IF c.strings /\ \E i \in Holding(c) : c.cells[i].data = s THEN Free ELSE memory[s]]

(* Mutant of Resized: the elements are not carried over.                   *)
ResizedAfresh(c, n, new) ==
  [c EXCEPT !.cells = [i \in 1..n |-> new], !.size = n]

(* setSize(n): new arrays, whose further cells are what the memory held.   *)
Resized(c, n, new) ==
  IF n = c.size THEN c
  ELSE [c EXCEPT !.cells = [i \in 1..n |-> IF i <= c.size THEN c.cells[i] ELSE new],
                 !.size = n]

WithString(c, i, cell) ==
  [cells |-> [c.cells EXCEPT ![i] = cell], size |-> c.size, strings |-> TRUE]

(* Cell i of c gets the text: written through the pointer that is there,   *)
(* whatever that points at, or in a new string.                            *)
PutString(v, c, i, text, inPlace) ==
  /\ UNCHANGED copied
  /\ IF inPlace
     THEN /\ memory' = [s \in Strings |->
                          IF s = c.cells[i].data /\ memory[s] # Free THEN text ELSE memory[s]]
          /\ Becomes(v, WithString(c, i, [c.cells[i] EXCEPT !.type = "string"]))
     ELSE \E s \in Strings :
            /\ memory[s] = Free
            /\ memory' = [memory EXCEPT ![s] = text]
            /\ Becomes(v, WithString(c, i, StringAt(s)))

(* What the rules ask before the strings of c outside keep go, and before  *)
(* c gets a string.                                                        *)
MayDrop(c, keep) == "ClearStringsFirst" \in Rules => Stored(c) \subseteq keep
MayJoin(c) == "WriteFirst" \in Rules => Written(c) = 1..c.size

-----------------------------------------------------------------------------
(* The constructors for nothing, for plain data, and for a string.         *)
Construct(v) ==
  /\ v \notin Here
  /\ \/ /\ \E c \in {Empty} \cup {Single(x) : x \in Words} : Becomes(v, c)
        /\ UNCHANGED <<memory, copied>>
     \/ \E text \in Texts : PutString(v, Single(Wild), 1, text, FALSE)

(* copy(): setSize, then the types and the data, pointers and all.         *)
Copied(c, d) ==
  [cells |-> IF d.size = c.size THEN [i \in DOMAIN c.cells |->
               IF i <= d.size THEN d.cells[i] ELSE c.cells[i]]
             ELSE SubSeq(d.cells, 1, d.size),
   size |-> d.size,
   strings |-> d.strings]

CopyConstruct(v, w) ==
  /\ v \notin Here /\ w \in Here
  /\ Becomes(v, Copied(Single(Wild), value[w]))
  /\ copied' = copied \cup Pointers(value[w])
  /\ UNCHANGED memory

Destroy(v) ==
  /\ memory' = Freed(value[v])
  /\ Becomes(v, Absent)
  /\ UNCHANGED copied

(* Mutant of Clear: the strings go, the elements stay.                     *)
ClearKeepsElements(v) ==
  /\ memory' = Freed(value[v])
  /\ Becomes(v, [value[v] EXCEPT !.strings = FALSE])
  /\ UNCHANGED copied

Clear(v) ==
  /\ memory' = Freed(value[v])
  /\ Becomes(v, Empty)
  /\ UNCHANGED copied

(* operator = for plain data: one element, whatever it was before.         *)
Assign(v, x) ==
  /\ MayDrop(value[v], {})
  /\ Becomes(v, [Resized(value[v], 1, Plain(Wild)) EXCEPT !.cells[1] = Plain(x)])
  /\ UNCHANGED <<memory, copied>>

(* operator = for strings.                                                 *)
AssignString(v, text) ==
  /\ MayDrop(value[v], {1})
  /\ "WriteFirst" \in Rules => 1 \in Written(value[v])
  /\ \E new \in Unwritten :
       LET c == Resized(value[v], 1, new)
       IN  PutString(v, c, 1, text, c.strings \/ c.cells[1].type = "string")

(* operator = for values.                                                  *)
AssignValue(v, w) ==
  /\ w \in Here
  /\ MayDrop(value[v], {})
  /\ Becomes(v, Copied(value[v], value[w]))
  /\ copied' = copied \cup Pointers(value[w])
  /\ UNCHANGED memory

(* set(): nothing is checked, the arrays have Len(cells) elements.         *)
Indices(c) == IF "WithinSize" \in Rules THEN 1..c.size ELSE DOMAIN c.cells

Set(v, x) ==
  /\ \E i \in Indices(value[v]) :
       /\ MayDrop(value[v], (1..value[v].size) \ {i})
       /\ Becomes(v, [value[v] EXCEPT !.cells[i] = Plain(x)])
  /\ UNCHANGED <<memory, copied>>

(* set() for strings writes in place where a string is.                    *)
InPlace(c, i) == c.strings /\ c.cells[i].type = "string"

SetString(v, text) ==
  /\ MayJoin(value[v])
  /\ \E i \in Indices(value[v]) : PutString(v, value[v], i, text, InPlace(value[v], i))

(* append(): setSize(numValues + 1), then set().                           *)
AppendPlain(v, x) ==
  /\ value[v].size < MaxSize
  /\ LET c == Resized(value[v], value[v].size + 1, Plain(Wild))
     IN  Becomes(v, [c EXCEPT !.cells[c.size] = Plain(x)])
  /\ UNCHANGED <<memory, copied>>

AppendString(v, text) ==
  /\ value[v].size < MaxSize
  /\ MayJoin(value[v])
  /\ "AppendOneString" \in Rules => Stored(value[v]) = {}
  /\ \E new \in Unwritten :
       LET c == Resized(value[v], value[v].size + 1, new)
       IN  PutString(v, c, c.size, text, InPlace(c, c.size))

(* append() of a value takes its first element, and not its flag.          *)
AppendValue(v, w) ==
  /\ w \in Here
  /\ 1 \in Indices(value[w])
  /\ value[v].size < MaxSize
  /\ "WriteFirst" \in Rules => 1 \in Written(value[w])
  /\ LET c == Resized(value[v], value[v].size + 1, Plain(Wild))
         d == IF w = v THEN c ELSE value[w]
     IN  /\ Becomes(v, [c EXCEPT !.cells[c.size] = d.cells[1]])
         /\ copied' = copied \cup {k.data : k \in {d.cells[1]} \cap {StringAt(s) : s \in Strings}}
  /\ UNCHANGED memory

Resize(v) ==
  /\ \E n \in 0..MaxSize, new \in Unwritten :
       /\ MayDrop(value[v], 1..n)
       /\ "WriteFirst" \in Rules => n <= value[v].size \/ Stored(value[v]) = {}
       /\ Becomes(v, Resized(value[v], n, new))
  /\ UNCHANGED <<memory, copied>>

(* transformCSVStringToSymbolArray: the text is read, the value cleared,   *)
(* and the words are appended from the last to the first.  A value whose   *)
(* first element is no string stays as it is, and a pointer to no string   *)
(* has no text to read.                                                    *)
TransformCSV(v) ==
  LET c == value[v]
  IN  /\ 1 \in Indices(c)
      /\ c.cells[1].type = "string" /\ c.cells[1].data \in Strings
      /\ memory[c.cells[1].data] # Free
      /\ LET words == Reverse(memory[c.cells[1].data])
         IN  Becomes(v, [cells |-> [i \in DOMAIN words |-> Plain(words[i])],
                         size |-> Len(words), strings |-> FALSE])
      /\ memory' = Freed(c)
      /\ UNCHANGED copied

Next ==
  \/ \E v \in Values : Construct(v)
  \/ \E v, w \in Values : CopyConstruct(v, w)
  \/ \E v \in Here : Destroy(v) \/ Clear(v) \/ Resize(v) \/ TransformCSV(v)
  \/ \E v \in Here, x \in Words : Assign(v, x) \/ Set(v, x) \/ AppendPlain(v, x)
  \/ \E v \in Here, text \in Texts :
       AssignString(v, text) \/ SetString(v, text) \/ AppendString(v, text)
  \/ \E v, w \in Here : AssignValue(v, w) \/ AppendValue(v, w)

Spec == Init /\ [][Next]_vars

-----------------------------------------------------------------------------
(* Every variable has its type.                                            *)
TypeOK ==
  /\ memory \in [Strings -> Texts \cup {Free}]
  /\ value \in [Values -> Stores \cup {Absent}]
  /\ \A v \in Here : value[v].size <= Len(value[v].cells)

(* The elements that hold a string, as pairs of a value and an index.      *)
Owners == {o \in Here \X (1..MaxSize) : o[2] \in Stored(value[o[1]])}
PointerOf(o) == value[o[1]].cells[o[2]].data

(* TTValue.cpp:152-179.  clear() and the destructor delete what set() has  *)
(* stored, and never what memory held that nobody had set.                 *)
DeletesOnlyStored ==
  \A v \in Here : value[v].strings => Holding(value[v]) = Stored(value[v])

(* TTValue.cpp:152-179, 694-704.  A string whose pointer was never copied  *)
(* exists as long as its element, belongs to one element only, and is      *)
(* deleted with its value.                                                 *)
OwnedUnlessCopied ==
  /\ \A o \in Owners :
       PointerOf(o) \notin copied => memory[PointerOf(o)] # Free /\ value[o[1]].strings
  /\ \A o, p \in Owners : PointerOf(o) = PointerOf(p) /\ o # p => PointerOf(o) \in copied

(* TTValue.h:92, "are there any values which are strings?  if so they need *)
(* special handling when it is time to free them".  Every string that      *)
(* exists, copied or not, will be deleted: an element of a value with the  *)
(* flag holds it.                                                          *)
NothingLeaks ==
  \A s \in Strings :
    memory[s] # Free => \E o \in Owners : PointerOf(o) = s /\ value[o[1]].strings

(* TTValue.cpp:152-179, 238-247, 694-704.  What is deleted has been        *)
(* stored, what exists will be deleted, and until a pointer is copied its  *)
(* string has exactly one owner and lives as long.                         *)
StringsOwned == TypeOK /\ DeletesOnlyStored /\ OwnedUnlessCopied /\ NothingLeaks

(* TTValue.h:145, "Performs a deep copy of the object", said of copy(),    *)
(* TTValue.cpp:239-248.  No two elements refer to the same string.         *)
CopiesAreDeep == \A o, p \in Owners : PointerOf(o) = PointerOf(p) => o = p

(* What a user reads.                                                      *)
ItemOf(c) == IF c.type = "string" /\ c.data \in Strings
             THEN IF c.data \in copied THEN Shared ELSE memory[c.data]
             ELSE c.data
Contents(v) == IF v \in Here
               THEN [i \in 1..value[v].size |-> ItemOf(value[v].cells[i])]
               ELSE Absent

Semantics == INSTANCE ValueSemantics WITH
  val <- [v \in Values |-> Contents(v)],
  lost <- copied # {},
  Unset <- Wild

(* TTValue.h:67-70.  A value is an array of elements of its own: no        *)
(* operation changes another value than the one it is called on, and each  *)
(* leaves there what it says.  Of the texts it says so until they are      *)
(* copied, and of what the values hold besides them always.                *)
ImplementsSemantics == Semantics!Spec
=============================================================================

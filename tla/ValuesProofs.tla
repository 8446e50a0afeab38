---------------------------- MODULE ValuesProofs ----------------------------
(***************************************************************************)
(* For any values, strings and texts, and whatever new memory reads as:    *)
(* when callers keep to the rules, what is deleted has been stored, every  *)
(* string on the heap will be deleted, and one whose pointer was never     *)
(* copied belongs to one element of one value; therefore every operation   *)
(* does to the value it is called on, and to no other, what ValueSemantics *)
(* says.                                                                   *)
(***************************************************************************)
EXTENDS Values, TLAPS

USE ValuesAssumption

Disciplined == Rules = CallerRules

(* Element i of the store is a string and holds the pointer to s.          *)
Holds(c, i, s) ==
  /\ c # Absent
  /\ i \in 1..c.size
  /\ c.cells[i].type = "string"
  /\ c.cells[i].data = s

(* Where the flag is set, there is a string, and nothing but what was set: *)
(* all that clear() follows is a pointer to a string.                      *)
WellFormed(c) ==
  /\ c.size <= Len(c.cells)
  /\ c.strings => /\ \E i \in Nat, s \in Strings : Holds(c, i, s)
                  /\ \A i \in 1..c.size : c.cells[i].data # Wild

FormInv ==
  /\ memory \in [Strings -> Texts \cup {Free}]
  /\ copied \in SUBSET Strings
  /\ value \in [Values -> Stores \cup {Absent}]
  /\ \A v \in Values : value[v] # Absent => WellFormed(value[v])

(* A string that was not copied is live and has one holder, a value that   *)
(* will delete it; and every live string has such a holder.                *)
LiveInv ==
  \A v \in Values, i \in Nat, s \in Strings :
    Holds(value[v], i, s) /\ s \notin copied => memory[s] # Free /\ value[v].strings

OnceInv ==
  \A v, w \in Values, i, j \in Nat, s \in Strings :
    Holds(value[v], i, s) /\ Holds(value[w], j, s) /\ s \notin copied => v = w /\ i = j

HolderInv ==
  \A s \in Strings :
    memory[s] # Free =>
      \E v \in Values, i \in Nat : value[v].strings /\ Holds(value[v], i, s)

OwnInv == LiveInv /\ OnceInv /\ HolderInv

IInv == FormInv /\ OwnInv

-----------------------------------------------------------------------------
(* How an operation on v, which becomes d, keeps the strings owned.  Its   *)
(* strings stay, and what is new has been copied; or they are deleted; or  *)
(* it gets one more, newly made.                                           *)
LEMMA OwnKeep ==
  ASSUME FormInv, OwnInv, NEW v \in Values, NEW d, d # Absent, value' = [value EXCEPT ![v] = d],
         copied \subseteq copied',
         \A s \in Strings : memory'[s] = Free <=> memory[s] = Free,
         \A i \in Nat, s \in Strings : Holds(d, i, s) => Holds(value[v], i, s) \/ s \in copied',
         value[v] # Absent /\ value[v].strings =>
           d.strings /\ \A i \in Nat, s \in Strings : Holds(value[v], i, s) => Holds(d, i, s)
  PROVE  OwnInv'
  <1>1. value'[v] = d /\ \A w \in Values \ {v} : value'[w] = value[w]
    BY DEF FormInv
  <1>2. ASSUME NEW w \in Values, NEW i \in Nat, NEW s \in Strings, Holds(value'[w], i, s), s \notin copied'
        PROVE  Holds(value[w], i, s) /\ s \notin copied
    BY <1>1, <1>2
  <1>3. LiveInv'
    <2> SUFFICES ASSUME NEW w \in Values, NEW i \in Nat, NEW s \in Strings,
                        Holds(value'[w], i, s), s \notin copied'
                 PROVE  memory'[s] # Free /\ value'[w].strings
      BY DEF LiveInv, Holds
    <2>1. memory[s] # Free /\ value[w].strings /\ value[w] # Absent
      BY <1>2 DEF OwnInv, LiveInv, Holds
    <2> QED
      BY <1>1, <2>1
  <1>4. OnceInv'
    <2> SUFFICES ASSUME NEW w \in Values, NEW u \in Values, NEW i \in Nat, NEW j \in Nat, NEW s \in Strings,
                        Holds(value'[w], i, s), Holds(value'[u], j, s), s \notin copied'
                 PROVE  w = u /\ i = j
      BY DEF OnceInv, Holds
    <2> QED
      BY <1>2 DEF OwnInv, OnceInv
  <1>5. HolderInv'
    <2> SUFFICES ASSUME NEW s \in Strings, memory'[s] # Free
                 PROVE  \E w \in Values, i \in Nat : value'[w].strings /\ Holds(value'[w], i, s)
      BY DEF HolderInv, Holds
    <2>1. PICK w \in Values, i \in Nat : value[w].strings /\ Holds(value[w], i, s)
      BY DEF OwnInv, HolderInv
    <2>2. value'[w].strings /\ Holds(value'[w], i, s)
      BY <1>1, <2>1 DEF Holds
    <2> QED
      BY <2>2
  <1> QED
    BY <1>3, <1>4, <1>5 DEF OwnInv

LEMMA OwnNone ==
  ASSUME FormInv, OwnInv, NEW v \in Values, value[v] # Absent, NEW d, value' = [value EXCEPT ![v] = d],
         UNCHANGED copied,
         \A i \in Nat, s \in Strings : ~ Holds(d, i, s),
         \A s \in Strings :
           memory'[s] = IF value[v].strings /\ \E i \in Nat : Holds(value[v], i, s)
                        THEN Free ELSE memory[s]
  PROVE  OwnInv'
  <1>1. value'[v] = d /\ \A w \in Values \ {v} : value'[w] = value[w]
    BY DEF FormInv
  <1>2. ASSUME NEW w \in Values, NEW i \in Nat, NEW s \in Strings, Holds(value'[w], i, s)
        PROVE  w # v /\ Holds(value[w], i, s) /\ value'[w] = value[w]
    BY <1>1, <1>2
  <1>3. LiveInv'
    <2> SUFFICES ASSUME NEW w \in Values, NEW i \in Nat, NEW s \in Strings,
                        Holds(value'[w], i, s), s \notin copied'
                 PROVE  memory'[s] # Free /\ value'[w].strings
      BY DEF LiveInv, Holds
    <2>1. w # v /\ Holds(value[w], i, s) /\ value'[w] = value[w] /\ s \notin copied
      BY <1>2
    <2>2. memory[s] # Free /\ value[w].strings
      BY <2>1 DEF OwnInv, LiveInv
    <2>3. ~ \E j \in Nat : Holds(value[v], j, s)
      BY <2>1 DEF OwnInv, OnceInv
    <2> QED
      BY <2>1, <2>2, <2>3
  <1>4. OnceInv'
    <2> SUFFICES ASSUME NEW w \in Values, NEW u \in Values, NEW i \in Nat, NEW j \in Nat, NEW s \in Strings,
                        Holds(value'[w], i, s), Holds(value'[u], j, s), s \notin copied'
                 PROVE  w = u /\ i = j
      BY DEF OnceInv, Holds
    <2> QED
      BY <1>2 DEF OwnInv, OnceInv
  <1>5. HolderInv'
    <2> SUFFICES ASSUME NEW s \in Strings, memory'[s] # Free
                 PROVE  \E w \in Values, i \in Nat : value'[w].strings /\ Holds(value'[w], i, s)
      BY DEF HolderInv, Holds
    <2>1. memory[s] # Free /\ ~ (value[v].strings /\ \E i \in Nat : Holds(value[v], i, s))
      OBVIOUS
    <2>2. PICK w \in Values, i \in Nat : value[w].strings /\ Holds(value[w], i, s)
      BY <2>1 DEF OwnInv, HolderInv
    <2>3. w # v
      BY <2>1, <2>2
    <2> QED
      BY <1>1, <2>2, <2>3
  <1> QED
    BY <1>3, <1>4, <1>5 DEF OwnInv

Gains(c, d, i, s) ==
  /\ d # Absent /\ d.strings = TRUE /\ Holds(d, i, s)
  /\ \A j \in Nat, r \in Strings : Holds(d, j, r) => Holds(c, j, r) \/ (j = i /\ r = s)
  /\ c # Absent /\ c.strings => \A j \in Nat, r \in Strings : Holds(c, j, r) => Holds(d, j, r)

LEMMA OwnMore ==
  ASSUME FormInv, OwnInv, NEW v \in Values, NEW d,
         value' = [value EXCEPT ![v] = d], UNCHANGED copied,
         NEW s \in Strings, memory[s] = Free,
         NEW text \in Texts, memory' = [memory EXCEPT ![s] = text],
         NEW i \in Nat, Gains(value[v], d, i, s)
  PROVE  OwnInv'
  <1> USE DEF Gains
  <1>1. value'[v] = d /\ \A w \in Values \ {v} : value'[w] = value[w]
    BY DEF FormInv
  <1>2. memory'[s] = text /\ \A r \in Strings \ {s} : memory'[r] = memory[r]
    BY DEF FormInv
  <1>3. \A w \in Values, j \in Nat : Holds(value[w], j, s) => s \in copied
    BY DEF OwnInv, LiveInv
  <1>4. ASSUME NEW w \in Values, NEW j \in Nat, NEW r \in Strings, Holds(value'[w], j, r), r \notin copied
        PROVE  \/ w = v /\ j = i /\ r = s
               \/ r # s /\ Holds(value[w], j, r)
    BY <1>1, <1>3, <1>4
  <1>5. LiveInv'
    <2> SUFFICES ASSUME NEW w \in Values, NEW j \in Nat, NEW r \in Strings,
                        Holds(value'[w], j, r), r \notin copied
                 PROVE  memory'[r] # Free /\ value'[w].strings
      BY DEF LiveInv, Holds
    <2>1. CASE w = v /\ j = i /\ r = s
      BY <1>1, <1>2, <2>1
    <2>2. CASE r # s /\ Holds(value[w], j, r)
      <3>1. memory[r] # Free /\ value[w].strings
        BY <2>2 DEF OwnInv, LiveInv
      <3> QED
        BY <1>1, <1>2, <2>2, <3>1
    <2> QED
      BY <1>4, <2>1, <2>2
  <1>6. OnceInv'
    <2> SUFFICES ASSUME NEW w \in Values, NEW u \in Values, NEW j \in Nat, NEW k \in Nat, NEW r \in Strings,
                        Holds(value'[w], j, r), Holds(value'[u], k, r), r \notin copied
                 PROVE  w = u /\ j = k
      BY DEF OnceInv, Holds
    <2> QED
      BY <1>4 DEF OwnInv, OnceInv
  <1>7. HolderInv'
    <2> SUFFICES ASSUME NEW r \in Strings, memory'[r] # Free
                 PROVE  \E w \in Values, j \in Nat : value'[w].strings /\ Holds(value'[w], j, r)
      BY DEF HolderInv, Holds
    <2>1. CASE r = s
      BY <1>1, <2>1
    <2>2. CASE r # s
      <3>1. PICK w \in Values, j \in Nat : value[w].strings /\ Holds(value[w], j, r)
        BY <1>2, <2>2 DEF OwnInv, HolderInv
      <3>2. value'[w].strings /\ Holds(value'[w], j, r)
        <4>1. value[w] # Absent
          BY <3>1 DEF Holds
        <4> QED
          BY <1>1, <3>1, <4>1
      <3> QED
        BY <3>2
    <2> QED
      BY <2>1, <2>2
  <1> QED
    BY <1>5, <1>6, <1>7 DEF OwnInv

-----------------------------------------------------------------------------
(* What the operators on stores make of a store.                           *)
LEMMA StoreFields ==
  ASSUME NEW c \in Stores
  PROVE  /\ c # Absent /\ c.cells \in Seq(Cell) /\ Len(c.cells) \in Nat /\ DOMAIN c.cells = 1..Len(c.cells)
         /\ c.size \in 0..MaxSize /\ c.size \in Nat /\ c.strings \in BOOLEAN
         /\ c = [cells |-> c.cells, size |-> c.size, strings |-> c.strings]
BY DEF Stores

LEMMA CellFacts ==
  /\ \A x \in Words \cup {Wild} : Plain(x) \in Cell
  /\ \A x : Plain(x).type = "plain" /\ Plain(x).data = x
  /\ \A s \in Strings \cup {Wild} : StringAt(s) \in Cell
  /\ \A s : StringAt(s).type = "string" /\ StringAt(s).data = s
  /\ None \in Cell /\ None.type = "none"
  /\ Unwritten \subseteq Cell /\ \A k \in Unwritten : k.data = Wild
  /\ \A k \in Cell : IF k.type = "string" THEN k.data \in Strings \cup {Wild} ELSE k.data \in Words \cup {Wild}
  /\ \A k \in Cell : k.type = "string" => k = StringAt(k.data)
BY DEF Cell, Plain, StringAt, None, Unwritten

LEMMA CellsWithin ==
  ASSUME NEW c \in Stores, c.size <= Len(c.cells), NEW i \in 1..c.size
  PROVE  i \in Nat /\ i \in 1..Len(c.cells) /\ c.cells[i] \in Cell
BY StoreFields

(* The elements that hold a string are the strings somebody has stored.    *)
LEMMA HeldStored ==
  ASSUME NEW c \in Stores, c.size <= Len(c.cells)
  PROVE  /\ \A i \in Nat, s \in Strings : Holds(c, i, s) => i \in Stored(c)
         /\ \A i \in Stored(c) : /\ i \in Nat /\ i \in 1..c.size /\ c.cells[i].data \in Strings
                                 /\ Holds(c, i, c.cells[i].data)
         /\ \A s : s \in Pointers(c) <=> s \in Strings /\ \E i \in Nat : Holds(c, i, s)
  <1>1. ASSUME NEW i \in Nat, NEW s \in Strings, Holds(c, i, s) PROVE i \in Stored(c)
    BY <1>1 DEF Holds, Stored, Holding, Written
  <1>2. ASSUME NEW i \in Stored(c)
        PROVE  /\ i \in Nat /\ i \in 1..c.size /\ c.cells[i].data \in Strings
               /\ Holds(c, i, c.cells[i].data)
    <2>1. i \in 1..c.size /\ c.cells[i].type = "string" /\ c.cells[i].data # Wild
      BY DEF Stored, Holding, Written
    <2>2. c.cells[i] \in Cell /\ i \in Nat
      BY <2>1, CellsWithin
    <2> QED
      BY <2>1, <2>2, CellFacts, StoreFields DEF Holds
  <1>3. ASSUME NEW s, s \in Pointers(c) PROVE s \in Strings /\ \E i \in Nat : Holds(c, i, s)
    BY <1>2, <1>3 DEF Pointers
  <1>4. ASSUME NEW s \in Strings, NEW i \in Nat, Holds(c, i, s) PROVE s \in Pointers(c)
    <2>1. i \in Stored(c) /\ c.cells[i].data = s
      BY <1>1, <1>4 DEF Holds
    <2> QED
      BY <2>1 DEF Pointers
  <1> QED
    BY <1>1, <1>2, <1>3, <1>4

(* Cell i of the store becomes k.                                          *)
Put(c, i, k, flag) == [cells |-> [c.cells EXCEPT ![i] = k], size |-> c.size, strings |-> flag]

LEMMA CellWritten ==
  ASSUME NEW c \in Stores, c.size <= Len(c.cells), NEW i \in 1..c.size, NEW k \in Cell,
         NEW flag \in BOOLEAN,
         NEW d, d = Put(c, i, k, flag)
  PROVE  /\ d \in Stores /\ d.size = c.size /\ d.size <= Len(d.cells) /\ d.strings = flag
         /\ \A j \in 1..c.size : d.cells[j] = IF j = i THEN k ELSE c.cells[j]
         /\ \A j \in Nat, s \in Strings :
              Holds(d, j, s) <=> IF j = i THEN k.type = "string" /\ k.data = s ELSE Holds(c, j, s)
  <1> DEFINE cells == [c.cells EXCEPT ![i] = k]
  <1>1. /\ cells \in Seq(Cell) /\ Len(cells) = Len(c.cells)
        /\ \A j \in 1..Len(c.cells) : cells[j] = IF j = i THEN k ELSE c.cells[j]
    BY StoreFields
  <1>2. d.cells = cells /\ d.size = c.size /\ d.strings = flag
    BY DEF Put
  <1>3. d = [cells |-> cells, size |-> c.size, strings |-> flag]
    BY DEF Put
  <1> HIDE DEF cells
  <1>4. d \in Stores
    BY <1>1, <1>3, StoreFields DEF Stores
  <1>5. \A j \in 1..c.size : j \in 1..Len(c.cells)
    BY StoreFields
  <1>6. \A j \in 1..c.size : d.cells[j] = IF j = i THEN k ELSE c.cells[j]
    BY <1>1, <1>2, <1>5
  <1>7. d # Absent /\ c # Absent
    BY <1>4, StoreFields
  <1>8. \A j \in Nat, s \in Strings :
          Holds(d, j, s) <=> IF j = i THEN k.type = "string" /\ k.data = s ELSE Holds(c, j, s)
    BY <1>2, <1>6, <1>7 DEF Holds
  <1> QED
    BY <1>1, <1>2, <1>4, <1>6, <1>8

(* setSize() where no string is dropped.                                   *)
LEMMA ResizedFacts ==
  ASSUME NEW c \in Stores, c.size <= Len(c.cells), NEW n \in 0..MaxSize, NEW new \in Unwritten,
         \A i \in Nat, s \in Strings : Holds(c, i, s) => i <= n,
         NEW d, d = Resized(c, n, new)
  PROVE  /\ d \in Stores /\ d.size = n /\ n <= Len(d.cells) /\ d.strings = c.strings
         /\ \A j \in 1..n : d.cells[j] = IF j <= c.size THEN c.cells[j] ELSE new
         /\ \A i \in Nat, s \in Strings : Holds(d, i, s) <=> Holds(c, i, s)
  <1>1. CASE n = c.size
    BY <1>1 DEF Resized
  <1>2. CASE n # c.size
    <2> DEFINE cells == [j \in 1..n |-> IF j <= c.size THEN c.cells[j] ELSE new]
    <2>1. d = [cells |-> cells, size |-> n, strings |-> c.strings]
      <3>1. d = [c EXCEPT !.cells = cells, !.size = n]
        BY <1>2 DEF Resized
      <3> HIDE DEF cells
      <3> QED
        BY <3>1 DEF Stores
    <2>2. n \in Nat /\ \A j \in 1..n : j <= c.size => j \in 1..c.size /\ j \in 1..Len(c.cells)
      BY StoreFields
    <2>3. cells \in [1..n -> Cell]
      <3>1. new \in Cell
        BY CellFacts
      <3> QED
        BY <2>2, <3>1, StoreFields
    <2>4. /\ cells \in Seq(Cell) /\ Len(cells) = n
          /\ \A j \in 1..n : cells[j] = IF j <= c.size THEN c.cells[j] ELSE new
      BY <2>2, <2>3
    <2> HIDE DEF cells
    <2>5. d \in Stores
      BY <2>1, <2>4, StoreFields DEF Stores
    <2>6. d.cells = cells /\ d.size = n /\ d.strings = c.strings /\ d # Absent /\ c # Absent
      BY <2>1, <2>5, StoreFields
    <2>7. ASSUME NEW i \in Nat, NEW s \in Strings PROVE Holds(d, i, s) <=> Holds(c, i, s)
      <3>1. ASSUME Holds(d, i, s) PROVE Holds(c, i, s)
        <4>1. i \in 1..n /\ cells[i].data = s
          BY <2>6, <3>1 DEF Holds
        <4>2. i <= c.size
          BY <2>4, <4>1, CellFacts
        <4> QED
          BY <2>2, <2>4, <2>6, <3>1, <4>1, <4>2 DEF Holds
      <3>2. ASSUME Holds(c, i, s) PROVE Holds(d, i, s)
        <4>1. i \in 1..c.size /\ i <= n
          BY <3>2 DEF Holds
        <4>2. i \in 1..n /\ i <= c.size
          BY <2>2, <4>1, StoreFields
        <4> QED
          BY <2>4, <2>6, <3>2, <4>2 DEF Holds
      <3> QED
        BY <3>1, <3>2
    <2> QED
      BY <2>2, <2>4, <2>5, <2>6, <2>7
  <1> QED
    BY <1>1, <1>2

(* copy(): the elements of e, and what the value had behind them.          *)
LEMMA CopiedFacts ==
  ASSUME NEW c \in Stores, c.size <= Len(c.cells), NEW e \in Stores, WellFormed(e),
         NEW d, d = Copied(c, e)
  PROVE  /\ d \in Stores /\ WellFormed(d) /\ d.size = e.size /\ d.strings = e.strings
         /\ \A j \in 1..e.size : d.cells[j] = e.cells[j]
         /\ \A i \in Nat, s \in Strings : Holds(d, i, s) <=> Holds(e, i, s)
  <1> DEFINE row == IF e.size = c.size
                    THEN [i \in DOMAIN c.cells |-> IF i <= e.size THEN e.cells[i] ELSE c.cells[i]]
                    ELSE SubSeq(e.cells, 1, e.size)
  <1>1. d = [cells |-> row, size |-> e.size, strings |-> e.strings]
    BY DEF Copied
  <1> HIDE DEF row
  <1>2. /\ row \in Seq(Cell) /\ e.size <= Len(row)
        /\ \A j \in 1..e.size : row[j] = e.cells[j]
    <2>1. CASE e.size = c.size
      <3>1. \A i \in 1..Len(c.cells) : i <= e.size => i \in 1..Len(e.cells)
        BY StoreFields DEF WellFormed
      <3>2. row = [i \in 1..Len(c.cells) |-> IF i <= e.size THEN e.cells[i] ELSE c.cells[i]]
        BY <2>1, StoreFields DEF row
      <3>3. row \in [1..Len(c.cells) -> Cell]
        <4>1. \A i \in 1..Len(c.cells) : i <= e.size => e.cells[i] \in Cell
          BY <3>1, StoreFields
        <4>2. \A i \in 1..Len(c.cells) : c.cells[i] \in Cell
          BY StoreFields
        <4> QED
          BY <3>2, <4>1, <4>2
      <3>4. row \in Seq(Cell) /\ Len(row) = Len(c.cells)
        <4>1. Len(c.cells) \in Nat
          BY StoreFields
        <4> QED
          BY <3>3, <4>1
      <3> QED
        BY <2>1, <3>2, <3>4, StoreFields DEF WellFormed
    <2>2. CASE e.size # c.size
      <3>1. e.size \in 0..Len(e.cells) /\ row = SubSeq(e.cells, 1, e.size)
        BY <2>2, StoreFields DEF WellFormed, row
      <3>2. row \in Seq(Cell) /\ Len(row) = e.size /\ \A j \in 1..e.size : row[j] = e.cells[j]
        <4>1. e.cells \in Seq(Cell) /\ e.size \in Nat
          BY StoreFields
        <4> QED
          BY <3>1, <4>1
      <3> QED
        BY <3>2, StoreFields
    <2> QED
      BY <2>1, <2>2
  <1>3. d \in Stores
    BY <1>1, <1>2, StoreFields DEF Stores
  <1>4. d.cells = row /\ d.size = e.size /\ d.strings = e.strings /\ d # Absent /\ e # Absent
    BY <1>1, <1>3, StoreFields
  <1>5. \A i \in Nat, s \in Strings : Holds(d, i, s) <=> Holds(e, i, s)
    BY <1>2, <1>4 DEF Holds
  <1>6. WellFormed(d)
    BY <1>2, <1>4, <1>5 DEF WellFormed
  <1> QED
    BY <1>2, <1>3, <1>4, <1>5, <1>6

(* The stores that constructors make.                                      *)
LEMMA StoresMade ==
  /\ Empty \in Stores /\ WellFormed(Empty) /\ Empty.size = 0 /\ \A i, s : ~ Holds(Empty, i, s)
  /\ \A x \in Words \cup {Wild} :
       /\ Single(x) \in Stores /\ WellFormed(Single(x)) /\ \A i, s : ~ Holds(Single(x), i, s)
       /\ Single(x).size = 1 /\ Single(x).cells[1] = Plain(x) /\ Single(x).strings = FALSE
  <1>1. Empty.cells = <<None>> /\ Empty.size = 0 /\ Empty.strings = FALSE
    BY DEF Empty
  <1>2. <<None>> \in Seq(Cell) /\ Len(<<None>>) = 1 /\ <<None>>[1] = None
    BY CellFacts
  <1>3. Empty \in Stores
    BY <1>2 DEF Empty, Stores
  <1>4. WellFormed(Empty) /\ \A i, s : ~ Holds(Empty, i, s)
    BY <1>1, <1>2 DEF WellFormed, Holds
  <1>5. ASSUME NEW x \in Words \cup {Wild}
        PROVE  /\ Single(x) \in Stores /\ WellFormed(Single(x)) /\ \A i, s : ~ Holds(Single(x), i, s)
               /\ Single(x).size = 1 /\ Single(x).cells[1] = Plain(x) /\ Single(x).strings = FALSE
    <2>1. Single(x).cells = <<Plain(x)>> /\ Single(x).size = 1 /\ Single(x).strings = FALSE
      BY DEF Single
    <2>2. <<Plain(x)>> \in Seq(Cell) /\ Len(<<Plain(x)>>) = 1 /\ <<Plain(x)>>[1] = Plain(x)
      BY CellFacts
    <2>3. Single(x) \in Stores
      BY <2>2 DEF Single, Stores
    <2>4. \A i \in 1..1 : i = 1
      OBVIOUS
    <2>5. WellFormed(Single(x)) /\ \A i, s : ~ Holds(Single(x), i, s)
      BY <2>1, <2>2, <2>4, CellFacts DEF WellFormed, Holds
    <2> QED
      BY <2>1, <2>2, <2>3, <2>5
  <1> QED
    BY <1>1, <1>3, <1>4, <1>5

-----------------------------------------------------------------------------
(* What users read: the contents of a store, and what they are told when   *)
(* one value gets new contents and no other changes.                       *)
ItemsOf(c) == [i \in 1..c.size |-> ItemOf(c.cells[i])]
View == [w \in Values |-> Contents(w)]
Tells(v, seq) == View' = [View EXCEPT ![v] = seq] /\ UNCHANGED copied

Storable == Words \cup Texts \cup (IF copied # {} THEN {Shared} ELSE {})

(* ItemOf, for any heap m and any copied strings C.                        *)
Item(m, C, k) == IF k.type = "string" /\ k.data \in Strings
                 THEN IF k.data \in C THEN Shared ELSE m[k.data]
                 ELSE k.data

LEMMA ItemCases ==
  ASSUME NEW c \in Stores, c.size <= Len(c.cells), NEW i \in 1..c.size
  PROVE  \/ /\ c.cells[i].data \in Words \cup {Wild} /\ c.cells[i].data \notin Strings
            /\ \A s \in Strings : ~ Holds(c, i, s)
         \/ /\ c.cells[i].data \in Strings /\ c.cells[i].type = "string"
            /\ Holds(c, i, c.cells[i].data)
  <1>1. c.cells[i] \in Cell /\ c # Absent
    BY CellsWithin, StoreFields
  <1>2. CASE c.cells[i].type = "string"
    BY <1>1, <1>2, CellFacts DEF Holds
  <1>3. CASE c.cells[i].type # "string"
    BY <1>1, <1>3, CellFacts DEF Holds
  <1> QED
    BY <1>2, <1>3

LEMMA ItemNow == \A k : ItemOf(k) = Item(memory, copied, k)
BY DEF ItemOf, Item

LEMMA ContentsAfter ==
  ASSUME NEW v \in Values, NEW d, d # Absent, value'[v] = d
  PROVE  Contents(v)' = [i \in 1..d.size |-> Item(memory', copied', d.cells[i])]
BY DEF Contents, Here, ItemOf, Item

LEMMA OthersKeep ==
  ASSUME FormInv, NEW v \in Values, NEW d, value' = [value EXCEPT ![v] = d], UNCHANGED copied,
         \A w \in Values \ {v}, i \in Nat, s \in Strings :
           Holds(value[w], i, s) /\ s \notin copied => memory'[s] = memory[s],
         NEW w \in Values \ {v}
  PROVE  Contents(w)' = Contents(w)
  <1>1. value'[w] = value[w]
    BY DEF FormInv
  <1>2. CASE value[w] = Absent
    BY <1>1, <1>2 DEF Contents, Here
  <1>3. CASE value[w] # Absent
    <2>1. PICK c : c = value[w]
      OBVIOUS
    <2>2. c \in Stores /\ c.size <= Len(c.cells) /\ c # Absent
      BY <1>3, <2>1 DEF FormInv, WellFormed
    <2>3. ASSUME NEW i \in 1..c.size
          PROVE  Item(memory', copied', c.cells[i]) = Item(memory, copied, c.cells[i])
      <3>1. i \in Nat
        OBVIOUS
      <3>2. CASE c.cells[i].data \in Strings /\ Holds(c, i, c.cells[i].data)
        <4>1. c.cells[i].data \in copied \/ memory'[c.cells[i].data] = memory[c.cells[i].data]
          BY <2>1, <3>1, <3>2
        <4> QED
          BY <4>1 DEF Item
      <3>3. CASE \A s \in Strings : ~ Holds(c, i, s)
        <4>1. /\ Item(memory', copied', c.cells[i]) = c.cells[i].data
              /\ Item(memory, copied, c.cells[i]) = c.cells[i].data
          BY <2>2, <3>3, ItemCases DEF Item
        <4> QED
          BY <4>1
      <3> QED
        BY <2>2, <3>2, <3>3, ItemCases
    <2>4. Contents(w) = [i \in 1..c.size |-> Item(memory, copied, c.cells[i])]
      BY <1>3, <2>1 DEF Contents, Here, ItemOf, Item
    <2>5. Contents(w)' = [i \in 1..c.size |-> Item(memory', copied', c.cells[i])]
      BY <1>1, <2>1, <2>2, ContentsAfter
    <2> QED
      BY <2>3, <2>4, <2>5
  <1> QED
    BY <1>2, <1>3

LEMMA TellsOf ==
  ASSUME NEW v \in Values, \A w \in Values \ {v} : Contents(w)' = Contents(w), UNCHANGED copied
  PROVE  Tells(v, Contents(v)')
BY DEF Tells, View

(* The ways an operation changes the strings of v: not at all, ...         *)
LEMMA Settled ==
  ASSUME IInv, NEW v \in Values, NEW d \in Stores, WellFormed(d),
         value' = [value EXCEPT ![v] = d], UNCHANGED <<memory, copied>>,
         \A i \in Nat, s \in Strings : Holds(d, i, s) <=> Holds(value[v], i, s),
         value[v] # Absent /\ value[v].strings => d.strings
  PROVE  IInv' /\ Tells(v, ItemsOf(d))
  <1>1. FormInv /\ OwnInv /\ d # Absent
    BY StoreFields DEF IInv
  <1>2. FormInv'
    BY <1>1 DEF FormInv, WellFormed, Holds
  <1>3. OwnInv'
    BY <1>1, OwnKeep
  <1>4. \A w \in Values \ {v} : Contents(w)' = Contents(w)
    BY <1>1, OthersKeep
  <1>5. value'[v] = d
    BY <1>1 DEF FormInv
  <1>6. Contents(v)' = ItemsOf(d)
    <2>1. Contents(v)' = [i \in 1..d.size |-> Item(memory', copied', d.cells[i])]
      BY <1>1, <1>5, ContentsAfter
    <2> QED
      BY <2>1, ItemNow DEF ItemsOf
  <1> QED
    BY <1>2, <1>3, <1>4, <1>6, TellsOf DEF IInv

(* ... all deleted, ...                                                    *)
LEMMA Dropped ==
  ASSUME IInv, NEW v \in Values, value[v] # Absent, NEW d \in Stores \cup {Absent},
         d # Absent => WellFormed(d), \A i \in Nat, s \in Strings : ~ Holds(d, i, s),
         value' = [value EXCEPT ![v] = d], memory' = Freed(value[v]), UNCHANGED copied
  PROVE  /\ IInv'
         /\ d = Absent => Tells(v, Absent)
         /\ d # Absent => Tells(v, [i \in 1..d.size |-> d.cells[i].data])
  <1>1. FormInv /\ OwnInv /\ value[v] \in Stores /\ WellFormed(value[v])
    BY DEF IInv, FormInv
  <1>2. \A s \in Strings :
          memory'[s] = IF value[v].strings /\ \E i \in Nat : Holds(value[v], i, s)
                       THEN Free ELSE memory[s]
    <2>1. PICK c \in Stores : c = value[v]
      BY <1>1
    <2>2. \A s \in Strings : (\E i \in Holding(c) : c.cells[i].data = s) <=> \E i \in Nat : Holds(c, i, s)
      BY StoreFields DEF Holding, Holds
    <2> QED
      BY <2>1, <2>2 DEF Freed
  <1>3. memory' \in [Strings -> Texts \cup {Free}]
    BY <1>1 DEF FormInv, Freed
  <1>4. FormInv'
    BY <1>1, <1>3 DEF FormInv, WellFormed, Holds
  <1>5. OwnInv'
    BY <1>1, <1>2, OwnNone
  <1>6. ASSUME NEW w \in Values \ {v}, NEW i \in Nat, NEW s \in Strings, Holds(value[w], i, s), s \notin copied
        PROVE  memory'[s] = memory[s]
    <2>1. \A j \in Nat : ~ Holds(value[v], j, s)
      BY <1>1, <1>6 DEF OwnInv, OnceInv
    <2> QED
      BY <1>2, <2>1
  <1>7. \A w \in Values \ {v} : Contents(w)' = Contents(w)
    BY <1>1, <1>6, OthersKeep
  <1>8. value'[v] = d
    BY <1>1 DEF FormInv
  <1>9. d = Absent => Contents(v)' = Absent
    BY <1>8 DEF Contents, Here
  <1>10. ASSUME d # Absent PROVE Contents(v)' = [i \in 1..d.size |-> d.cells[i].data]
    <2>1. Contents(v)' = [i \in 1..d.size |-> Item(memory', copied', d.cells[i])]
      BY <1>8, <1>10, ContentsAfter
    <2>2. ASSUME NEW i \in 1..d.size PROVE Item(memory', copied', d.cells[i]) = d.cells[i].data
      <3>1. d \in Stores /\ d.size <= Len(d.cells) /\ i \in Nat
        BY <1>10 DEF WellFormed
      <3> QED
        BY <3>1, ItemCases DEF Item
    <2> QED
      BY <2>1, <2>2
  <1> QED
    BY <1>4, <1>5, <1>7, <1>9, <1>10, TellsOf DEF IInv

(* ... or one is written, in a new string or through the pointer that is   *)
(* there: it is read from the element it is written to.                    *)
Shows(v, c, i) ==
  \E x \in Storable : Tells(v, [j \in 1..c.size |-> IF j = i THEN x ELSE ItemOf(c.cells[j])])

LEMMA PutFresh ==
  ASSUME IInv, NEW v \in Values, NEW c \in Stores, c.size <= Len(c.cells),
         NEW i \in 1..c.size, NEW text \in Texts,
         \A j \in 1..c.size : j # i => c.cells[j].data # Wild,
         \A j \in Nat, r \in Strings : Holds(c, j, r) <=> Holds(value[v], j, r),
         value[v] # Absent /\ value[v].strings => \A r \in Strings : ~ Holds(c, i, r),
         PutString(v, c, i, text, FALSE)
  PROVE  IInv' /\ Shows(v, c, i)
  <1>1. FormInv /\ OwnInv /\ UNCHANGED copied /\ i \in Nat
    BY DEF IInv, PutString
  <1>2. PICK s \in Strings :
          /\ memory[s] = Free
          /\ memory' = [memory EXCEPT ![s] = text]
          /\ Becomes(v, WithString(c, i, StringAt(s)))
    BY DEF PutString
  <1>4. PICK d : d = WithString(c, i, StringAt(s))
    OBVIOUS
  <1>5. value' = [value EXCEPT ![v] = d]
    BY <1>2, <1>4 DEF Becomes
  <1>6. StringAt(s) \in Cell /\ StringAt(s).type = "string" /\ StringAt(s).data = s
    BY CellFacts
  <1>7. /\ d \in Stores /\ d.size = c.size /\ d.size <= Len(d.cells) /\ d.strings = TRUE
        /\ \A j \in 1..c.size : d.cells[j] = IF j = i THEN StringAt(s) ELSE c.cells[j]
        /\ \A j \in Nat, r \in Strings :
             Holds(d, j, r) <=> IF j = i THEN StringAt(s).type = "string" /\ StringAt(s).data = r
                                         ELSE Holds(c, j, r)
    <2>1. PICK k \in Cell, flag \in BOOLEAN : k = StringAt(s) /\ flag = TRUE
      BY <1>6
    <2>2. d = Put(c, i, k, flag)
      BY <1>4, <2>1 DEF WithString, Put
    <2>3. /\ d \in Stores /\ d.size = c.size /\ d.size <= Len(d.cells) /\ d.strings = flag
          /\ \A j \in 1..c.size : d.cells[j] = IF j = i THEN k ELSE c.cells[j]
          /\ \A j \in Nat, r \in Strings :
               Holds(d, j, r) <=> IF j = i THEN k.type = "string" /\ k.data = r ELSE Holds(c, j, r)
      BY ONLY c \in Stores, c.size <= Len(c.cells), i \in 1..c.size, k \in Cell, flag \in BOOLEAN,
         <2>2, CellWritten
    <2> QED
      BY <2>1, <2>3
  <1>8. Holds(d, i, s) /\ d # Absent
    BY <1>1, <1>6, <1>7, StoreFields
  <1>9. WellFormed(d)
    <2>1. \A j \in 1..d.size : d.cells[j].data # Wild
      BY <1>6, <1>7
    <2> QED
      BY <1>1, <1>7, <1>8, <2>1 DEF WellFormed
  <1>10. FormInv'
    BY <1>1, <1>2, <1>5, <1>7, <1>9 DEF FormInv, WellFormed, Holds
  <1>11. OwnInv'
    <2>1. memory[s] = Free /\ memory' = [memory EXCEPT ![s] = text]
      BY <1>2
    <2>2. Gains(value[v], d, i, s)
      BY <1>6, <1>7, <1>8 DEF Gains
    <2> QED
      BY ONLY v \in Values, s \in Strings, text \in Texts, <1>1, <1>5, <2>1, <2>2, OwnMore
  <1>12. memory'[s] = text /\ \A r \in Strings \ {s} : memory'[r] = memory[r]
    BY <1>1, <1>2 DEF FormInv
  <1>13. \A w \in Values, j \in Nat, r \in Strings :
           Holds(value[w], j, r) /\ r \notin copied => memory'[r] = memory[r]
    BY <1>1, <1>2, <1>12 DEF OwnInv, LiveInv
  <1>14. \A w \in Values \ {v} : Contents(w)' = Contents(w)
    BY <1>1, <1>5, <1>13, OthersKeep
  <1>15. value'[v] = d
    BY <1>1, <1>5 DEF FormInv
  <1>16. Contents(v)' = [j \in 1..d.size |-> Item(memory', copied', d.cells[j])]
    BY <1>8, <1>15, ContentsAfter
  <1>17. PICK x : x = IF s \in copied THEN Shared ELSE text
    OBVIOUS
  <1>18. x \in Storable
    BY <1>17 DEF Storable
  <1>19. ASSUME NEW j \in 1..c.size
         PROVE  Item(memory', copied', d.cells[j]) = IF j = i THEN x ELSE ItemOf(c.cells[j])
    <2>1. CASE j = i
      BY <1>1, <1>6, <1>7, <1>12, <1>17, <2>1 DEF Item
    <2>2. CASE j # i
      <3>1. d.cells[j] = c.cells[j] /\ j \in Nat
        BY <1>7, <2>2
      <3>2. CASE c.cells[j].data \in Strings /\ Holds(c, j, c.cells[j].data)
        <4>1. c.cells[j].data \in copied \/ memory'[c.cells[j].data] = memory[c.cells[j].data]
          BY <1>13, <3>1, <3>2
        <4> QED
          BY <1>1, <2>2, <3>1, <4>1 DEF Item, ItemOf
      <3>3. CASE \A r \in Strings : ~ Holds(c, j, r)
        <4>1. /\ Item(memory', copied', c.cells[j]) = c.cells[j].data
              /\ Item(memory, copied, c.cells[j]) = c.cells[j].data
          BY <3>3, ItemCases DEF Item
        <4> QED
          BY <2>2, <3>1, <4>1, ItemNow
      <3> QED
        BY <3>2, <3>3, ItemCases
    <2> QED
      BY <2>1, <2>2
  <1>20. Contents(v)' = [j \in 1..c.size |-> IF j = i THEN x ELSE ItemOf(c.cells[j])]
    BY <1>7, <1>16, <1>19
  <1>21. Tells(v, Contents(v)')
    BY <1>1, <1>14, TellsOf
  <1> QED
    BY <1>10, <1>11, <1>18, <1>20, <1>21 DEF IInv, Shows

LEMMA PutInPlace ==
  ASSUME IInv, NEW v \in Values, value[v] # Absent, NEW c \in Stores, c.size <= Len(c.cells),
         NEW i \in 1..c.size, NEW text \in Texts, c.cells[i].type = "string",
         \A j \in 1..c.size : c.cells[j].data # Wild,
         \A j \in Nat, r \in Strings : Holds(c, j, r) <=> Holds(value[v], j, r),
         PutString(v, c, i, text, TRUE)
  PROVE  IInv' /\ Shows(v, c, i)
  <1>1. FormInv /\ OwnInv /\ UNCHANGED copied /\ i \in Nat
    BY DEF IInv, PutString
  <1>2. PICK s \in Strings : s = c.cells[i].data /\ Holds(c, i, s) /\ c.cells[i] = StringAt(s)
    BY CellsWithin, CellFacts, ItemCases
  <1>3. PICK d : d = Put(c, i, c.cells[i], TRUE)
    OBVIOUS
  <1>4. value' = [value EXCEPT ![v] = d]
    <2>1. [c.cells[i] EXCEPT !.type = "string"] = c.cells[i]
      BY <1>2 DEF StringAt
    <2> QED
      BY <1>3, <2>1 DEF PutString, Becomes, WithString, Put
  <1>5. /\ d \in Stores /\ d.size = c.size /\ d.size <= Len(d.cells) /\ d.strings = TRUE
        /\ \A j \in 1..c.size : d.cells[j] = c.cells[j]
        /\ \A j \in Nat, r \in Strings : Holds(d, j, r) <=> Holds(c, j, r)
    <2>1. PICK k \in Cell, flag \in BOOLEAN : k = c.cells[i] /\ flag = TRUE
      BY CellsWithin
    <2>2. d = Put(c, i, k, flag)
      BY <1>3, <2>1
    <2>3. /\ d \in Stores /\ d.size = c.size /\ d.size <= Len(d.cells) /\ d.strings = flag
          /\ \A j \in 1..c.size : d.cells[j] = IF j = i THEN k ELSE c.cells[j]
          /\ \A j \in Nat, r \in Strings :
               Holds(d, j, r) <=> IF j = i THEN k.type = "string" /\ k.data = r ELSE Holds(c, j, r)
      BY ONLY c \in Stores, c.size <= Len(c.cells), i \in 1..c.size, k \in Cell, flag \in BOOLEAN,
         <2>2, CellWritten
    <2>4. \A r \in Strings : Holds(c, i, r) <=> k.type = "string" /\ k.data = r
      BY <2>1, StoreFields DEF Holds
    <2> QED
      BY <2>1, <2>3, <2>4
  <1>6. d # Absent /\ Holds(d, i, s)
    BY <1>1, <1>2, <1>5, StoreFields
  <1>7. WellFormed(d)
    <2>1. \A j \in 1..d.size : d.cells[j].data # Wild
      BY <1>5
    <2> QED
      BY <1>1, <1>5, <1>6, <2>1 DEF WellFormed
  <1>8. /\ memory' = [r \in Strings |-> IF r = s /\ memory[r] # Free THEN text ELSE memory[r]]
        /\ \A r \in Strings : memory'[r] = Free <=> memory[r] = Free
    BY <1>2 DEF PutString
  <1>9. FormInv'
    BY <1>1, <1>4, <1>5, <1>7, <1>8 DEF FormInv, WellFormed, Holds
  <1>10. OwnInv'
    BY <1>1, <1>4, <1>5, <1>6, <1>8, OwnKeep
  <1>11. ASSUME NEW w \in Values, NEW j \in Nat, NEW r \in Strings,
                Holds(value[w], j, r), r \notin copied, w # v \/ j # i
         PROVE  memory'[r] = memory[r]
    <2>1. r # s
      BY <1>1, <1>2, <1>11 DEF OwnInv, OnceInv
    <2> QED
      BY <1>8, <2>1
  <1>12. \A w \in Values \ {v} : Contents(w)' = Contents(w)
    BY <1>1, <1>4, <1>11, OthersKeep
  <1>13. value'[v] = d
    BY <1>1, <1>4 DEF FormInv
  <1>14. Contents(v)' = [j \in 1..d.size |-> Item(memory', copied', d.cells[j])]
    BY <1>6, <1>13, ContentsAfter
  <1>15. PICK x : x = IF s \in copied THEN Shared ELSE text
    OBVIOUS
  <1>16. x \in Storable
    BY <1>15 DEF Storable
  <1>17. ASSUME NEW j \in 1..c.size
         PROVE  Item(memory', copied', d.cells[j]) = IF j = i THEN x ELSE ItemOf(c.cells[j])
    <2>1. CASE j = i
      <3>1. s \notin copied => memory[s] # Free
        BY <1>1, <1>2 DEF OwnInv, LiveInv
      <3>2. s \notin copied => memory'[s] = text
        BY <1>8, <3>1
      <3> QED
        BY <1>1, <1>2, <1>5, <1>15, <2>1, <3>2, CellFacts DEF Item
    <2>2. CASE j # i
      <3>1. d.cells[j] = c.cells[j] /\ j \in Nat
        BY <1>5
      <3>2. CASE c.cells[j].data \in Strings /\ Holds(c, j, c.cells[j].data)
        <4>1. c.cells[j].data \in copied \/ memory'[c.cells[j].data] = memory[c.cells[j].data]
          BY <1>11, <2>2, <3>1, <3>2
        <4> QED
          BY <1>1, <2>2, <3>1, <4>1 DEF Item, ItemOf
      <3>3. CASE \A r \in Strings : ~ Holds(c, j, r)
        <4>1. /\ Item(memory', copied', c.cells[j]) = c.cells[j].data
              /\ Item(memory, copied, c.cells[j]) = c.cells[j].data
          BY <3>3, ItemCases DEF Item
        <4> QED
          BY <2>2, <3>1, <4>1, ItemNow
      <3> QED
        BY <3>2, <3>3, ItemCases
    <2> QED
      BY <2>1, <2>2
  <1>18. Contents(v)' = [j \in 1..c.size |-> IF j = i THEN x ELSE ItemOf(c.cells[j])]
    BY <1>5, <1>14, <1>17
  <1>19. Tells(v, Contents(v)')
    BY <1>1, <1>12, TellsOf
  <1> QED
    BY <1>9, <1>10, <1>16, <1>18, <1>19 DEF IInv, Shows

(* Pointers of w are copied: an element that holds one of them reads as    *)
(* Shared from then on, and it is one of w if it did not do so before.     *)
Given(x) == IF x \in Texts THEN Shared ELSE x

LEMMA ItemGiven ==
  ASSUME IInv, NEW w \in Values, value[w] # Absent, NEW i \in 1..value[w].size,
         UNCHANGED memory, copied \subseteq copied'
  PROVE  /\ ItemOf(value[w].cells[i]) \in Words \cup Texts \cup {Wild, Shared}
         /\ ItemOf(value[w].cells[i]) = Shared => copied # {}
         /\ ItemOf(value[w].cells[i]) \in Texts <=>
              value[w].cells[i].data \in Strings \ copied /\ Holds(value[w], i, value[w].cells[i].data)
         /\ value[w].cells[i].data \notin copied' \ copied =>
              Item(memory', copied', value[w].cells[i]) = ItemOf(value[w].cells[i])
         /\ (\A s \in Strings : Holds(value[w], i, s) => s \in copied') =>
              Item(memory', copied', value[w].cells[i]) = Given(ItemOf(value[w].cells[i]))
  <1>1. PICK c \in Stores : c = value[w] /\ c.size <= Len(c.cells)
    BY DEF IInv, FormInv, WellFormed
  <1>2. i \in 1..c.size /\ i \in Nat
    BY <1>1
  <1>3. PICK x : x = ItemOf(c.cells[i])
    OBVIOUS
  <1>4. CASE c.cells[i].data \in Strings /\ c.cells[i].type = "string" /\ Holds(c, i, c.cells[i].data)
    <2>1. PICK s \in Strings : s = c.cells[i].data
      BY <1>4
    <2>2. s \notin copied => memory[s] # Free /\ memory[s] \in Texts
      BY <1>1, <1>2, <1>4, <2>1 DEF IInv, FormInv, OwnInv, LiveInv
    <2>3. x = IF s \in copied THEN Shared ELSE memory[s]
      BY <1>3, <1>4, <2>1 DEF ItemOf
    <2>4. Item(memory', copied', c.cells[i]) = IF s \in copied' THEN Shared ELSE memory[s]
      BY <1>4, <2>1 DEF Item
    <2> QED
      BY <1>1, <1>2, <1>3, <1>4, <2>1, <2>2, <2>3, <2>4 DEF Given
  <1>5. CASE /\ c.cells[i].data \in Words \cup {Wild} /\ c.cells[i].data \notin Strings
             /\ \A s \in Strings : ~ Holds(c, i, s)
    <2>1. x = c.cells[i].data /\ Item(memory', copied', c.cells[i]) = c.cells[i].data
      BY <1>3, <1>5 DEF ItemOf, Item
    <2> QED
      BY <1>1, <1>2, <1>3, <1>5, <2>1 DEF Given
  <1> QED
    BY <1>1, <1>2, <1>4, <1>5, ItemCases

LEMMA OthersUnaware ==
  ASSUME IInv, NEW v \in Values, NEW w \in Values, NEW d, value' = [value EXCEPT ![v] = d],
         UNCHANGED memory, copied \subseteq copied',
         \A s \in copied' \ copied : \E i \in Nat : Holds(value[w], i, s),
         NEW u \in Values \ {v, w}
  PROVE  Contents(u)' = Contents(u)
  <1>1. value'[u] = value[u]
    BY DEF IInv, FormInv
  <1>2. CASE value[u] = Absent
    BY <1>1, <1>2 DEF Contents, Here
  <1>3. CASE value[u] # Absent
    <2>1. PICK c : c = value[u]
      OBVIOUS
    <2>2. c \in Stores /\ c.size <= Len(c.cells) /\ c # Absent
      BY <1>3, <2>1 DEF IInv, FormInv, WellFormed
    <2>3. ASSUME NEW i \in 1..c.size
          PROVE  Item(memory', copied', c.cells[i]) = Item(memory, copied, c.cells[i])
      <3>1. i \in Nat
        OBVIOUS
      <3>2. CASE c.cells[i].data \in Strings /\ Holds(c, i, c.cells[i].data)
        <4>1. c.cells[i].data \notin copied' \ copied
          BY <2>1, <3>1, <3>2 DEF IInv, OwnInv, OnceInv
        <4> QED
          BY <4>1 DEF Item
      <3>3. CASE c.cells[i].data \notin Strings
        BY <3>3 DEF Item
      <3> QED
        BY <2>2, <3>2, <3>3, ItemCases
    <2>4. Contents(u) = [i \in 1..c.size |-> Item(memory, copied, c.cells[i])]
      BY <1>3, <2>1 DEF Contents, Here, ItemOf, Item
    <2>5. Contents(u)' = [i \in 1..c.size |-> Item(memory', copied', c.cells[i])]
      BY <1>1, <2>1, <2>2, ContentsAfter
    <2> QED
      BY <2>3, <2>4, <2>5
  <1> QED
    BY <1>2, <1>3

(* What users see of a value that is there.                                *)
Anything == Words \cup Texts \cup {Wild, Shared}

LEMMA HereFacts ==
  ASSUME IInv, NEW v \in Values
  PROVE  /\ View[v] = Contents(v)
         /\ v \notin Here => Contents(v) = Absent
         /\ v \in Here =>
              /\ value[v] # Absent /\ value[v] \in Stores /\ WellFormed(value[v])
              /\ value[v].size <= Len(value[v].cells) /\ value[v].size \in Nat
              /\ Contents(v) = ItemsOf(value[v]) /\ Contents(v) # Absent
              /\ Contents(v) \in Seq(Anything) /\ Len(Contents(v)) = value[v].size
              /\ \A i \in 1..value[v].size : Contents(v)[i] = ItemOf(value[v].cells[i])
  <1>1. View[v] = Contents(v) /\ (v \notin Here => Contents(v) = Absent)
    BY DEF View, Contents, ItemOf
  <1>2. ASSUME v \in Here
        PROVE  /\ value[v] # Absent /\ value[v] \in Stores /\ WellFormed(value[v])
               /\ value[v].size <= Len(value[v].cells) /\ value[v].size \in Nat
               /\ Contents(v) = ItemsOf(value[v]) /\ Contents(v) # Absent
               /\ Contents(v) \in Seq(Anything) /\ Len(Contents(v)) = value[v].size
               /\ \A i \in 1..value[v].size : Contents(v)[i] = ItemOf(value[v].cells[i])
    <2>1. value[v] # Absent /\ value[v] \in Stores /\ WellFormed(value[v]) /\ value[v].size <= Len(value[v].cells)
      BY <1>2 DEF Here, IInv, FormInv, WellFormed
    <2>2. Contents(v) = ItemsOf(value[v])
      BY <1>2 DEF Contents, ItemsOf
    <2>3. ASSUME NEW i \in 1..value[v].size PROVE ItemOf(value[v].cells[i]) \in Anything
      <3>1. PICK c \in Stores : c = value[v] /\ c.size <= Len(c.cells) /\ i \in 1..c.size /\ i \in Nat
        BY <2>1
      <3>2. CASE c.cells[i].data \in Strings /\ Holds(c, i, c.cells[i].data)
        <4>1. c.cells[i].data \in copied \/ memory[c.cells[i].data] \in Texts
          BY <3>1, <3>2 DEF IInv, FormInv, OwnInv, LiveInv
        <4> QED
          BY <3>1, <3>2, <4>1 DEF ItemOf, Anything, Holds
      <3>3. CASE c.cells[i].data \in Words \cup {Wild} /\ c.cells[i].data \notin Strings
        BY <3>1, <3>3 DEF ItemOf, Anything
      <3> QED
        BY <3>1, <3>2, <3>3, ItemCases
    <2>4. value[v].size \in Nat
      BY <2>1, StoreFields
    <2>5. ItemsOf(value[v]) \in [1..value[v].size -> Anything]
      BY <2>3 DEF ItemsOf
    <2>6. ItemsOf(value[v]) \in Seq(Anything) /\ Len(ItemsOf(value[v])) = value[v].size
      BY <2>4, <2>5
    <2>7. Contents(v) # Absent
      BY <2>2, <2>6 DEF Anything
    <2> QED
      BY <2>1, <2>2, <2>4, <2>6, <2>7 DEF ItemsOf
  <1> QED
    BY <1>1, <1>2

-----------------------------------------------------------------------------
(* The steps of ValueSemantics, in terms of the contents users are told.   *)
LEMMA AbstractFacts ==
  ASSUME IInv
  PROVE  /\ Semantics!Here = Here /\ Here \subseteq Values
         /\ Semantics!Storable = Storable
         /\ \A x : Semantics!Given(x) = Given(x)
         /\ \A v \in Values : \A seq : Tells(v, seq) => Semantics!Becomes(v, seq)
  <1>1. \A v \in Values : View[v] # Absent <=> v \in Here
    BY HereFacts
  <1>2. Semantics!Here = {v \in Values : View[v] # Absent}
    BY DEF Semantics!Here, View
  <1>3. Here \subseteq Values
    BY DEF Here
  <1>4. \A v \in Values : \A seq : Tells(v, seq) => Semantics!Becomes(v, seq)
    BY DEF Semantics!Becomes, Tells, View
  <1>5. Semantics!Storable = Storable /\ \A x : Semantics!Given(x) = Given(x)
    BY DEF Semantics!Storable, Storable, Semantics!Given, Given
  <1> QED
    BY <1>1, <1>2, <1>3, <1>4, <1>5

Assigned(v) ==
  \/ Tells(v, <<>>)
  \/ \E x \in Storable : Tells(v, <<x>>)

LEMMA AbstractAssign ==
  ASSUME IInv, NEW v \in Values, Assigned(v)
  PROVE  Semantics!Next
  <1>1. \E seq \in {<<>>} \cup {<<x>> : x \in Storable} : Semantics!Becomes(v, seq)
    <2>1. CASE Tells(v, <<>>)
      BY <2>1, AbstractFacts
    <2>2. ASSUME NEW x \in Storable, Tells(v, <<x>>)
          PROVE  \E seq \in {<<>>} \cup {<<y>> : y \in Storable} : Semantics!Becomes(v, seq)
      BY <2>2, AbstractFacts
    <2> QED
      BY <2>1, <2>2 DEF Assigned
  <1>2. CASE v \in Here
    <2>1. Semantics!Assign(v)
      BY <1>1, AbstractFacts DEF Semantics!Assign
    <2> QED
      BY <1>2, <2>1, AbstractFacts DEF Semantics!Next
  <1>3. CASE v \notin Here
    <2>1. Semantics!Construct(v)
      BY <1>1, <1>3, AbstractFacts DEF Semantics!Construct
    <2> QED
      BY <2>1 DEF Semantics!Next
  <1> QED
    BY <1>2, <1>3

LEMMA AbstractSet ==
  ASSUME IInv, NEW v \in Here, NEW i \in 1..value[v].size, NEW x \in Storable,
         Tells(v, [j \in 1..value[v].size |-> IF j = i THEN x ELSE ItemOf(value[v].cells[j])])
  PROVE  Semantics!Next
  <1>1. v \in Values
    BY DEF Here
  <1>2. /\ View[v] = Contents(v) /\ DOMAIN Contents(v) = 1..value[v].size
        /\ Contents(v) = ItemsOf(value[v])
    BY <1>1, HereFacts DEF ItemsOf
  <1>3. [View[v] EXCEPT ![i] = x]
          = [j \in 1..value[v].size |-> IF j = i THEN x ELSE ItemOf(value[v].cells[j])]
    BY <1>2 DEF ItemsOf
  <1>4. Semantics!Becomes(v, [View[v] EXCEPT ![i] = x]) /\ i \in DOMAIN View[v]
    BY <1>1, <1>2, <1>3, AbstractFacts
  <1>5. Semantics!Set(v)
    BY <1>4, AbstractFacts DEF Semantics!Set, View
  <1> QED
    BY <1>5, AbstractFacts DEF Semantics!Next

(* Append, element by element.                                             *)
Longer(old, x, n) == [j \in 1..n |-> IF j = n THEN x ELSE old[j]]

LEMMA AppendElements ==
  ASSUME NEW S, NEW old \in Seq(S), NEW x, NEW n, n = Len(old) + 1
  PROVE  Longer(old, x, n) = Append(old, x)
  <1>1. PICK T : T = S \cup {x}
    OBVIOUS
  <1>2. old \in Seq(T) /\ x \in T /\ Len(old) \in Nat
    BY <1>1
  <1>3. PICK new : new = Append(old, x)
    OBVIOUS
  <1>4. new \in Seq(T) /\ Len(new) = n /\ \A j \in 1..n : new[j] = IF j = n THEN x ELSE old[j]
    BY <1>2, <1>3
  <1>5. new \in [1..n -> T]
    BY <1>4
  <1>6. \A j \in 1..n : Longer(old, x, n)[j] = new[j]
    BY <1>4 DEF Longer
  <1> QED
    BY <1>3, <1>5, <1>6 DEF Longer

LEMMA AbstractAppend ==
  ASSUME IInv, NEW v \in Here, value[v].size < MaxSize, NEW n, n = value[v].size + 1, NEW x \in Storable,
         NEW seq, seq = [j \in 1..n |-> IF j = n THEN x ELSE ItemOf(value[v].cells[j])],
         Tells(v, seq)
  PROVE  Semantics!Next
  <1>1. v \in Values
    BY DEF Here
  <1>2. /\ View[v] = Contents(v) /\ Contents(v) \in Seq(Anything) /\ Len(Contents(v)) = value[v].size
        /\ \A j \in 1..value[v].size : Contents(v)[j] = ItemOf(value[v].cells[j])
        /\ value[v].size \in Nat
    BY <1>1, HereFacts
  <1>3. seq = Append(View[v], x)
    <2>1. PICK old \in Seq(Anything) : old = Contents(v) /\ n = Len(old) + 1
      BY <1>2
    <2>2. seq = Longer(old, x, n)
      <3>1. \A j \in 1..n : j # n => j \in 1..value[v].size
        BY <1>2
      <3> QED
        BY <1>2, <2>1, <3>1 DEF Longer
    <2>3. seq = Append(old, x)
      BY ONLY <2>1, <2>2, AppendElements
    <2> QED
      BY <1>2, <2>1, <2>3
  <1>4. Semantics!Becomes(v, Append(View[v], x)) /\ Len(View[v]) < MaxSize
    BY <1>1, <1>2, <1>3, AbstractFacts
  <1>5. Semantics!AppendTo(v)
    BY <1>4, AbstractFacts DEF Semantics!AppendTo, View
  <1> QED
    BY <1>5, AbstractFacts DEF Semantics!Next

LEMMA AbstractCopy ==
  ASSUME IInv, NEW v \in Values, NEW w \in Here,
         NEW seq, seq = [i \in 1..value[w].size |-> Given(ItemOf(value[w].cells[i]))],
         View' = [u \in Values |-> IF u \in {v, w} THEN seq ELSE View[u]],
         copied' # {} <=> copied # {} \/ \E i \in 1..value[w].size : ItemOf(value[w].cells[i]) \in Texts
  PROVE  Semantics!Next
  <1>1. w \in Values
    BY DEF Here
  <1>2. View[w] = ItemsOf(value[w])
    BY <1>1, HereFacts
  <1>3. DOMAIN View[w] = 1..value[w].size /\ \A i \in 1..value[w].size : View[w][i] = ItemOf(value[w].cells[i])
    BY <1>2 DEF ItemsOf
  <1>4. [i \in DOMAIN View[w] |-> Semantics!Given(View[w][i])] = seq
    BY <1>3, AbstractFacts
  <1>5. View' = [View EXCEPT ![w] = seq, ![v] = seq]
    BY <1>1 DEF View
  <1>6. View' = [View EXCEPT ![w] = [i \in DOMAIN View[w] |-> Semantics!Given(View[w][i])],
                             ![v] = [i \in DOMAIN View[w] |-> Semantics!Given(View[w][i])]]
    BY <1>4, <1>5
  <1>7. (copied' # {}) = (copied # {} \/ \E i \in DOMAIN View[w] : View[w][i] \in Texts)
    BY <1>3
  <1>8. Semantics!Copy(v, w)
    BY ONLY <1>6, <1>7, Zenon DEF Semantics!Copy, View
  <1> QED
    BY <1>8, AbstractFacts DEF Semantics!Next

FirstOf(w, x) == [j \in 1..value[w].size |-> IF j = 1 THEN x ELSE ItemOf(value[w].cells[j])]
JoinedBy(v, w, x, n) ==
  [j \in 1..n |-> IF j = n \/ (v = w /\ j = 1) THEN x ELSE ItemOf(value[v].cells[j])]
Both(v, seq, w, source) == [u \in Values |-> IF u = v THEN seq ELSE IF u = w THEN source ELSE View[u]]

LEMMA AbstractAppendFirst ==
  ASSUME IInv, NEW v \in Here, NEW w \in Here, value[w].size > 0, value[v].size < MaxSize,
         NEW n, n = value[v].size + 1,
         NEW x, x = Given(ItemOf(value[w].cells[1])),
         NEW source, source = FirstOf(w, x),
         NEW seq, seq = JoinedBy(v, w, x, n),
         View' = Both(v, seq, w, source),
         copied' # {} <=> copied # {} \/ ItemOf(value[w].cells[1]) \in Texts
  PROVE  Semantics!Next
  <1> USE DEF FirstOf, JoinedBy, Both
  <1>1. v \in Values /\ w \in Values
    BY DEF Here
  <1>2. /\ View[v] = Contents(v) /\ Contents(v) \in Seq(Anything) /\ Len(Contents(v)) = value[v].size
        /\ \A j \in 1..value[v].size : Contents(v)[j] = ItemOf(value[v].cells[j])
        /\ value[v].size \in Nat
    BY <1>1, HereFacts
  <1>3. /\ View[w] = Contents(w) /\ Contents(w) \in Seq(Anything) /\ Len(Contents(w)) = value[w].size
        /\ \A j \in 1..value[w].size : Contents(w)[j] = ItemOf(value[w].cells[j])
        /\ value[w].size \in Nat
    BY <1>1, HereFacts
  <1>4. /\ View[w] # <<>> /\ Len(View[v]) < MaxSize /\ Head(View[w]) = ItemOf(value[w].cells[1])
        /\ x = Semantics!Given(Head(View[w]))
    BY <1>2, <1>3, AbstractFacts
  <1>5. PICK S : S = Anything \cup {x}
    OBVIOUS
  <1>6. source \in Seq(S) /\ Len(source) = value[w].size
    <2>1. source \in [1..value[w].size -> S]
      <3>1. \A j \in 1..value[w].size : ItemOf(value[w].cells[j]) \in S
        BY <1>3, <1>5
      <3> QED
        BY <1>5, <3>1
    <2>2. value[w].size \in Nat
      BY <1>3
    <2> QED
      BY ONLY <2>1, <2>2
  <1>7. <<x>> \o Tail(View[w]) = source
    <2>1. PICK old \in Seq(Anything) : old = View[w] /\ Len(old) = value[w].size /\ Len(old) > 0 /\ Len(old) \in Nat
      BY <1>3
    <2>2. PICK new : new = <<x>> \o Tail(old)
      OBVIOUS
    <2>3. Tail(old) \in Seq(S) /\ Len(Tail(old)) = Len(old) - 1 /\ \A j \in 1..Len(old) - 1 : Tail(old)[j] = old[j + 1]
      BY <1>5, <2>1
    <2>4. <<x>> \in Seq(S) /\ Len(<<x>>) = 1 /\ <<x>>[1] = x
      BY <1>5
    <2>5. /\ new \in Seq(S) /\ Len(new) = Len(old)
          /\ \A j \in 1..Len(old) : new[j] = IF j = 1 THEN x ELSE old[j]
      BY <2>1, <2>2, <2>3, <2>4
    <2>6. new \in [1..Len(old) -> S]
      BY <2>5
    <2>7. \A j \in 1..Len(old) : new[j] = source[j]
      BY <1>3, <2>1, <2>5
    <2> QED
      BY <2>1, <2>2, <2>6, <2>7
  <1>8. Append(IF v = w THEN source ELSE View[v], x) = seq
    <2>1. PICK old : old = IF v = w THEN source ELSE View[v]
      OBVIOUS
    <2>2. old \in Seq(S) /\ n = Len(old) + 1
      <3>1. View[v] \in Seq(S)
        BY <1>2, <1>5
      <3> QED
        BY <1>2, <1>6, <2>1, <3>1
    <2>3. ASSUME NEW j \in 1..n, j # n
          PROVE  old[j] = IF v = w /\ j = 1 THEN x ELSE ItemOf(value[v].cells[j])
      <3>1. j \in 1..value[v].size
        BY <1>2, <2>3
      <3>2. CASE v = w
        BY <2>1, <3>1, <3>2
      <3>3. CASE v # w
        BY <1>2, <2>1, <3>1, <3>3
      <3> QED
        BY <3>2, <3>3
    <2>4. seq = Longer(old, x, n)
      BY <2>3 DEF Longer
    <2>5. seq = Append(old, x)
      BY ONLY <2>2, <2>4, AppendElements
    <2> QED
      BY <2>1, <2>5
  <1>9. View' = [View EXCEPT ![w] = source, ![v] = Append(IF v = w THEN source ELSE @, x)]
    <2>1. View' = [View EXCEPT ![w] = source, ![v] = seq]
      BY <1>1 DEF View
    <2>2. [View EXCEPT ![w] = source, ![v] = Append(IF v = w THEN source ELSE @, x)]
            = [View EXCEPT ![w] = source, ![v] = Append(IF v = w THEN source ELSE View[v], x)]
      BY <1>1 DEF View
    <2> QED
      BY ONLY <1>8, <2>1, <2>2, Zenon
  <1>10. View' = [View EXCEPT
                    ![w] = <<Semantics!Given(Head(View[w]))>> \o Tail(View[w]),
                    ![v] = Append(IF v = w THEN <<Semantics!Given(Head(View[w]))>> \o Tail(View[w]) ELSE @,
                                  Semantics!Given(Head(View[w])))]
    BY <1>4, <1>7, <1>9
  <1>11. (copied' # {}) = (copied # {} \/ Head(View[w]) \in Texts)
    BY <1>4
  <1>12. View[w] # <<>> /\ Len(View[v]) < MaxSize
    BY <1>4
  <1>13. Semantics!AppendFirst(v, w)
    BY ONLY <1>10, <1>11, <1>12, Zenon DEF Semantics!AppendFirst, View
  <1> QED
    BY <1>13, AbstractFacts DEF Semantics!Next

LEMMA AbstractResize ==
  ASSUME IInv, NEW v \in Here, NEW n \in 0..MaxSize,
         Tells(v, [j \in 1..n |-> IF j <= value[v].size THEN ItemOf(value[v].cells[j]) ELSE Wild])
  PROVE  Semantics!Next
  <1>1. v \in Values
    BY DEF Here
  <1>2. /\ View[v] = Contents(v) /\ Len(Contents(v)) = value[v].size
        /\ \A j \in 1..value[v].size : Contents(v)[j] = ItemOf(value[v].cells[j])
        /\ value[v].size \in Nat
    BY <1>1, HereFacts
  <1>3. [j \in 1..n |-> IF j <= Len(View[v]) THEN View[v][j] ELSE Wild]
          = [j \in 1..n |-> IF j <= value[v].size THEN ItemOf(value[v].cells[j]) ELSE Wild]
    BY <1>2
  <1>4. Semantics!Becomes(v, [j \in 1..n |-> IF j <= Len(View[v]) THEN View[v][j] ELSE Wild])
    BY <1>1, <1>3, AbstractFacts
  <1>5. Semantics!Resize(v)
    BY <1>4 DEF Semantics!Resize, View
  <1> QED
    BY <1>5, AbstractFacts DEF Semantics!Next

LEMMA AbstractTransform ==
  ASSUME IInv, NEW v \in Here, value[v].size > 0, NEW text \in Texts, Contents(v)[1] \in {text, Shared},
         Tells(v, Reverse(text))
  PROVE  Semantics!Next
  <1>1. v \in Values
    BY DEF Here
  <1>2. View[v] = Contents(v) /\ Contents(v) \in Seq(Anything) /\ Len(Contents(v)) > 0
    BY <1>1, HereFacts
  <1>3. View[v] # <<>> /\ Head(View[v]) \in {text, Shared}
    BY <1>2
  <1>4. Semantics!Becomes(v, Reverse(text))
    BY <1>1, AbstractFacts
  <1>5. Semantics!Transform(v)
    BY <1>3, <1>4 DEF Semantics!Transform, Semantics!Reverse, Reverse, View
  <1> QED
    BY <1>5, AbstractFacts DEF Semantics!Next


-----------------------------------------------------------------------------
(* The actions of Values, one by one.                                      *)
LEMMA NoneHeld ==
  ASSUME NEW c \in Stores, WellFormed(c), Stored(c) = {}
  PROVE  c.strings = FALSE /\ \A i \in Nat, s \in Strings : ~ Holds(c, i, s)
  <1>1. \A i \in Nat, s \in Strings : ~ Holds(c, i, s)
    BY HeldStored DEF WellFormed
  <1> QED
    BY <1>1, StoreFields DEF WellFormed

LEMMA OneOf ==
  ASSUME NEW c, c.size = 1, NEW x
  PROVE  [j \in 1..c.size |-> IF j = 1 THEN x ELSE ItemOf(c.cells[j])] = <<x>>
  <1>1. \A j \in 1..1 : (IF j = 1 THEN x ELSE ItemOf(c.cells[j])) = x
    OBVIOUS
  <1>2. [j \in 1..c.size |-> IF j = 1 THEN x ELSE ItemOf(c.cells[j])] = [j \in 1..1 |-> x]
    BY <1>1
  <1> QED
    BY <1>2

LEMMA OneItem ==
  ASSUME NEW c, c.size = 1, NEW x, ItemOf(c.cells[1]) = x
  PROVE  ItemsOf(c) = <<x>>
  <1>1. ItemsOf(c) = [j \in 1..1 |-> ItemOf(c.cells[j])]
    BY DEF ItemsOf
  <1>2. \A j \in 1..1 : ItemOf(c.cells[j]) = x
    OBVIOUS
  <1>3. ItemsOf(c) = [j \in 1..1 |-> x]
    BY <1>1, <1>2
  <1> QED
    BY <1>3

LEMMA OneShown ==
  ASSUME NEW v \in Values, NEW c, c.size = 1, Shows(v, c, 1)
  PROVE  Assigned(v)
  <1>1. PICK x \in Storable : Tells(v, [j \in 1..c.size |-> IF j = 1 THEN x ELSE ItemOf(c.cells[j])])
    BY DEF Shows
  <1>2. Tells(v, <<x>>)
    BY <1>1, OneOf
  <1> QED
    BY <1>2 DEF Assigned

LEMMA ItemOfPlain == \A x : ItemOf(Plain(x)) = x
BY CellFacts DEF ItemOf

LEMMA PutIs ==
  ASSUME NEW c \in Stores, NEW i, NEW k
  PROVE  [c EXCEPT !.cells[i] = k] = Put(c, i, k, c.strings)
  <1> DEFINE cells == [c.cells EXCEPT ![i] = k]
  <1>1. [c EXCEPT !.cells[i] = k] = [c EXCEPT !.cells = cells]
    BY DEF Stores
  <1> HIDE DEF cells
  <1>2. [c EXCEPT !.cells = cells] = [cells |-> cells, size |-> c.size, strings |-> c.strings]
    BY DEF Stores
  <1>3. Put(c, i, k, c.strings) = [cells |-> cells, size |-> c.size, strings |-> c.strings]
    BY DEF Put, cells
  <1> QED
    BY <1>1, <1>2, <1>3

LEMMA ConstructStep ==
  ASSUME IInv, NEW v \in Values, Construct(v)
  PROVE  IInv' /\ Semantics!Next
  <1>1. value[v] = Absent /\ \A i, s : ~ Holds(value[v], i, s)
    BY DEF Construct, Here, Holds
  <1>2. CASE /\ \E c \in {Empty} \cup {Single(x) : x \in Words} : Becomes(v, c)
             /\ UNCHANGED <<memory, copied>>
    <2>1. CASE Becomes(v, Empty)
      <3>1. PICK d : d = Empty
        OBVIOUS
      <3>2. d \in Stores /\ WellFormed(d) /\ (\A i, s : ~ Holds(d, i, s)) /\ ItemsOf(d) = <<>>
        BY <3>1, StoresMade DEF ItemsOf
      <3>3. value' = [value EXCEPT ![v] = d] /\ UNCHANGED <<memory, copied>>
        BY <1>2, <2>1, <3>1 DEF Becomes
      <3>4. IInv' /\ Tells(v, <<>>)
        BY <1>1, <3>2, <3>3, Settled
      <3> QED
        BY <3>4, AbstractAssign DEF Assigned
    <2>2. ASSUME NEW x \in Words, Becomes(v, Single(x)) PROVE IInv' /\ Semantics!Next
      <3>1. PICK d : d = Single(x)
        OBVIOUS
      <3>2. d \in Stores /\ WellFormed(d) /\ (\A i, s : ~ Holds(d, i, s)) /\ d.size = 1 /\ d.cells[1] = Plain(x)
        BY <3>1, StoresMade
      <3>3. ItemsOf(d) = <<x>>
        BY <3>2, ItemOfPlain, OneItem
      <3>4. value' = [value EXCEPT ![v] = d] /\ UNCHANGED <<memory, copied>>
        BY <1>2, <2>2, <3>1 DEF Becomes
      <3>5. IInv' /\ Tells(v, <<x>>)
        BY <1>1, <3>2, <3>3, <3>4, Settled
      <3>6. x \in Storable
        BY DEF Storable
      <3> QED
        BY <3>5, <3>6, AbstractAssign DEF Assigned
    <2> QED
      BY <1>2, <2>1, <2>2
  <1>3. ASSUME NEW text \in Texts, PutString(v, Single(Wild), 1, text, FALSE)
        PROVE  IInv' /\ Semantics!Next
    <2>1. PICK c : c = Single(Wild)
      OBVIOUS
    <2>2. c \in Stores /\ c.size <= Len(c.cells) /\ (\A i, s : ~ Holds(c, i, s)) /\ c.size = 1
      BY <2>1, StoresMade DEF WellFormed
    <2>3. PICK i \in 1..c.size : i = 1
      BY <2>2
    <2>4. PutString(v, c, i, text, FALSE)
      BY <1>3, <2>1, <2>3
    <2>5. \A j \in 1..c.size : j # i => c.cells[j].data # Wild
      BY <2>2, <2>3
    <2>6. IInv' /\ Shows(v, c, i)
      BY <1>1, <2>2, <2>4, <2>5, PutFresh
    <2>7. Assigned(v)
      BY <2>2, <2>3, <2>6, OneShown
    <2> QED
      BY <2>6, <2>7, AbstractAssign
  <1> QED
    BY <1>2, <1>3 DEF Construct

(* copy() to a value that holds no strings.                                *)
LEMMA Copying ==
  ASSUME IInv, NEW v \in Values, NEW w \in Here, NEW c \in Stores, c.size <= Len(c.cells),
         \A i \in Nat, s \in Strings : ~ Holds(value[v], i, s),
         value' = [value EXCEPT ![v] = Copied(c, value[w])],
         copied' = copied \cup Pointers(value[w]), UNCHANGED memory
  PROVE  IInv' /\ Semantics!Next
  <1>1. w \in Values /\ value[w] # Absent /\ value[w] \in Stores /\ WellFormed(value[w])
    BY HereFacts DEF Here
  <1>2. PICK e \in Stores : e = value[w]
    BY <1>1
  <1>3. PICK d : d = Copied(c, e)
    OBVIOUS
  <1>4. e.size <= Len(e.cells) /\ WellFormed(e) /\ FormInv /\ OwnInv
    BY <1>1, <1>2 DEF WellFormed, IInv
  <1>5. /\ d \in Stores /\ WellFormed(d) /\ d.size = e.size /\ d.strings = e.strings /\ d # Absent
        /\ \A j \in 1..e.size : d.cells[j] = e.cells[j]
        /\ \A i \in Nat, s \in Strings : Holds(d, i, s) <=> Holds(e, i, s)
    BY <1>3, <1>4, CopiedFacts, StoreFields
  <1>6. \A s : s \in copied' <=> s \in copied \/ (s \in Strings /\ \E i \in Nat : Holds(e, i, s))
    BY <1>2, <1>4, HeldStored
  <1>7. value' = [value EXCEPT ![v] = d] /\ copied \subseteq copied'
    BY <1>2, <1>3, <1>6
  <1>8. FormInv'
    <2>1. copied' \in SUBSET Strings
      BY <1>4, <1>6 DEF FormInv
    <2> QED
      BY <1>4, <1>5, <1>7, <2>1 DEF FormInv, WellFormed, Holds
  <1>9. OwnInv'
    <2>1. ~ (value[v] # Absent /\ value[v].strings)
      BY <1>4 DEF FormInv, WellFormed
    <2>2. \A i \in Nat, s \in Strings : Holds(d, i, s) => s \in copied'
      BY <1>5, <1>6
    <2> QED
      BY <1>4, <1>5, <1>7, <2>1, <2>2, OwnKeep, Zenon
  <1>10. value'[v] = d /\ \A u \in Values \ {v} : value'[u] = value[u]
    BY <1>4, <1>7 DEF FormInv
  <1>11. PICK seq : seq = [i \in 1..e.size |-> Given(ItemOf(e.cells[i]))]
    OBVIOUS
  <1>12. ASSUME NEW i \in 1..e.size
         PROVE  /\ Item(memory', copied', e.cells[i]) = Given(ItemOf(e.cells[i]))
                /\ ItemOf(e.cells[i]) \in Texts <=>
                     e.cells[i].data \in Strings \ copied /\ Holds(e, i, e.cells[i].data)
    <2>1. i \in Nat /\ \A s \in Strings : Holds(value[w], i, s) => s \in copied'
      BY <1>2, <1>6
    <2>2. i \in 1..value[w].size /\ UNCHANGED memory /\ copied \subseteq copied'
      BY <1>2, <1>7
    <2>3. /\ Item(memory', copied', value[w].cells[i]) = Given(ItemOf(value[w].cells[i]))
          /\ ItemOf(value[w].cells[i]) \in Texts <=>
               value[w].cells[i].data \in Strings \ copied /\ Holds(value[w], i, value[w].cells[i].data)
      BY ONLY IInv, <1>1, <2>1, <2>2, ItemGiven
    <2> QED
      BY ONLY <1>2, <2>3
  <1>13. Contents(v)' = seq
    <2>1. Contents(v)' = [i \in 1..d.size |-> Item(memory', copied', d.cells[i])]
      <3>1. d # Absent /\ value'[v] = d
        BY <1>5, <1>10
      <3> QED
        BY ONLY v \in Values, <3>1, ContentsAfter
    <2>2. \A i \in 1..e.size : Item(memory', copied', d.cells[i]) = Given(ItemOf(e.cells[i]))
      BY <1>5, <1>12
    <2> QED
      BY ONLY <1>5, <1>11, <2>1, <2>2
  <1>14. Contents(w)' = seq
    <2>1. CASE w = v
      BY <1>13, <2>1
    <2>2. CASE w # v
      <3>1. value'[w] = e /\ e # Absent
        BY <1>1, <1>2, <1>10, <2>2
      <3>2. Contents(w)' = [i \in 1..e.size |-> Item(memory', copied', e.cells[i])]
        BY ONLY <1>1, <3>1, ContentsAfter
      <3> QED
        BY <1>11, <1>12, <3>2
    <2> QED
      BY <2>1, <2>2
  <1>15. \A u \in Values \ {v, w} : Contents(u)' = Contents(u)
    <2>1. \A s \in copied' \ copied : \E i \in Nat : Holds(value[w], i, s)
      BY <1>2, <1>6
    <2> QED
      BY <1>1, <1>7, <2>1, OthersUnaware
  <1>16. View' = [u \in Values |-> IF u \in {v, w} THEN seq ELSE View[u]]
    <2>1. \A u \in Values : Contents(u)' = IF u \in {v, w} THEN seq ELSE View[u]
      BY <1>13, <1>14, <1>15, HereFacts
    <2> QED
      BY <2>1 DEF View
  <1>17. copied' # {} <=> copied # {} \/ \E i \in 1..e.size : ItemOf(e.cells[i]) \in Texts
    <2>1. ASSUME NEW s, s \in copied', copied = {} PROVE \E i \in 1..e.size : ItemOf(e.cells[i]) \in Texts
      <3>1. PICK i \in Nat : s \in Strings /\ Holds(e, i, s)
        BY <1>6, <2>1
      <3>2. i \in 1..e.size /\ e.cells[i].data = s
        BY <3>1 DEF Holds
      <3> QED
        BY <1>12, <2>1, <3>1, <3>2
    <2>2. ASSUME NEW i \in 1..e.size, ItemOf(e.cells[i]) \in Texts PROVE copied' # {}
      <3>1. i \in Nat /\ e.cells[i].data \in Strings /\ Holds(e, i, e.cells[i].data)
        BY <1>12, <2>2
      <3> QED
        BY <1>6, <3>1
    <2> QED
      BY <1>7, <2>1, <2>2
  <1>18. /\ seq = [i \in 1..value[w].size |-> Given(ItemOf(value[w].cells[i]))]
         /\ copied' # {} <=> copied # {} \/ \E i \in 1..value[w].size : ItemOf(value[w].cells[i]) \in Texts
    BY ONLY <1>2, <1>11, <1>17, Zenon
  <1>19. Semantics!Next
    BY ONLY IInv, v \in Values, w \in Here, <1>16, <1>18, AbstractCopy
  <1> QED
    BY <1>8, <1>9, <1>19 DEF IInv

LEMMA CopyConstructStep ==
  ASSUME IInv, NEW v \in Values, NEW w \in Values, CopyConstruct(v, w)
  PROVE  IInv' /\ Semantics!Next
  <1>1. value[v] = Absent /\ w \in Here
    BY DEF CopyConstruct, Here
  <1>2. \A i \in Nat, s \in Strings : ~ Holds(value[v], i, s)
    BY <1>1 DEF Holds
  <1>3. PICK c \in Stores : c = Single(Wild) /\ c.size <= Len(c.cells)
    BY StoresMade DEF WellFormed
  <1>4. /\ value' = [value EXCEPT ![v] = Copied(c, value[w])]
        /\ copied' = copied \cup Pointers(value[w]) /\ UNCHANGED memory
    BY <1>3 DEF CopyConstruct, Becomes
  <1> QED
    BY <1>1, <1>2, <1>3, <1>4, Copying

LEMMA AssignValueStep ==
  ASSUME IInv, Disciplined, NEW v \in Here, NEW w \in Here, AssignValue(v, w)
  PROVE  IInv' /\ Semantics!Next
  <1>1. /\ v \in Values /\ value[v] \in Stores /\ WellFormed(value[v])
        /\ value[v].size <= Len(value[v].cells)
    BY HereFacts DEF Here
  <1>2. Stored(value[v]) = {}
    BY DEF AssignValue, MayDrop, Disciplined, CallerRules
  <1>3. \A i \in Nat, s \in Strings : ~ Holds(value[v], i, s)
    BY <1>1, <1>2, NoneHeld
  <1>4. /\ value' = [value EXCEPT ![v] = Copied(value[v], value[w])]
        /\ copied' = copied \cup Pointers(value[w]) /\ UNCHANGED memory
    BY DEF AssignValue, Becomes
  <1> QED
    BY <1>1, <1>3, <1>4, Copying

LEMMA DestroyStep ==
  ASSUME IInv, NEW v \in Here, Destroy(v)
  PROVE  IInv' /\ Semantics!Next
  <1>1. v \in Values /\ value[v] # Absent /\ \A i, s : ~ Holds(Absent, i, s)
    BY DEF Here, Holds
  <1>2. IInv' /\ Tells(v, Absent)
    BY <1>1, Dropped DEF Destroy, Becomes
  <1>3. Semantics!Destroy(v) /\ v \in Semantics!Here
    BY <1>1, <1>2, AbstractFacts DEF Semantics!Destroy
  <1> QED
    BY <1>2, <1>3 DEF Semantics!Next

LEMMA ClearStep ==
  ASSUME IInv, NEW v \in Here, Clear(v)
  PROVE  IInv' /\ Semantics!Next
  <1>1. v \in Values /\ value[v] # Absent
    BY DEF Here
  <1>2. /\ Empty \in Stores /\ Empty # Absent /\ WellFormed(Empty) /\ Empty.size = 0
        /\ \A i, s : ~ Holds(Empty, i, s)
    BY StoresMade, StoreFields
  <1>3. IInv' /\ Tells(v, [i \in 1..Empty.size |-> Empty.cells[i].data])
    BY <1>1, <1>2, Dropped DEF Clear, Becomes
  <1>4. [i \in 1..Empty.size |-> Empty.cells[i].data] = <<>>
    BY <1>2
  <1> QED
    BY <1>1, <1>3, <1>4, AbstractAssign DEF Assigned

LEMMA AssignStep ==
  ASSUME IInv, Disciplined, NEW v \in Here, NEW x \in Words, Assign(v, x)
  PROVE  IInv' /\ Semantics!Next
  <1>1. v \in Values /\ value[v] \in Stores /\ WellFormed(value[v])
    BY HereFacts DEF Here
  <1>2. Stored(value[v]) = {}
    BY DEF Assign, MayDrop, Disciplined, CallerRules
  <1>3. PICK b \in Stores : b = value[v] /\ b.size <= Len(b.cells)
    BY <1>1 DEF WellFormed
  <1>4. b.strings = FALSE /\ \A i \in Nat, s \in Strings : ~ Holds(b, i, s)
    BY <1>1, <1>2, <1>3, NoneHeld
  <1>5. PICK c : c = Resized(b, 1, Plain(Wild))
    OBVIOUS
  <1>6. /\ c \in Stores /\ c.size = 1 /\ 1 <= Len(c.cells) /\ c.strings = FALSE
        /\ \A i \in Nat, s \in Strings : ~ Holds(c, i, s)
    <2>1. PICK n \in 0..MaxSize, new \in Unwritten : n = 1 /\ new = Plain(Wild)
      BY DEF Unwritten
    <2>2. c = Resized(b, n, new) /\ \A i \in Nat, s \in Strings : Holds(b, i, s) => i <= n
      BY <1>4, <1>5, <2>1
    <2> QED
      BY <1>3, <1>4, <2>1, <2>2, ResizedFacts
  <1>7. PICK k \in Cell, flag \in BOOLEAN, i \in 1..c.size : k = Plain(x) /\ flag = FALSE /\ i = 1
    <2>1. Plain(x) \in Cell /\ 1 \in 1..c.size
      BY <1>6, CellFacts
    <2> QED
      BY <2>1
  <1>8. PICK d : d = Put(c, i, k, flag)
    OBVIOUS
  <1>9. /\ d \in Stores /\ d.size = 1 /\ d.size <= Len(d.cells) /\ d.strings = FALSE
        /\ d.cells[1] = Plain(x) /\ \A j \in Nat, s \in Strings : ~ Holds(d, j, s)
    <2>1. c.size <= Len(c.cells) /\ k.type # "string"
      BY <1>6, <1>7, CellFacts
    <2>2. /\ d \in Stores /\ d.size = c.size /\ d.size <= Len(d.cells) /\ d.strings = flag
          /\ \A j \in 1..c.size : d.cells[j] = IF j = i THEN k ELSE c.cells[j]
          /\ \A j \in Nat, s \in Strings :
               Holds(d, j, s) <=> IF j = i THEN k.type = "string" /\ k.data = s ELSE Holds(c, j, s)
      BY ONLY i \in 1..c.size, k \in Cell, flag \in BOOLEAN, <1>6, <1>8, <2>1, CellWritten
    <2> QED
      BY <1>6, <1>7, <2>1, <2>2
  <1>10. value' = [value EXCEPT ![v] = d] /\ UNCHANGED <<memory, copied>>
    <2>1. [c EXCEPT !.cells[i] = k] = d
      BY <1>6, <1>7, <1>8, PutIs
    <2> QED
      BY <1>3, <1>5, <1>7, <2>1 DEF Assign, Becomes
  <1>11. IInv' /\ Tells(v, ItemsOf(d))
    <2>1. WellFormed(d)
      BY <1>9 DEF WellFormed
    <2> QED
      BY <1>1, <1>3, <1>4, <1>9, <1>10, <2>1, Settled
  <1>12. ItemsOf(d) = <<x>> /\ x \in Storable
    BY <1>9, ItemOfPlain, OneItem DEF Storable
  <1>13. Assigned(v)
    BY <1>11, <1>12 DEF Assigned
  <1> QED
    BY <1>1, <1>11, <1>13, AbstractAssign

LEMMA SetStep ==
  ASSUME IInv, Disciplined, NEW v \in Here, NEW x \in Words, Set(v, x)
  PROVE  IInv' /\ Semantics!Next
  <1>1. v \in Values /\ value[v] \in Stores /\ WellFormed(value[v])
    BY HereFacts DEF Here
  <1>2. PICK c \in Stores : c = value[v] /\ c.size <= Len(c.cells)
    BY <1>1 DEF WellFormed
  <1>3. PICK i \in 1..c.size :
          /\ Stored(c) \subseteq (1..c.size) \ {i}
          /\ Becomes(v, [c EXCEPT !.cells[i] = Plain(x)])
    BY <1>2 DEF Set, Indices, MayDrop, Disciplined, CallerRules
  <1>4. PICK k \in Cell, flag \in BOOLEAN :
          k = Plain(x) /\ k.type # "string" /\ k.data # Wild /\ flag = c.strings
    BY CellFacts, StoreFields
  <1>5. PICK d : d = Put(c, i, k, flag)
    OBVIOUS
  <1>6. /\ d \in Stores /\ d.size = c.size /\ d.size <= Len(d.cells) /\ d.strings = flag
        /\ \A j \in 1..c.size : d.cells[j] = IF j = i THEN k ELSE c.cells[j]
        /\ \A j \in Nat, s \in Strings :
             Holds(d, j, s) <=> IF j = i THEN k.type = "string" /\ k.data = s ELSE Holds(c, j, s)
    BY ONLY c \in Stores, i \in 1..c.size, k \in Cell, flag \in BOOLEAN, <1>2, <1>5, CellWritten
  <1>7. \A j \in Nat, s \in Strings : Holds(d, j, s) <=> Holds(c, j, s)
    <2>1. \A s \in Strings : ~ Holds(c, i, s)
      <3>1. i \in Nat /\ i \notin Stored(c)
        BY <1>3
      <3> QED
        BY <1>2, <3>1, HeldStored
    <2> QED
      BY <1>4, <1>6, <2>1
  <1>8. WellFormed(d)
    <2>1. WellFormed(c)
      BY <1>1, <1>2
    <2>2. c.strings => \A j \in 1..d.size : d.cells[j].data # Wild
      BY <1>4, <1>6, <2>1 DEF WellFormed
    <2> QED
      BY <1>4, <1>6, <1>7, <2>1, <2>2 DEF WellFormed
  <1>9. value' = [value EXCEPT ![v] = d] /\ UNCHANGED <<memory, copied>>
    <2>1. [c EXCEPT !.cells[i] = Plain(x)] = d
      BY <1>4, <1>5, PutIs
    <2> QED
      BY <1>3, <2>1 DEF Set, Becomes
  <1>10. IInv' /\ Tells(v, ItemsOf(d))
    BY <1>1, <1>2, <1>4, <1>6, <1>7, <1>8, <1>9, Settled
  <1>11. ItemsOf(d) = [j \in 1..c.size |-> IF j = i THEN x ELSE ItemOf(c.cells[j])]
    BY <1>4, <1>6, ItemOfPlain DEF ItemsOf
  <1>12. Tells(v, [j \in 1..c.size |-> IF j = i THEN x ELSE ItemOf(c.cells[j])])
    BY ONLY <1>10, <1>11
  <1>13. Tells(v, [j \in 1..value[v].size |-> IF j = i THEN x ELSE ItemOf(value[v].cells[j])])
    BY ONLY <1>2, <1>12
  <1>14. i \in 1..value[v].size /\ x \in Storable
    BY <1>2 DEF Storable
  <1>15. Semantics!Next
    BY ONLY IInv, v \in Here, <1>13, <1>14, AbstractSet
  <1> QED
    BY <1>10, <1>15

(* The store that append() has made when it calls set() or writes a string.*)
LEMMA Grown ==
  ASSUME IInv, NEW v \in Here, value[v].size < MaxSize, NEW n, n = value[v].size + 1,
         NEW new \in Unwritten, NEW c, c = Resized(value[v], n, new)
  PROVE  /\ c \in Stores /\ c.size = n /\ c.size <= Len(c.cells) /\ c.strings = value[v].strings
         /\ n \in 1..c.size /\ n \in Nat /\ \A s \in Strings : ~ Holds(c, n, s)
         /\ \A j \in 1..n : j # n => j \in 1..value[v].size /\ c.cells[j] = value[v].cells[j]
         /\ \A i \in Nat, s \in Strings : Holds(c, i, s) <=> Holds(value[v], i, s)
         /\ c.strings => \A j \in 1..n : j # n => c.cells[j].data # Wild
  <1>1. v \in Values /\ value[v] \in Stores /\ WellFormed(value[v])
    BY HereFacts DEF Here
  <1>2. PICK b \in Stores : b = value[v] /\ b.size <= Len(b.cells)
    BY <1>1 DEF WellFormed
  <1>3. b.size \in Nat /\ n \in 0..MaxSize /\ n \in Nat /\ n > b.size
    BY <1>2, StoreFields
  <1>4. \A i \in Nat, s \in Strings : Holds(b, i, s) => i <= n /\ i # n
    BY <1>3 DEF Holds
  <1>5. /\ c \in Stores /\ c.size = n /\ n <= Len(c.cells) /\ c.strings = b.strings
        /\ \A j \in 1..n : c.cells[j] = IF j <= b.size THEN b.cells[j] ELSE new
        /\ \A i \in Nat, s \in Strings : Holds(c, i, s) <=> Holds(b, i, s)
    BY <1>2, <1>3, <1>4, ResizedFacts
  <1>6. \A j \in 1..n : j # n => j \in 1..b.size /\ c.cells[j] = b.cells[j]
    BY <1>2, <1>3, <1>5
  <1>7. c.strings => \A j \in 1..n : j # n => c.cells[j].data # Wild
    BY <1>1, <1>2, <1>5, <1>6 DEF WellFormed
  <1>8. n \in 1..c.size
    BY <1>3, <1>5
  <1> QED
    BY <1>2, <1>3, <1>4, <1>5, <1>6, <1>7, <1>8

LEMMA AppendPlainStep ==
  ASSUME IInv, NEW v \in Here, NEW x \in Words, AppendPlain(v, x)
  PROVE  IInv' /\ Semantics!Next
  <1>1. v \in Values /\ value[v].size < MaxSize /\ value[v] \in Stores /\ WellFormed(value[v])
    BY HereFacts DEF Here, AppendPlain
  <1>2. PICK n : n = value[v].size + 1
    OBVIOUS
  <1>3. PICK c : c = Resized(value[v], n, Plain(Wild))
    OBVIOUS
  <1>4. /\ c \in Stores /\ c.size = n /\ c.size <= Len(c.cells) /\ c.strings = value[v].strings
        /\ n \in 1..c.size /\ n \in Nat /\ \A s \in Strings : ~ Holds(c, n, s)
        /\ \A j \in 1..n : j # n => j \in 1..value[v].size /\ c.cells[j] = value[v].cells[j]
        /\ \A i \in Nat, s \in Strings : Holds(c, i, s) <=> Holds(value[v], i, s)
        /\ c.strings => \A j \in 1..n : j # n => c.cells[j].data # Wild
    <2>1. PICK new \in Unwritten : new = Plain(Wild)
      BY DEF Unwritten
    <2> QED
      BY <1>1, <1>2, <1>3, <2>1, Grown
  <1>5. PICK k \in Cell, flag \in BOOLEAN, i \in 1..c.size :
          k = Plain(x) /\ k.type # "string" /\ k.data # Wild /\ flag = c.strings /\ i = n
    BY <1>4, CellFacts, StoreFields
  <1>6. PICK d : d = Put(c, i, k, flag)
    OBVIOUS
  <1>7. /\ d \in Stores /\ d.size = c.size /\ d.size <= Len(d.cells) /\ d.strings = flag
        /\ \A j \in 1..c.size : d.cells[j] = IF j = i THEN k ELSE c.cells[j]
        /\ \A j \in Nat, s \in Strings :
             Holds(d, j, s) <=> IF j = i THEN k.type = "string" /\ k.data = s ELSE Holds(c, j, s)
    <2>1. c \in Stores /\ c.size <= Len(c.cells)
      BY <1>4
    <2> QED
      BY ONLY i \in 1..c.size, k \in Cell, flag \in BOOLEAN, <1>6, <2>1, CellWritten
  <1>8. \A j \in Nat, s \in Strings : Holds(d, j, s) <=> Holds(value[v], j, s)
    BY <1>4, <1>5, <1>7
  <1>9. WellFormed(d)
    <2>1. c.strings => \A j \in 1..d.size : d.cells[j].data # Wild
      BY <1>4, <1>5, <1>7
    <2> QED
      BY <1>1, <1>4, <1>5, <1>7, <1>8, <2>1 DEF WellFormed
  <1>10. value' = [value EXCEPT ![v] = d] /\ UNCHANGED <<memory, copied>>
    <2>1. [c EXCEPT !.cells[i] = k] = d
      BY <1>4, <1>5, <1>6, PutIs
    <2> QED
      BY <1>2, <1>3, <1>4, <1>5, <2>1 DEF AppendPlain, Becomes
  <1>11. IInv' /\ Tells(v, ItemsOf(d))
    BY <1>1, <1>4, <1>5, <1>7, <1>8, <1>9, <1>10, Settled
  <1>12. PICK seq : seq = [j \in 1..n |-> IF j = n THEN x ELSE ItemOf(value[v].cells[j])]
    OBVIOUS
  <1>13. ItemsOf(d) = seq
    BY <1>4, <1>5, <1>7, <1>12, ItemOfPlain DEF ItemsOf
  <1>14. Tells(v, seq) /\ x \in Storable
    BY <1>11, <1>13 DEF Storable
  <1>15. Semantics!Next
    BY <1>1, <1>2, <1>12, <1>14, AbstractAppend
  <1> QED
    BY <1>11, <1>15

LEMMA AssignStringStep ==
  ASSUME IInv, Disciplined, NEW v \in Here, NEW text \in Texts, AssignString(v, text)
  PROVE  IInv' /\ Semantics!Next
  <1>1. v \in Values /\ value[v] \in Stores /\ WellFormed(value[v]) /\ value[v] # Absent
    BY HereFacts DEF Here
  <1>2. PICK b \in Stores : b = value[v] /\ b.size <= Len(b.cells)
    BY <1>1 DEF WellFormed
  <1>3. Stored(b) \subseteq {1} /\ 1 \in 1..b.size /\ b.cells[1].data # Wild
    BY <1>2 DEF AssignString, MayDrop, Written, Disciplined, CallerRules
  <1>4. PICK new \in Unwritten :
          LET c == Resized(b, 1, new)
          IN  PutString(v, c, 1, text, c.strings \/ c.cells[1].type = "string")
    BY <1>2 DEF AssignString
  <1>5. PICK c : c = Resized(b, 1, new)
    OBVIOUS
  <1>6. /\ c \in Stores /\ c.size = 1 /\ c.size <= Len(c.cells) /\ c.strings = b.strings
        /\ c.cells[1] = b.cells[1]
        /\ \A i \in Nat, s \in Strings : Holds(c, i, s) <=> Holds(b, i, s)
    <2>1. PICK n \in 0..MaxSize : n = 1
      OBVIOUS
    <2>2. \A i \in Nat, s \in Strings : Holds(b, i, s) => i <= n
      BY <1>2, <1>3, <2>1, HeldStored
    <2>3. /\ c \in Stores /\ c.size = n /\ n <= Len(c.cells) /\ c.strings = b.strings
          /\ \A j \in 1..n : c.cells[j] = IF j <= b.size THEN b.cells[j] ELSE new
          /\ \A i \in Nat, s \in Strings : Holds(c, i, s) <=> Holds(b, i, s)
      BY <1>2, <1>5, <2>1, <2>2, ResizedFacts
    <2>4. b.size \in Nat
      BY StoreFields
    <2> QED
      BY <1>3, <2>1, <2>3, <2>4
  <1>7. PICK i \in 1..c.size : i = 1
    BY <1>6
  <1>8. PICK there : there = (c.strings \/ c.cells[1].type = "string")
    OBVIOUS
  <1>9. PutString(v, c, i, text, there)
    BY <1>4, <1>5, <1>7, <1>8
  <1>10. c.strings => c.cells[1].type = "string"
    <2> SUFFICES ASSUME b.strings PROVE b.cells[1].type = "string"
      BY <1>6
    <2>1. PICK j \in Nat, s \in Strings : Holds(b, j, s)
      BY <1>1, <1>2 DEF WellFormed
    <2>2. j = 1
      BY <1>2, <1>3, <2>1, HeldStored
    <2> QED
      BY <2>1, <2>2 DEF Holds
  <1>11. IInv' /\ Shows(v, c, i)
    <2>1. \A j \in 1..c.size : c.cells[j].data # Wild
      BY <1>3, <1>6
    <2>2. \A j \in Nat, r \in Strings : Holds(c, j, r) <=> Holds(value[v], j, r)
      BY <1>2, <1>6
    <2>3. CASE c.cells[1].type = "string"
      <3>1. PutString(v, c, i, text, TRUE) /\ c.cells[i].type = "string"
        BY <1>7, <1>8, <1>9, <2>3
      <3> QED
        BY <1>1, <1>6, <2>1, <2>2, <3>1, PutInPlace
    <2>4. CASE c.cells[1].type # "string"
      <3>1. there = FALSE
        BY <1>6, <1>8, <1>10, <2>4, StoreFields
      <3>2. PutString(v, c, i, text, FALSE) /\ \A r \in Strings : ~ Holds(c, i, r)
        BY <1>7, <1>9, <2>4, <3>1 DEF Holds
      <3> QED
        BY <1>1, <1>6, <2>1, <2>2, <3>2, PutFresh
    <2> QED
      BY <2>3, <2>4
  <1>12. Assigned(v)
    BY <1>1, <1>6, <1>7, <1>11, OneShown
  <1> QED
    BY <1>1, <1>11, <1>12, AbstractAssign

LEMMA SetStringStep ==
  ASSUME IInv, Disciplined, NEW v \in Here, NEW text \in Texts, SetString(v, text)
  PROVE  IInv' /\ Semantics!Next
  <1>1. v \in Values /\ value[v] \in Stores /\ WellFormed(value[v]) /\ value[v] # Absent
    BY HereFacts DEF Here
  <1>2. PICK c \in Stores : c = value[v] /\ c.size <= Len(c.cells)
    BY <1>1 DEF WellFormed
  <1>3. PICK i \in 1..c.size : PutString(v, c, i, text, InPlace(c, i))
    BY <1>2 DEF SetString, Indices, Disciplined, CallerRules
  <1>4. \A j \in 1..c.size : c.cells[j].data # Wild
    <2>1. Written(c) = 1..c.size
      BY <1>2 DEF SetString, MayJoin, Disciplined, CallerRules
    <2> QED
      BY <2>1 DEF Written
  <1>5. \A j \in Nat, r \in Strings : Holds(c, j, r) <=> Holds(value[v], j, r)
    BY <1>2
  <1>6. PICK there : there = InPlace(c, i)
    OBVIOUS
  <1>7. PutString(v, c, i, text, there)
    BY <1>3, <1>6
  <1>8. IInv' /\ Shows(v, c, i)
    <2>1. CASE c.strings /\ c.cells[i].type = "string"
      <3>1. there = TRUE
        BY <1>6, <2>1 DEF InPlace
      <3>2. PutString(v, c, i, text, TRUE)
        BY <1>7, <3>1
      <3> QED
        BY <1>1, <1>2, <1>4, <1>5, <2>1, <3>2, PutInPlace
    <2>2. CASE ~ (c.strings /\ c.cells[i].type = "string")
      <3>1. there = FALSE
        BY <1>6, <2>2 DEF InPlace
      <3>2. PutString(v, c, i, text, FALSE)
        BY <1>7, <3>1
      <3>3. value[v] # Absent /\ value[v].strings => \A r \in Strings : ~ Holds(c, i, r)
        BY <1>2, <2>2 DEF Holds
      <3> QED
        BY <1>1, <1>2, <1>4, <1>5, <3>2, <3>3, PutFresh
    <2> QED
      BY <2>1, <2>2
  <1>9. PICK x \in Storable : Tells(v, [j \in 1..c.size |-> IF j = i THEN x ELSE ItemOf(c.cells[j])])
    BY <1>8 DEF Shows
  <1>10. Tells(v, [j \in 1..value[v].size |-> IF j = i THEN x ELSE ItemOf(value[v].cells[j])])
    BY ONLY <1>2, <1>9
  <1>11. i \in 1..value[v].size
    BY <1>2
  <1>12. Semantics!Next
    BY ONLY IInv, v \in Here, x \in Storable, <1>10, <1>11, AbstractSet
  <1> QED
    BY <1>8, <1>12

LEMMA AppendStringStep ==
  ASSUME IInv, Disciplined, NEW v \in Here, NEW text \in Texts, AppendString(v, text)
  PROVE  IInv' /\ Semantics!Next
  <1>1. v \in Values /\ value[v].size < MaxSize /\ value[v] \in Stores /\ WellFormed(value[v])
    BY HereFacts DEF Here, AppendString
  <1>2. PICK n : n = value[v].size + 1
    OBVIOUS
  <1>3. Written(value[v]) = 1..value[v].size /\ Stored(value[v]) = {}
    BY DEF AppendString, MayJoin, Disciplined, CallerRules
  <1>4. PICK new \in Unwritten :
          LET c == Resized(value[v], n, new)
          IN  PutString(v, c, c.size, text, InPlace(c, c.size))
    BY <1>2 DEF AppendString
  <1>5. PICK c : c = Resized(value[v], n, new)
    OBVIOUS
  <1>6. /\ c \in Stores /\ c.size = n /\ c.size <= Len(c.cells) /\ c.strings = value[v].strings
        /\ n \in 1..c.size /\ n \in Nat
        /\ \A j \in 1..n : j # n => j \in 1..value[v].size /\ c.cells[j] = value[v].cells[j]
        /\ \A i \in Nat, s \in Strings : Holds(c, i, s) <=> Holds(value[v], i, s)
    BY <1>1, <1>2, <1>5, Grown
  <1>7. value[v].strings = FALSE /\ c.strings = FALSE
    BY <1>1, <1>3, <1>6, NoneHeld
  <1>8. PICK i \in 1..c.size : i = n
    BY <1>6
  <1>9. PICK there : there = InPlace(c, i)
    OBVIOUS
  <1>10. there = FALSE
    BY <1>7, <1>9 DEF InPlace
  <1>11. PutString(v, c, i, text, there)
    BY <1>4, <1>5, <1>6, <1>8, <1>9
  <1>12. PutString(v, c, i, text, FALSE)
    BY <1>10, <1>11
  <1>13. \A j \in 1..c.size : j # i => c.cells[j].data # Wild
    BY <1>3, <1>6, <1>8 DEF Written
  <1>14. IInv' /\ Shows(v, c, i)
    BY <1>1, <1>6, <1>7, <1>12, <1>13, PutFresh
  <1>15. PICK x \in Storable : Tells(v, [j \in 1..c.size |-> IF j = i THEN x ELSE ItemOf(c.cells[j])])
    BY <1>14 DEF Shows
  <1>16. [j \in 1..c.size |-> IF j = i THEN x ELSE ItemOf(c.cells[j])]
           = [j \in 1..n |-> IF j = n THEN x ELSE ItemOf(value[v].cells[j])]
    BY <1>6, <1>8
  <1>17. PICK seq : seq = [j \in 1..n |-> IF j = n THEN x ELSE ItemOf(value[v].cells[j])]
    OBVIOUS
  <1>18. Tells(v, seq)
    BY <1>15, <1>16, <1>17
  <1>19. Semantics!Next
    BY <1>1, <1>2, <1>17, <1>18, AbstractAppend
  <1> QED
    BY <1>14, <1>19

LEMMA ResizeStep ==
  ASSUME IInv, Disciplined, NEW v \in Here, Resize(v)
  PROVE  IInv' /\ Semantics!Next
  <1>1. v \in Values /\ value[v] \in Stores /\ WellFormed(value[v])
    BY HereFacts DEF Here
  <1>2. PICK b \in Stores : b = value[v] /\ b.size <= Len(b.cells) /\ WellFormed(b) /\ b.size \in Nat
    BY <1>1, StoreFields DEF WellFormed
  <1>3. PICK n \in 0..MaxSize, new \in Unwritten :
          /\ Stored(b) \subseteq 1..n
          /\ n <= b.size \/ Stored(b) = {}
          /\ Becomes(v, Resized(b, n, new))
    BY <1>2 DEF Resize, MayDrop, Disciplined, CallerRules
  <1>4. PICK d : d = Resized(b, n, new)
    OBVIOUS
  <1>5. /\ d \in Stores /\ d.size = n /\ n <= Len(d.cells) /\ d.strings = b.strings
        /\ \A j \in 1..n : d.cells[j] = IF j <= b.size THEN b.cells[j] ELSE new
        /\ \A i \in Nat, s \in Strings : Holds(d, i, s) <=> Holds(b, i, s)
    <2>1. \A i \in Nat, s \in Strings : Holds(b, i, s) => i <= n
      BY <1>2, <1>3, HeldStored
    <2> QED
      BY <1>2, <1>4, <2>1, ResizedFacts
  <1>6. WellFormed(d)
    <2>1. CASE b.strings = FALSE
      BY <1>5, <2>1 DEF WellFormed
    <2>2. CASE b.strings = TRUE
      <3>1. n <= b.size
        BY <1>2, <1>3, <2>2, NoneHeld
      <3>2. \A j \in 1..n : j \in 1..b.size /\ d.cells[j] = b.cells[j]
        BY <1>2, <1>5, <3>1
      <3>3. \A j \in 1..b.size : b.cells[j].data # Wild
        BY <1>2, <2>2 DEF WellFormed
      <3> QED
        BY <1>2, <1>5, <2>2, <3>2, <3>3 DEF WellFormed
    <2> QED
      BY <2>1, <2>2, StoreFields
  <1>7. value' = [value EXCEPT ![v] = d] /\ UNCHANGED <<memory, copied>>
    BY <1>3, <1>4 DEF Becomes, Resize
  <1>8. IInv' /\ Tells(v, ItemsOf(d))
    BY <1>1, <1>2, <1>5, <1>6, <1>7, Settled
  <1>9. ItemOf(new) = Wild
    BY CellFacts DEF ItemOf
  <1>10. ItemsOf(d) = [j \in 1..n |-> IF j <= value[v].size THEN ItemOf(value[v].cells[j]) ELSE Wild]
    BY <1>2, <1>5, <1>9 DEF ItemsOf
  <1>11. Tells(v, [j \in 1..n |-> IF j <= value[v].size THEN ItemOf(value[v].cells[j]) ELSE Wild])
    BY <1>8, <1>10
  <1>12. Semantics!Next
    BY ONLY IInv, v \in Here, n \in 0..MaxSize, <1>11, AbstractResize
  <1> QED
    BY <1>8, <1>12

LEMMA AppendValueStep ==
  ASSUME IInv, Disciplined, NEW v \in Here, NEW w \in Here, AppendValue(v, w)
  PROVE  IInv' /\ Semantics!Next
  <1>1. /\ v \in Values /\ value[v].size < MaxSize /\ value[v] # Absent /\ value[v] \in Stores
        /\ WellFormed(value[v]) /\ FormInv /\ OwnInv
    BY HereFacts DEF Here, AppendValue, IInv
  <1>2. w \in Values /\ value[w] # Absent /\ value[w] \in Stores /\ value[w].size <= Len(value[w].cells)
    BY HereFacts DEF Here
  <1>3. PICK e \in Stores : e = value[w] /\ e.size <= Len(e.cells) /\ e.size \in Nat
    BY <1>2, StoreFields
  <1>4. 1 \in 1..e.size /\ e.cells[1].data # Wild
    BY <1>3 DEF AppendValue, Written, Disciplined, CallerRules
  <1>5. PICK n : n = value[v].size + 1
    OBVIOUS
  <1>6. PICK c : c = Resized(value[v], n, Plain(Wild))
    OBVIOUS
  <1>7. /\ c \in Stores /\ c.size = n /\ c.size <= Len(c.cells) /\ c.strings = value[v].strings
        /\ n \in 1..c.size /\ n \in Nat /\ \A s \in Strings : ~ Holds(c, n, s)
        /\ \A j \in 1..n : j # n => j \in 1..value[v].size /\ c.cells[j] = value[v].cells[j]
        /\ \A i \in Nat, s \in Strings : Holds(c, i, s) <=> Holds(value[v], i, s)
        /\ c.strings => \A j \in 1..n : j # n => c.cells[j].data # Wild
    <2>1. PICK new \in Unwritten : new = Plain(Wild)
      BY DEF Unwritten
    <2> QED
      BY <1>1, <1>5, <1>6, <2>1, Grown
  <1>8. PICK k : k = e.cells[1]
    OBVIOUS
  <1>9. k \in Cell /\ k.data # Wild
    BY <1>3, <1>4, <1>8, CellsWithin
  <1>10. (IF w = v THEN c ELSE value[w]).cells[1] = k
    <2>1. CASE w = v
      <3>1. 1 \in 1..n /\ 1 # n
        BY <1>3, <1>4, <1>5, <2>1
      <3> QED
        BY <1>3, <1>7, <1>8, <2>1, <3>1
    <2>2. CASE w # v
      BY <1>3, <1>8, <2>2
    <2> QED
      BY <2>1, <2>2
  <1>11. /\ Becomes(v, [c EXCEPT !.cells[n] = k]) /\ UNCHANGED memory
         /\ copied' = copied \cup {q.data : q \in {k} \cap {StringAt(s) : s \in Strings}}
    BY <1>5, <1>6, <1>7, <1>10 DEF AppendValue
  <1>12. \A s \in Strings : Holds(e, 1, s) <=> k.type = "string" /\ k.data = s
    BY <1>3, <1>4, <1>8, StoreFields DEF Holds
  <1>13. \A s : s \in copied' <=> s \in copied \/ (s \in Strings /\ Holds(e, 1, s))
    <2>1. k.type = "string" <=> k \in {StringAt(s) : s \in Strings}
      BY <1>9, CellFacts
    <2>2. k.type = "string" => k.data \in Strings
      BY <1>9, CellFacts
    <2>3. \A s : s \in copied' <=> s \in copied \/ (k.type = "string" /\ s = k.data)
      BY ONLY <1>11, <2>1
    <2> QED
      BY ONLY <1>12, <2>2, <2>3
  <1>14. PICK cell \in Cell, flag \in BOOLEAN, i \in 1..c.size : cell = k /\ flag = c.strings /\ i = n
    BY <1>7, <1>9, StoreFields
  <1>15. PICK d : d = Put(c, i, cell, flag)
    OBVIOUS
  <1>16. /\ d \in Stores /\ d.size = n /\ d.size <= Len(d.cells) /\ d.strings = value[v].strings
         /\ \A j \in 1..n : d.cells[j] = IF j = n THEN k ELSE c.cells[j]
         /\ \A j \in Nat, s \in Strings :
              Holds(d, j, s) <=> IF j = n THEN k.type = "string" /\ k.data = s ELSE Holds(value[v], j, s)
    <2>1. c \in Stores /\ c.size <= Len(c.cells)
      BY <1>7
    <2>2. /\ d \in Stores /\ d.size = c.size /\ d.size <= Len(d.cells) /\ d.strings = flag
          /\ \A j \in 1..c.size : d.cells[j] = IF j = i THEN cell ELSE c.cells[j]
          /\ \A j \in Nat, s \in Strings :
               Holds(d, j, s) <=> IF j = i THEN cell.type = "string" /\ cell.data = s ELSE Holds(c, j, s)
      BY ONLY i \in 1..c.size, cell \in Cell, flag \in BOOLEAN, <1>15, <2>1, CellWritten
    <2> QED
      BY <1>7, <1>14, <2>2
  <1>17. value' = [value EXCEPT ![v] = d]
    <2>1. [c EXCEPT !.cells[n] = k] = d
      BY <1>7, <1>14, <1>15, PutIs
    <2> QED
      BY <1>11, <2>1 DEF Becomes
  <1>18. \A j \in Nat, s \in Strings : Holds(value[v], j, s) => j # n
    BY <1>7
  <1>19. WellFormed(d)
    <2>1. d.strings => \A j \in 1..d.size : d.cells[j].data # Wild
      BY <1>7, <1>9, <1>16
    <2>2. d.strings => \E j \in Nat, s \in Strings : Holds(d, j, s)
      BY <1>1, <1>16, <1>18 DEF WellFormed
    <2> QED
      BY <1>16, <2>1, <2>2 DEF WellFormed
  <1>20. FormInv'
    <2>1. copied' \in SUBSET Strings
      BY <1>1, <1>13 DEF FormInv
    <2> QED
      BY <1>1, <1>11, <1>16, <1>17, <1>19, <2>1 DEF FormInv, WellFormed, Holds
  <1>21. copied \subseteq copied' /\ d # Absent /\ UNCHANGED memory
    BY <1>11, <1>13, <1>16, StoreFields
  <1>22. OwnInv'
    <2>1. \A j \in Nat, s \in Strings : Holds(d, j, s) => Holds(value[v], j, s) \/ s \in copied'
      BY <1>12, <1>13, <1>16
    <2>2. value[v].strings => d.strings /\ \A j \in Nat, s \in Strings : Holds(value[v], j, s) => Holds(d, j, s)
      BY <1>16, <1>18
    <2>3. \A s \in Strings : memory'[s] = Free <=> memory[s] = Free
      BY <1>21
    <2> QED
      BY ONLY <1>1, <1>17, <1>21, <2>1, <2>2, <2>3, OwnKeep
  <1>23. value'[v] = d /\ \A u \in Values \ {v} : value'[u] = value[u]
    BY <1>1, <1>17 DEF FormInv
  <1>24. PICK x : x = Given(ItemOf(k))
    OBVIOUS
  <1>25. /\ Item(memory', copied', k) = x
         /\ ItemOf(k) \in Texts <=> k.data \in Strings \ copied /\ Holds(e, 1, k.data)
    <2>1. PICK j \in 1..value[w].size : j = 1
      BY <1>3, <1>4
    <2>2. \A s \in Strings : Holds(value[w], j, s) => s \in copied'
      BY <1>3, <1>13, <2>1
    <2>3. /\ Item(memory', copied', value[w].cells[j]) = Given(ItemOf(value[w].cells[j]))
          /\ ItemOf(value[w].cells[j]) \in Texts <=>
               value[w].cells[j].data \in Strings \ copied /\ Holds(value[w], j, value[w].cells[j].data)
      BY ONLY IInv, <1>2, <1>21, <2>2, ItemGiven
    <2> QED
      BY ONLY <1>3, <1>8, <1>24, <2>1, <2>3
  <1>26. ASSUME NEW u \in Values, value[u] # Absent, NEW j \in 1..value[u].size, u # w \/ j # 1
         PROVE  Item(memory', copied', value[u].cells[j]) = ItemOf(value[u].cells[j])
    <2>1. PICK b \in Stores : b = value[u] /\ b.size <= Len(b.cells) /\ j \in 1..b.size /\ j \in Nat
      BY <1>1, <1>26 DEF FormInv, WellFormed
    <2>2. b.cells[j].data \notin copied' \ copied
      <3> SUFFICES ASSUME b.cells[j].data \in copied', b.cells[j].data \notin copied PROVE FALSE
        OBVIOUS
      <3>1. b.cells[j].data \in Strings /\ Holds(value[w], 1, b.cells[j].data)
        BY <1>3, <1>13
      <3>2. Holds(value[u], j, b.cells[j].data)
        BY <2>1, <3>1, ItemCases
      <3> QED
        BY <1>1, <1>2, <1>26, <2>1, <3>1, <3>2 DEF OwnInv, OnceInv
    <2> QED
      BY ONLY IInv, <1>21, <1>26, u \in Values, j \in 1..value[u].size, <2>1, <2>2, ItemGiven
  <1>27. PICK seq : seq = JoinedBy(v, w, x, n)
    OBVIOUS
  <1>28. PICK source : source = FirstOf(w, x)
    OBVIOUS
  <1>29. Contents(v)' = seq
    <2>1. Contents(v)' = [j \in 1..d.size |-> Item(memory', copied', d.cells[j])]
      BY ONLY <1>1, <1>21, <1>23, ContentsAfter
    <2>2. ASSUME NEW j \in 1..n
          PROVE  Item(memory', copied', d.cells[j])
                   = IF j = n \/ (v = w /\ j = 1) THEN x ELSE ItemOf(value[v].cells[j])
      <3>1. CASE j = n
        BY <1>16, <1>25, <3>1
      <3>2. CASE j # n
        <4>1. j \in 1..value[v].size /\ d.cells[j] = value[v].cells[j]
          BY <1>7, <1>16, <3>2
        <4>2. CASE v = w /\ j = 1
          BY <1>3, <1>8, <1>25, <4>1, <4>2
        <4>3. CASE v # w \/ j # 1
          BY <1>1, <1>26, <3>2, <4>1, <4>3
        <4> QED
          BY <4>2, <4>3
      <3> QED
        BY <3>1, <3>2
    <2> QED
      BY ONLY <1>16, <1>27, <2>1, <2>2 DEF JoinedBy
  <1>30. ASSUME w # v PROVE Contents(w)' = source
    <2>1. value'[w] = e /\ e # Absent
      BY <1>2, <1>3, <1>23, <1>30
    <2>2. Contents(w)' = [j \in 1..e.size |-> Item(memory', copied', e.cells[j])]
      BY ONLY <1>2, <2>1, ContentsAfter
    <2>3. ASSUME NEW j \in 1..e.size
          PROVE  Item(memory', copied', e.cells[j]) = IF j = 1 THEN x ELSE ItemOf(e.cells[j])
      BY <1>2, <1>3, <1>8, <1>25, <1>26
    <2> QED
      BY ONLY <1>3, <1>28, <2>2, <2>3 DEF FirstOf
  <1>31. \A u \in Values \ {v, w} : Contents(u)' = Contents(u)
    <2>1. \A s \in copied' \ copied : \E j \in Nat : Holds(value[w], j, s)
      BY <1>3, <1>13
    <2> QED
      BY ONLY IInv, <1>1, <1>2, <1>17, <1>21, <2>1, OthersUnaware
  <1>32. View' = Both(v, seq, w, source)
    <2>1. \A u \in Values : Contents(u)' = IF u = v THEN seq ELSE IF u = w THEN source ELSE View[u]
      BY <1>29, <1>30, <1>31, HereFacts
    <2> QED
      BY ONLY <2>1 DEF View, Both
  <1>33. copied' # {} <=> copied # {} \/ ItemOf(value[w].cells[1]) \in Texts
    <2>1. ItemOf(value[w].cells[1]) \in Texts => copied' # {}
      BY <1>3, <1>8, <1>13, <1>25
    <2>2. copied' # {} /\ copied = {} => ItemOf(value[w].cells[1]) \in Texts
      BY <1>3, <1>8, <1>12, <1>13, <1>25
    <2> QED
      BY <1>21, <2>1, <2>2
  <1>34. value[w].size > 0 /\ value[v].size < MaxSize /\ x = Given(ItemOf(value[w].cells[1]))
    BY <1>1, <1>3, <1>4, <1>8, <1>24
  <1>35. Semantics!Next
    BY ONLY IInv, v \in Here, w \in Here, <1>5, <1>27, <1>28, <1>32, <1>33, <1>34, AbstractAppendFirst
  <1> QED
    BY <1>20, <1>22, <1>35 DEF IInv

LEMMA TransformCSVStep ==
  ASSUME IInv, Disciplined, NEW v \in Here, TransformCSV(v)
  PROVE  IInv' /\ Semantics!Next
  <1>1. v \in Values /\ value[v] \in Stores /\ WellFormed(value[v]) /\ value[v] # Absent
    BY HereFacts DEF Here
  <1>2. PICK s : s = value[v].cells[1].data
    OBVIOUS
  <1>3. 1 \in 1..value[v].size /\ value[v].cells[1].type = "string" /\ s \in Strings /\ memory[s] # Free
    BY <1>2 DEF TransformCSV, Indices, Disciplined, CallerRules
  <1>4. PICK text \in Texts : text = memory[s]
    BY <1>3 DEF IInv, FormInv
  <1>5. PICK words : words = Reverse(text)
    OBVIOUS
  <1>6. words \in Seq(Words) /\ Len(words) \in 1..MaxSize /\ DOMAIN words = 1..Len(words) /\ Len(words) \in Nat
    <2>1. text \in Seq(Words) /\ Len(text) \in 1..MaxSize
      OBVIOUS
    <2>2. words = [i \in 1..Len(text) |-> text[Len(text) - i + 1]]
      BY <1>5, <2>1 DEF Reverse
    <2>3. words \in [1..Len(text) -> Words]
      BY <2>1, <2>2
    <2> QED
      BY <2>1, <2>3
  <1>7. PICK row : row = [i \in DOMAIN words |-> Plain(words[i])]
    OBVIOUS
  <1>8. /\ row \in Seq(Cell) /\ Len(row) = Len(words)
        /\ \A i \in 1..Len(words) : row[i] = Plain(words[i])
    <2>1. row \in [1..Len(words) -> Cell]
      BY <1>6, <1>7, CellFacts
    <2> QED
      BY <1>6, <1>7, <2>1
  <1>9. PICK d : d = [cells |-> row, size |-> Len(words), strings |-> FALSE]
    OBVIOUS
  <1>10. d \in Stores /\ d.cells = row /\ d.size = Len(words) /\ d.strings = FALSE /\ d # Absent
    <2>1. PICK size \in 0..MaxSize : size = Len(words)
      <3>1. Len(words) \in 0..MaxSize
        BY <1>6
      <3> QED
        BY <3>1
    <2>2. PICK flag \in BOOLEAN : flag = FALSE
      OBVIOUS
    <2>3. d = [cells |-> row, size |-> size, strings |-> flag]
      BY <1>9, <2>1, <2>2
    <2>4. d \in Stores
      BY <1>8, <2>3 DEF Stores
    <2> QED
      BY <2>1, <2>2, <2>3, <2>4, StoreFields
  <1>11. WellFormed(d) /\ \A i \in Nat, r \in Strings : ~ Holds(d, i, r)
    BY <1>6, <1>8, <1>10, CellFacts DEF WellFormed, Holds
  <1>12. value' = [value EXCEPT ![v] = d] /\ memory' = Freed(value[v]) /\ UNCHANGED copied
    BY <1>2, <1>4, <1>5, <1>7, <1>9 DEF TransformCSV, Becomes
  <1>13. IInv' /\ Tells(v, [i \in 1..d.size |-> d.cells[i].data])
    BY <1>1, <1>10, <1>11, <1>12, Dropped
  <1>14. [i \in 1..d.size |-> d.cells[i].data] = words
    <2>1. \A i \in 1..Len(words) : d.cells[i].data = words[i]
      BY <1>8, <1>10, CellFacts
    <2>2. words = [i \in 1..Len(words) |-> words[i]]
      BY <1>6
    <2> QED
      BY <1>10, <2>1, <2>2
  <1>15. Contents(v)[1] \in {text, Shared} /\ value[v].size > 0
    <2>1. Contents(v)[1] = ItemOf(value[v].cells[1]) /\ value[v].size \in Nat
      BY <1>1, <1>3, HereFacts
    <2>2. ItemOf(value[v].cells[1]) = IF s \in copied THEN Shared ELSE text
      BY <1>2, <1>3, <1>4 DEF ItemOf
    <2> QED
      BY <1>3, <2>1, <2>2
  <1>16. Tells(v, Reverse(text))
    BY <1>5, <1>13, <1>14
  <1> QED
    BY <1>13, <1>15, <1>16, AbstractTransform

-----------------------------------------------------------------------------
(* The invariant and the abstract steps, from the first state on.          *)
LEMMA Initially == Init => IInv /\ Semantics!Init
  <1> SUFFICES ASSUME Init PROVE IInv /\ Semantics!Init
    OBVIOUS
  <1>1. \A v \in Values : value[v] = Absent /\ \A i, s : ~ Holds(value[v], i, s)
    BY DEF Init, Holds
  <1>2. FormInv
    BY <1>1 DEF Init, FormInv
  <1>3. OwnInv
    BY <1>1 DEF Init, OwnInv, LiveInv, OnceInv, HolderInv
  <1>4. \A v \in Values : Contents(v) = Absent
    BY <1>1 DEF Contents, Here, ItemOf
  <1>5. (copied # {}) = FALSE
    BY DEF Init
  <1>6. Semantics!Init
    BY <1>4, <1>5 DEF Semantics!Init
  <1> QED
    BY <1>2, <1>3, <1>6 DEF IInv

LEMMA Onwards ==
  ASSUME IInv, Disciplined, [Next]_vars
  PROVE  IInv' /\ (Semantics!Next \/ (View' = View /\ UNCHANGED copied))
  <1>1. ASSUME NEW v \in Values, Construct(v) PROVE IInv' /\ Semantics!Next
    BY <1>1, ConstructStep
  <1>2. ASSUME NEW v \in Values, NEW w \in Values, CopyConstruct(v, w) PROVE IInv' /\ Semantics!Next
    BY <1>2, CopyConstructStep
  <1>3. ASSUME NEW v \in Here, Destroy(v) \/ Clear(v) \/ Resize(v) \/ TransformCSV(v)
        PROVE  IInv' /\ Semantics!Next
    BY <1>3, DestroyStep, ClearStep, ResizeStep, TransformCSVStep
  <1>4. ASSUME NEW v \in Here, NEW x \in Words, Assign(v, x) \/ Set(v, x) \/ AppendPlain(v, x)
        PROVE  IInv' /\ Semantics!Next
    BY <1>4, AssignStep, SetStep, AppendPlainStep
  <1>5. ASSUME NEW v \in Here, NEW text \in Texts,
               AssignString(v, text) \/ SetString(v, text) \/ AppendString(v, text)
        PROVE  IInv' /\ Semantics!Next
    BY <1>5, AssignStringStep, SetStringStep, AppendStringStep
  <1>6. ASSUME NEW v \in Here, NEW w \in Here, AssignValue(v, w) \/ AppendValue(v, w)
        PROVE  IInv' /\ Semantics!Next
    BY <1>6, AssignValueStep, AppendValueStep
  <1>7. CASE UNCHANGED vars
    <2>1. memory' = memory /\ value' = value /\ copied' = copied
      BY <1>7 DEF vars
    <2>2. FormInv'
      BY <2>1 DEF IInv, FormInv, WellFormed, Holds
    <2>3. OwnInv'
      BY <2>1 DEF IInv, OwnInv, LiveInv, OnceInv, HolderInv, Holds
    <2>4. \A v \in Values : Contents(v)' = Contents(v)
      BY <2>1 DEF Contents, Here, ItemOf
    <2>5. View' = View
      BY <2>4 DEF View
    <2> QED
      BY <2>1, <2>2, <2>3, <2>5 DEF IInv
  <1> QED
    BY <1>1, <1>2, <1>3, <1>4, <1>5, <1>6, <1>7 DEF Next

LEMMA Invariant == Disciplined => (Spec => []IInv)
  <1> SUFFICES ASSUME Disciplined PROVE Spec => []IInv
    OBVIOUS
  <1>1. Init => IInv
    BY Initially
  <1>2. IInv /\ [Next]_vars => IInv'
    BY Onwards
  <1> QED
    BY <1>1, <1>2, PTL DEF Spec

LEMMA Owned == IInv => StringsOwned
  <1> SUFFICES ASSUME IInv PROVE StringsOwned
    OBVIOUS
  <1>1. \A v \in Here : /\ v \in Values /\ value[v] \in Stores /\ WellFormed(value[v])
                        /\ value[v].size <= Len(value[v].cells)
    BY HereFacts DEF Here
  <1>2. ASSUME NEW o \in Owners
        PROVE  /\ o = <<o[1], o[2]>> /\ o[1] \in Here /\ o[1] \in Values /\ o[2] \in Nat
               /\ PointerOf(o) \in Strings /\ Holds(value[o[1]], o[2], PointerOf(o))
    <2>1. o = <<o[1], o[2]>> /\ o[1] \in Here /\ o[2] \in Stored(value[o[1]])
      BY DEF Owners
    <2>2. PICK c \in Stores : c = value[o[1]] /\ c.size <= Len(c.cells)
      BY <1>1, <2>1
    <2>3. o[2] \in Nat /\ c.cells[o[2]].data \in Strings /\ Holds(c, o[2], c.cells[o[2]].data)
      BY <2>1, <2>2, HeldStored
    <2> QED
      BY <1>1, <2>1, <2>2, <2>3 DEF PointerOf
  <1>3. TypeOK
    BY <1>1 DEF TypeOK, IInv, FormInv
  <1>4. DeletesOnlyStored
    <2> SUFFICES ASSUME NEW v \in Here, value[v].strings PROVE Holding(value[v]) = Stored(value[v])
      BY DEF DeletesOnlyStored
    <2>1. \A i \in 1..value[v].size : value[v].cells[i].data # Wild
      BY <1>1 DEF WellFormed
    <2> QED
      BY <2>1 DEF Stored, Holding, Written
  <1>5. OwnedUnlessCopied
    <2>1. ASSUME NEW o \in Owners, PointerOf(o) \notin copied
          PROVE  memory[PointerOf(o)] # Free /\ value[o[1]].strings
      BY <1>2, <2>1 DEF IInv, OwnInv, LiveInv
    <2>2. ASSUME NEW o \in Owners, NEW p \in Owners, PointerOf(o) = PointerOf(p), o # p
          PROVE  PointerOf(o) \in copied
      <3> SUFFICES ASSUME PointerOf(o) \notin copied PROVE FALSE
        OBVIOUS
      <3>1. o[1] = p[1] /\ o[2] = p[2]
        BY <1>2, <2>2 DEF IInv, OwnInv, OnceInv
      <3> QED
        BY <1>2, <2>2, <3>1
    <2> QED
      BY <2>1, <2>2 DEF OwnedUnlessCopied
  <1>6. NothingLeaks
    <2> SUFFICES ASSUME NEW s \in Strings, memory[s] # Free
                 PROVE  \E o \in Owners : PointerOf(o) = s /\ value[o[1]].strings
      BY DEF NothingLeaks
    <2>1. PICK v \in Values, i \in Nat : value[v].strings /\ Holds(value[v], i, s)
      BY DEF IInv, OwnInv, HolderInv
    <2>2. v \in Here
      BY <2>1 DEF Holds, Here
    <2>3. PICK c \in Stores : c = value[v] /\ c.size <= Len(c.cells)
      BY <1>1, <2>2
    <2>4. i \in Stored(value[v]) /\ i \in 1..MaxSize /\ value[v].cells[i].data = s
      <3>1. i \in Stored(c) /\ c.cells[i].data = s /\ i \in 1..c.size
        BY <2>1, <2>3, HeldStored DEF Holds
      <3> QED
        BY <2>3, <3>1, StoreFields
    <2>5. PICK o : o = <<v, i>>
      OBVIOUS
    <2>6. o[1] = v /\ o[2] = i /\ o \in Here \X (1..MaxSize)
      BY <2>2, <2>4, <2>5
    <2>7. o \in Owners
      BY <2>4, <2>6 DEF Owners
    <2> QED
      BY <2>1, <2>4, <2>6, <2>7 DEF PointerOf
  <1> QED
    BY <1>3, <1>4, <1>5, <1>6 DEF StringsOwned

(* TTValue.cpp:152-179, 238-248, 694-704.  For callers that keep to the    *)
(* rules, whatever new memory reads as and whatever they copy: clear() and *)
(* the destructor delete only what set() has stored, every string that     *)
(* exists will be deleted, and one whose pointer was never copied is alive *)
(* in exactly one element.                                                 *)
THEOREM StringsOwnedHolds == Disciplined => (Spec => []StringsOwned)
  <1> SUFFICES ASSUME Disciplined PROVE Spec => []StringsOwned
    OBVIOUS
  <1>1. Spec => []IInv
    BY Invariant
  <1> QED
    BY <1>1, Owned, PTL

(* TTValue.h:67-70.  For the same callers, the storage implements a value  *)
(* that is an array of its own: each operation leaves in the value it is   *)
(* called on what it says, and no other value changes, except that a text  *)
(* that has been copied is shared from then on.                            *)
THEOREM ImplementsSemanticsHolds == Disciplined => (Spec => ImplementsSemantics)
  <1> SUFFICES ASSUME Disciplined PROVE Spec => ImplementsSemantics
    OBVIOUS
  <1>1. Init => Semantics!Init
    BY Initially
  <1>2. IInv /\ [Next]_vars => [Semantics!Next]_(Semantics!view)
    <2> SUFFICES ASSUME IInv, [Next]_vars PROVE Semantics!Next \/ UNCHANGED Semantics!view
      OBVIOUS
    <2>1. Semantics!Next \/ (View' = View /\ UNCHANGED copied)
      BY Onwards
    <2>2. View' = View /\ UNCHANGED copied => UNCHANGED Semantics!view
      BY DEF Semantics!view, View
    <2> QED
      BY <2>1, <2>2
  <1>3. Spec => []IInv
    BY Invariant
  <1> QED
    BY <1>1, <1>2, <1>3, PTL DEF Spec, ImplementsSemantics, Semantics!Spec

=============================================================================

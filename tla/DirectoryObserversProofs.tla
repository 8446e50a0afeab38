---------------------- MODULE DirectoryObserversProofs ----------------------
(***************************************************************************)
(* For any keys, observers and notifications inside each other: the table  *)
(* has the keys that are observed, whatever observers do while they are    *)
(* told; no notification reads what is not there; and when it ends, all who*)
(* stayed were told once, each under the rules it needs.                   *)
(***************************************************************************)
EXTENDS DirectoryObservers, SequenceTheorems, FiniteSetTheorems, WellFoundedInduction, TLAPS

-----------------------------------------------------------------------------
(* The least-number principle.                                             *)
LEMMA Least ==
  ASSUME NEW S \in SUBSET Nat, S # {}
  PROVE  \E n \in S : \A m \in S : n <= m
  <1> DEFINE R == OpToRel(<, Nat)
  <1>1. \A m, n \in Nat : m < n => <<m, n>> \in R
    BY DEF OpToRel
  <1>2. IsWellFoundedOn(R, Nat)
    BY NatLessThanWellFounded
  <1> HIDE DEF R
  <1>3. PICK n \in S : \A m \in S : ~ (<<m, n>> \in R)
    BY <1>2, WFMin
  <1>4. \A m \in S : ~ (m < n)
    BY <1>1, <1>3
  <1> QED
    BY <1>4

(* A sequence as a stack: what a push, a change of the top and a pop do.   *)
Pushed(s, x) == <<x>> \o s

LEMMA Push ==
  ASSUME NEW S, NEW s \in Seq(S), NEW x \in S
  PROVE  LET r == Pushed(s, x)
         IN  /\ r \in Seq(S) /\ r # <<>>
             /\ DOMAIN r = 1..Len(s) + 1 /\ Head(r) = x /\ r[1] = x
             /\ \A i \in 2..Len(s) + 1 : r[i] = s[i - 1]
  <1>1. <<x>> \in Seq(S) /\ Len(<<x>>) = 1 /\ <<x>>[1] = x
    OBVIOUS
  <1> DEFINE r == <<x>> \o s
  <1>2. /\ r \in Seq(S) /\ Len(r) = 1 + Len(s)
        /\ \A i \in 1..1 + Len(s) : r[i] = IF i <= 1 THEN <<x>>[i] ELSE s[i - 1]
    BY <1>1, ConcatProperties
  <1>3. Len(s) \in Nat /\ DOMAIN s = 1..Len(s)
    BY LenProperties
  <1>4. DOMAIN r = 1..Len(s) + 1
    BY <1>2, <1>3, LenProperties
  <1> HIDE DEF r
  <1>5. r # <<>>
    BY <1>2, <1>3
  <1>6. r[1] = x
    BY <1>1, <1>2, <1>3
  <1>7. \A i \in 2..Len(s) + 1 : r[i] = s[i - 1]
    BY <1>2, <1>3
  <1>8. Head(r) = r[1]
    BY <1>2, <1>5
  <1> QED
    BY <1>2, <1>4, <1>5, <1>6, <1>7, <1>8 DEF r, Pushed

LEMMA Pop ==
  ASSUME NEW S, NEW s \in Seq(S), s # <<>>
  PROVE  /\ Tail(s) \in Seq(S) /\ Len(s) \in Nat \ {0}
         /\ DOMAIN s = 1..Len(s) /\ Head(s) = s[1] /\ Head(s) \in S
         /\ Len(Tail(s)) = Len(s) - 1 /\ DOMAIN Tail(s) = 1..Len(s) - 1
         /\ Tail(s) = <<>> <=> Len(s) = 1
         /\ \A i \in 1..Len(s) - 1 : Tail(s)[i] = s[i + 1]
  <1>1. Len(s) \in Nat \ {0} /\ DOMAIN s = 1..Len(s) /\ Head(s) = s[1]
    BY EmptySeq, LenProperties
  <1>2. /\ Head(s) \in S /\ Tail(s) \in Seq(S) /\ Len(Tail(s)) = Len(s) - 1
        /\ \A i \in 1..Len(Tail(s)) : Tail(s)[i] = s[i + 1]
    BY HeadTailProperties
  <1>3. Tail(s) = <<>> <=> Len(s) = 1
    <2> DEFINE u == Tail(s)
    <2>1. u \in Seq(S) /\ Len(u) = Len(s) - 1
      BY <1>2
    <2> HIDE DEF u
    <2>2. u = <<>> <=> Len(u) = 0
      BY <2>1, EmptySeq
    <2> QED
      BY <1>1, <2>1, <2>2 DEF u
  <1> QED
    BY <1>1, <1>2, <1>3

LEMMA Retop ==
  ASSUME NEW S, NEW s \in Seq(S), s # <<>>, NEW x \in S
  PROVE  LET r == Pushed(Tail(s), x)
         IN  /\ r \in Seq(S) /\ r # <<>>
             /\ DOMAIN r = DOMAIN s /\ Head(r) = x /\ r[1] = x
             /\ \A i \in DOMAIN s : i # 1 => r[i] = s[i]
  <1> DEFINE u == Tail(s)
  <1>1. /\ u \in Seq(S) /\ Len(s) \in Nat \ {0} /\ DOMAIN s = 1..Len(s)
        /\ Len(u) = Len(s) - 1 /\ \A i \in 1..Len(s) - 1 : u[i] = s[i + 1]
    BY Pop
  <1> HIDE DEF u
  <1> DEFINE v == Pushed(u, x)
  <1>2. /\ v \in Seq(S) /\ v # <<>> /\ DOMAIN v = 1..Len(u) + 1
        /\ Head(v) = x /\ v[1] = x
        /\ \A i \in 2..Len(u) + 1 : v[i] = u[i - 1]
    BY <1>1, Push
  <1> HIDE DEF v
  <1>3. \A i \in 2..Len(s) : v[i] = s[i]
    BY <1>1, <1>2
  <1>4. v = Pushed(Tail(s), x)
    BY DEF v, u
  <1> QED
    BY <1>1, <1>2, <1>3, <1>4

(* Append adds one element behind.                                         *)
LEMMA Appended ==
  ASSUME NEW S, NEW s \in Seq(S), NEW x \in S
  PROVE  LET r == Append(s, x)
         IN  /\ r \in Seq(S) /\ Len(s) \in Nat /\ DOMAIN s = 1..Len(s)
             /\ DOMAIN r = 1..Len(s) + 1 /\ r[Len(s) + 1] = x
             /\ \A i \in 1..Len(s) : r[i] = s[i]
  <1> DEFINE r == Append(s, x)
  <1>1. /\ r \in Seq(S) /\ Len(r) = Len(s) + 1
        /\ \A i \in 1..Len(s) : r[i] = s[i]
        /\ r[Len(s) + 1] = x
    BY AppendProperties
  <1>2. Len(s) \in Nat /\ DOMAIN s = 1..Len(s) /\ DOMAIN r = 1..Len(r)
    BY <1>1, LenProperties
  <1> QED
    BY <1>1, <1>2

-----------------------------------------------------------------------------
USE ObserversAssumption

KeysStay == "KeysStay" \in Rules
NotUnderIterator == "NotUnderIterator" \in Rules
Disciplined == Rules = CallerRules

-----------------------------------------------------------------------------
(* An iterator is where an observer is, behind the last, or nowhere.       *)
ListOK(r) ==
  /\ r \in [items : Seq(Observers), iter : Nat]
  /\ IsInjective(r.items)
  /\ r.iter <= Len(r.items) + 1

ListsOK(ls) ==
  /\ ls \in [TTLists -> [items : Seq(Observers), iter : Nat]]
  /\ \A l \in TTLists : ListOK(ls[l])

(* Every key has observers, in a list of its own.                          *)
TableOK(tb, ls) ==
  /\ DOMAIN tb \subseteq Keys
  /\ tb \in [DOMAIN tb -> TTLists]
  /\ IsInjective(tb)
  /\ \A k \in DOMAIN tb : ls[tb[k]].items # <<>>

(* A walk has a list and its key.  While no key comes or goes, every turn  *)
(* takes a key that is in the table.                                       *)
Walking(f) == f.step \in {"tell", "handle"}

TurnOK(tb, f) ==
  /\ Walking(f) => f.list # NoList /\ f.key # NoKey
  /\ f.turn <= Cardinality(Keys)
  /\ KeysStay => /\ f.todo \subseteq DOMAIN tb
                 /\ f.turn + Cardinality(f.todo) = Cardinality(DOMAIN tb)
  /\ KeysStay /\ NotUnderIterator => f.step # "wild"

(* All notifications but the innermost wait for an observer.  Whom that one*)
(* tells next is there, as nobody comes in between.                        *)
StackOK(tb, ls, st) ==
  /\ \A i \in DOMAIN st : TurnOK(tb, st[i]) /\ (i > 1 => st[i].step = "handle")
  /\ st # <<>> /\ st[1].step = "tell" =>
       ls[st[1].list].iter \in DOMAIN ls[st[1].list].items

(* Where the list under a walk has been told.                              *)
Passed(r, f, j) == j < r.iter \/ (j = r.iter /\ f.step = "handle")

OnList(tb, ls, pair) ==
  pair[1] \in DOMAIN tb /\ pair[2] \in Elements(ls[tb[pair[1]]].items)

WalkOK(tb, ls, f) ==
  Walking(f) =>
    /\ f.key \in DOMAIN tb /\ f.key \in Matching[f.address] /\ f.key \notin f.todo
    /\ f.list = tb[f.key]
    /\ ls[f.list].iter \in DOMAIN ls[f.list].items

(* Who is due is told, or the walk has yet to come to where it stands.     *)
DueOK(tb, ls, f) ==
  \A pair \in f.due :
    /\ OnList(tb, ls, pair) /\ pair[1] \in Matching[f.address]
    /\ \/ pair \in f.told \/ pair[1] \in f.todo
       \/ /\ Walking(f) /\ pair[1] = f.key
          /\ \A j \in DOMAIN ls[f.list].items :
               ls[f.list].items[j] = pair[2] => ~ Passed(ls[f.list], f, j)

(* Who was told is registered, and the walk is past it.                    *)
ToldOK(tb, ls, f) ==
  \A pair \in f.told :
    /\ OnList(tb, ls, pair) /\ pair[1] \notin f.todo
    /\ Walking(f) /\ pair[1] = f.key =>
         \A j \in DOMAIN ls[f.list].items :
           ls[f.list].items[j] = pair[2] => Passed(ls[f.list], f, j)

FrameOK(tb, ls, f) ==
  WalkOK(tb, ls, f) /\ DueOK(tb, ls, f) /\ ToldOK(tb, ls, f) /\ f.again = {}

(* No list that is walked over is walked over inside.                      *)
Telling(tb, ls, st) ==
  /\ \A i \in DOMAIN st : FrameOK(tb, ls, st[i])
  /\ \A i, j \in DOMAIN st : i < j => st[j].key \notin Matching[st[i].address]

TypeInv == ListsOK(lists) /\ TableOK(table, lists) /\ stack \in Seq(Notifications)
IterInv == NotUnderIterator => \A l \in TTLists : lists[l].iter > 0
StackInv == StackOK(table, lists, stack)
ToldInv == Disciplined => Telling(table, lists, stack)

IInv == TypeInv /\ IterInv /\ StackInv /\ ToldInv

-----------------------------------------------------------------------------
(* The fields of a notification, and what its steps make of it.            *)
LEMMA FrameTypes ==
  ASSUME NEW f \in Notifications
  PROVE  /\ f.address \in Addresses /\ f.step \in {"key", "tell", "handle", "wild"}
         /\ f.todo \in SUBSET Keys /\ f.turn \in Nat /\ f.key \in Keys \cup {NoKey}
         /\ f.list \in TTLists \cup {NoList}
         /\ f.due \in SUBSET Pairs /\ f.told \in SUBSET Pairs /\ f.again \in SUBSET Pairs
  BY DEF Notifications

SameHistory(f, g) == g.due = f.due /\ g.told = f.told /\ g.again = f.again
SameTurn(f, g) ==
  /\ g.address = f.address /\ g.todo = f.todo /\ g.turn = f.turn
  /\ g.key = f.key /\ g.list = f.list

LEMMA StepTo ==
  ASSUME NEW f \in Notifications, NEW step \in {"key", "tell", "handle", "wild"}
  PROVE  \E g \in Notifications : /\ g = [f EXCEPT !.step = step] /\ g.step = step
                                  /\ SameTurn(f, g) /\ SameHistory(f, g)
  <1> DEFINE g == [f EXCEPT !.step = step]
  <1>1. g \in Notifications /\ g.step = step /\ SameTurn(f, g) /\ SameHistory(f, g)
    BY DEF Notifications, SameTurn, SameHistory
  <1> QED
    BY <1>1

LEMMA TurnTo ==
  ASSUME NEW f \in Notifications, NEW k \in Keys \cup {NoKey}
  PROVE  \E g \in Notifications :
           /\ g = [f EXCEPT !.todo = @ \ {k}, !.turn = @ + 1, !.key = k]
           /\ g.address = f.address /\ g.step = f.step /\ g.todo = f.todo \ {k}
           /\ g.turn = f.turn + 1 /\ g.key = k /\ g.list = f.list /\ SameHistory(f, g)
  <1> DEFINE todo2 == f.todo \ {k}
             turn2 == f.turn + 1
             g == [f EXCEPT !.todo = todo2, !.turn = turn2, !.key = k]
  <1>1. todo2 \in SUBSET Keys /\ turn2 \in Nat
    BY FrameTypes
  <1>2. g = [f EXCEPT !.todo = @ \ {k}, !.turn = @ + 1, !.key = k]
    BY DEF Notifications
  <1> HIDE DEF todo2, turn2
  <1>3. /\ g \in Notifications
        /\ g.address = f.address /\ g.step = f.step /\ g.todo = todo2
        /\ g.turn = turn2 /\ g.key = k /\ g.list = f.list /\ SameHistory(f, g)
    BY <1>1 DEF Notifications, SameHistory
  <1> HIDE DEF g
  <1> QED
    BY <1>2, <1>3 DEF todo2, turn2

LEMMA EnterList ==
  ASSUME NEW f \in Notifications, NEW l \in TTLists
  PROVE  \E g \in Notifications :
           /\ g = [f EXCEPT !.step = "tell", !.list = l]
           /\ g.address = f.address /\ g.step = "tell" /\ g.todo = f.todo
           /\ g.turn = f.turn /\ g.key = f.key /\ g.list = l /\ SameHistory(f, g)
  <1> DEFINE g == [f EXCEPT !.step = "tell", !.list = l]
  <1>1. /\ g \in Notifications
        /\ g.address = f.address /\ g.step = "tell" /\ g.todo = f.todo
        /\ g.turn = f.turn /\ g.key = f.key /\ g.list = l /\ SameHistory(f, g)
    BY DEF Notifications, SameHistory
  <1> QED
    BY <1>1

LEMMA TellOne ==
  ASSUME NEW f \in Notifications, NEW pair \in Pairs
  PROVE  \E g \in Notifications :
           /\ g = [f EXCEPT !.step = "handle", !.told = @ \cup {pair},
                            !.again = IF pair \in f.told THEN @ \cup {pair} ELSE @]
           /\ g.step = "handle" /\ SameTurn(f, g) /\ g.due = f.due
           /\ g.told = f.told \cup {pair}
           /\ g.again = IF pair \in f.told THEN f.again \cup {pair} ELSE f.again
  <1> DEFINE told2 == f.told \cup {pair}
             again2 == IF pair \in f.told THEN f.again \cup {pair} ELSE f.again
             g == [f EXCEPT !.step = "handle", !.told = told2, !.again = again2]
  <1>1. told2 \in SUBSET Pairs /\ again2 \in SUBSET Pairs
    BY FrameTypes
  <1>2. g = [f EXCEPT !.step = "handle", !.told = @ \cup {pair},
                      !.again = IF pair \in f.told THEN @ \cup {pair} ELSE @]
    BY DEF Notifications
  <1> HIDE DEF told2, again2
  <1>3. /\ g \in Notifications /\ g.step = "handle" /\ SameTurn(f, g) /\ g.due = f.due
        /\ g.told = told2 /\ g.again = again2
    BY <1>1 DEF Notifications, SameTurn
  <1> HIDE DEF g
  <1> QED
    BY <1>2, <1>3 DEF told2, again2

LEMMA ForgetOne ==
  ASSUME NEW f \in Notifications, NEW pair
  PROVE  \E g \in Notifications :
           /\ g = [f EXCEPT !.due = @ \ {pair}, !.told = @ \ {pair}, !.again = @ \ {pair}]
           /\ g.step = f.step /\ SameTurn(f, g)
           /\ g.due = f.due \ {pair} /\ g.told = f.told \ {pair}
           /\ g.again = f.again \ {pair}
  <1> DEFINE due2 == f.due \ {pair}
             told2 == f.told \ {pair}
             again2 == f.again \ {pair}
             g == [f EXCEPT !.due = due2, !.told = told2, !.again = again2]
  <1>1. due2 \in SUBSET Pairs /\ told2 \in SUBSET Pairs /\ again2 \in SUBSET Pairs
    BY FrameTypes
  <1>2. g = [f EXCEPT !.due = @ \ {pair}, !.told = @ \ {pair}, !.again = @ \ {pair}]
    BY DEF Notifications
  <1> HIDE DEF due2, told2, again2
  <1>3. /\ g \in Notifications /\ g.step = f.step /\ SameTurn(f, g)
        /\ g.due = due2 /\ g.told = told2 /\ g.again = again2
    BY <1>1 DEF Notifications, SameTurn
  <1> HIDE DEF g
  <1> QED
    BY <1>2, <1>3 DEF due2, told2, again2

(* The fields of an entry of the list, and of all the lists.               *)
LEMMA ListTypes ==
  ASSUME NEW ls, ListsOK(ls), NEW l \in TTLists
  PROVE  /\ ls[l].items \in Seq(Observers) /\ ls[l].iter \in Nat
         /\ IsInjective(ls[l].items) /\ ls[l].iter <= Len(ls[l].items) + 1
         /\ Len(ls[l].items) \in Nat /\ DOMAIN ls[l].items = 1..Len(ls[l].items)
         /\ \A j \in DOMAIN ls[l].items : ls[l].items[j] \in Observers
         /\ ls[l].items = <<>> <=> Len(ls[l].items) = 0
  <1>1. PICK r : r = ls[l]
    OBVIOUS
  <1>2. r \in [items : Seq(Observers), iter : Nat] /\ ListOK(r)
    BY <1>1 DEF ListsOK
  <1>3. PICK s : s = r.items
    OBVIOUS
  <1>4. s \in Seq(Observers) /\ r.iter \in Nat
    BY <1>2, <1>3
  <1>5. Len(s) \in Nat /\ DOMAIN s = 1..Len(s) /\ (s = <<>> <=> Len(s) = 0)
    BY <1>4, LenProperties, EmptySeq
  <1>6. \A j \in DOMAIN s : s[j] \in Observers
    BY <1>4, <1>5, ElementOfSeq
  <1> QED
    BY <1>1, <1>2, <1>3, <1>4, <1>5, <1>6 DEF ListOK

LEMMA OneChanges ==
  ASSUME NEW ls, ListsOK(ls), NEW l \in TTLists, NEW r, ListOK(r)
  PROVE  \E ls2 : /\ ls2 = [ls EXCEPT ![l] = r] /\ ListsOK(ls2)
                  /\ ls2[l] = r /\ \A m \in TTLists : m # l => ls2[m] = ls[m]
  <1> DEFINE ls2 == [ls EXCEPT ![l] = r]
  <1>1. ls2[l] = r /\ \A m \in TTLists : m # l => ls2[m] = ls[m]
    BY DEF ListsOK
  <1>2. ls2 \in [TTLists -> [items : Seq(Observers), iter : Nat]]
    BY DEF ListsOK, ListOK
  <1>3. \A m \in TTLists : ListOK(ls2[m])
    BY <1>1 DEF ListsOK
  <1> QED
    BY <1>1, <1>2, <1>3 DEF ListsOK

(* The iterator is moved, and nothing else.                                *)
LEMMA IteratorMoves ==
  ASSUME NEW ls, ListsOK(ls), NEW l \in TTLists, NEW n \in 0..Len(ls[l].items) + 1
  PROVE  \E ls2 : /\ ls2 = [ls EXCEPT ![l].iter = n] /\ ListsOK(ls2)
                  /\ ls2[l].items = ls[l].items /\ ls2[l].iter = n
                  /\ \A m \in TTLists : m # l => ls2[m] = ls[m]
  <1>1. PICK r : r = [ls[l] EXCEPT !.iter = n]
    OBVIOUS
  <1>2. ls[l] \in [items : Seq(Observers), iter : Nat] /\ IsInjective(ls[l].items)
    BY DEF ListsOK, ListOK
  <1>3. n \in Nat /\ n <= Len(ls[l].items) + 1
    BY ListTypes
  <1>4. r \in [items : Seq(Observers), iter : Nat] /\ r.items = ls[l].items /\ r.iter = n
    BY <1>1, <1>2, <1>3
  <1>5. ListOK(r)
    BY <1>2, <1>3, <1>4 DEF ListOK
  <1>6. [ls EXCEPT ![l].iter = n] = [ls EXCEPT ![l] = r]
    BY <1>1 DEF ListsOK
  <1>7. PICK ls2 : /\ ls2 = [ls EXCEPT ![l] = r] /\ ListsOK(ls2)
                   /\ ls2[l] = r /\ \A m \in TTLists : m # l => ls2[m] = ls[m]
    BY <1>5, OneChanges
  <1> QED
    BY <1>4, <1>6, <1>7

LEMMA RoundTheList ==
  ASSUME NEW n \in Nat, NEW i \in 0..n + 1
  PROVE  /\ (i % (n + 1)) + 1 \in 1..n + 1
         /\ i <= n => (i % (n + 1)) + 1 = i + 1
  OBVIOUS

-----------------------------------------------------------------------------
(* What becomes of the items of a list.                                    *)
LEMMA LengthIs ==
  ASSUME NEW S, NEW s \in Seq(S), NEW n \in Nat, DOMAIN s = 1..n
  PROVE  Len(s) = n
  <1>1. Len(s) \in Nat /\ DOMAIN s = 1..Len(s)
    BY LenProperties
  <1>2. PICK m \in Nat : m = Len(s)
    BY <1>1
  <1>3. 1..m = 1..n
    BY <1>1, <1>2
  <1>4. CASE m > n
    BY <1>3, <1>4
  <1>5. CASE m < n
    BY <1>3, <1>5
  <1> QED
    BY <1>2, <1>4, <1>5

LEMMA AddedOnce ==
  ASSUME NEW s \in Seq(Observers), IsInjective(s), NEW o \in Observers, o \notin Elements(s)
  PROVE  \E r \in Seq(Observers) :
           /\ r = AppendUnique(s, o) /\ IsInjective(r) /\ Len(r) = Len(s) + 1
           /\ DOMAIN s = 1..Len(s) /\ Len(s) \in Nat
           /\ DOMAIN r = 1..Len(s) + 1 /\ r[Len(s) + 1] = o
           /\ \A i \in 1..Len(s) : r[i] = s[i]
  <1>1. PICK r : r = Append(s, o)
    OBVIOUS
  <1>2. /\ r \in Seq(Observers) /\ Len(s) \in Nat /\ DOMAIN s = 1..Len(s)
        /\ DOMAIN r = 1..Len(s) + 1 /\ r[Len(s) + 1] = o
        /\ \A i \in 1..Len(s) : r[i] = s[i]
    BY <1>1, Appended
  <1>3. Len(r) = Len(s) + 1
    BY <1>1, AppendProperties
  <1>4. r = AppendUnique(s, o)
    BY <1>1 DEF AppendUnique
  <1>5. ASSUME NEW i \in DOMAIN r, NEW j \in DOMAIN r, r[i] = r[j] PROVE i = j
    <2>1. \A m \in 1..Len(s) : s[m] # o
      BY <1>2 DEF Elements
    <2>2. i \in 1..Len(s) \/ i = Len(s) + 1
      BY <1>2
    <2>3. j \in 1..Len(s) \/ j = Len(s) + 1
      BY <1>2
    <2> QED
      BY <1>2, <1>5, <2>1, <2>2, <2>3 DEF IsInjective
  <1>6. IsInjective(r)
    BY <1>5 DEF IsInjective
  <1> QED
    BY <1>2, <1>3, <1>4, <1>6

LEMMA RemovedOnce ==
  ASSUME NEW s \in Seq(Observers), IsInjective(s), NEW p \in DOMAIN s
  PROVE  \E r \in Seq(Observers) :
           /\ r = RemoveFirst(s, s[p]) /\ IsInjective(r)
           /\ Len(s) \in Nat \ {0} /\ DOMAIN s = 1..Len(s)
           /\ Len(r) = Len(s) - 1 /\ DOMAIN r = 1..Len(s) - 1
           /\ \A i \in DOMAIN r : r[i] = IF i < p THEN s[i] ELSE s[i + 1]
           /\ Elements(r) = Elements(s) \ {s[p]}
  <1>1. Len(s) \in Nat \ {0} /\ DOMAIN s = 1..Len(s) /\ p \in 1..Len(s)
    BY LenProperties
  <1>2. PICK at : at = {i \in DOMAIN s : s[i] = s[p]}
    OBVIOUS
  <1>3. at = {p}
    BY <1>2 DEF IsInjective
  <1>4. PICK r : r = [i \in 1..Len(s) - 1 |-> IF i < p THEN s[i] ELSE s[i + 1]]
    OBVIOUS
  <1>5. r = RemoveFirst(s, s[p])
    <2>1. (CHOOSE i \in at : \A j \in at : i <= j) = p
      BY <1>1, <1>3
    <2> QED
      BY <1>2, <1>3, <1>4, <2>1 DEF RemoveFirst
  <1>6. \A i \in DOMAIN s : s[i] \in Observers
    BY <1>1, ElementOfSeq
  <1>7. r \in Seq(Observers)
    <2>1. Len(s) - 1 \in Nat
      BY <1>1
    <2>2. \A i \in 1..Len(s) - 1 : r[i] \in Observers
      BY <1>1, <1>4, <1>6
    <2> QED
      BY <1>4, <2>1, <2>2
  <1>8. DOMAIN r = 1..Len(s) - 1 /\ \A i \in DOMAIN r : r[i] = IF i < p THEN s[i] ELSE s[i + 1]
    BY <1>4
  <1>9. Len(r) = Len(s) - 1
    <2>1. Len(s) - 1 \in Nat
      BY <1>1
    <2> QED
      BY <1>7, <1>8, <2>1, LengthIs
  <1>10. IsInjective(r)
    <2>1. ASSUME NEW i \in DOMAIN r, NEW j \in DOMAIN r, r[i] = r[j] PROVE i = j
      <3>1. i \in 1..Len(s) /\ i + 1 \in 1..Len(s) /\ j \in 1..Len(s) /\ j + 1 \in 1..Len(s)
        BY <1>1, <1>8
      <3>2. (IF i < p THEN i ELSE i + 1) = (IF j < p THEN j ELSE j + 1)
        BY <1>1, <1>8, <2>1, <3>1 DEF IsInjective
      <3> QED
        BY <1>1, <3>1, <3>2
    <2> QED
      BY <2>1 DEF IsInjective
  <1>11. Elements(r) = Elements(s) \ {s[p]}
    <2>1. ASSUME NEW i \in DOMAIN r PROVE r[i] \in Elements(s) /\ r[i] # s[p]
      <3>1. i \in 1..Len(s) /\ i + 1 \in 1..Len(s)
        BY <1>1, <1>8
      <3>2. i < p => i # p
        BY <1>1, <3>1
      <3>3. ~ (i < p) => i + 1 # p
        BY <1>1, <3>1
      <3> QED
        BY <1>1, <1>8, <3>1, <3>2, <3>3 DEF Elements, IsInjective
    <2>2. ASSUME NEW i \in DOMAIN s, s[i] # s[p] PROVE \E j \in DOMAIN r : r[j] = s[i]
      <3>1. i # p /\ i \in 1..Len(s)
        BY <1>1, <2>2
      <3>2. CASE i < p
        <4>1. i \in DOMAIN r
          BY <1>1, <1>8, <3>1, <3>2
        <4> QED
          BY <1>8, <3>2, <4>1
      <3>3. CASE i > p
        <4>1. i - 1 \in DOMAIN r /\ ~ (i - 1 < p) /\ (i - 1) + 1 = i
          BY <1>1, <1>8, <3>1, <3>3
        <4> QED
          BY <1>8, <4>1
      <3> QED
        BY <1>1, <3>1, <3>2, <3>3
    <2> QED
      BY <2>1, <2>2 DEF Elements
  <1> QED
    BY <1>1, <1>5, <1>7, <1>8, <1>9, <1>10, <1>11

-----------------------------------------------------------------------------
(* What a notification relies on stays when a list changes.  First: where  *)
(* it does not look.                                                       *)
LEMMA FrameStays ==
  ASSUME NEW tb, NEW ls, NEW ls2, NEW f \in Notifications, FrameOK(tb, ls, f),
         \A k \in DOMAIN tb : ls2[tb[k]].items = ls[tb[k]].items,
         Walking(f) => ls2[f.list] = ls[f.list]
  PROVE  FrameOK(tb, ls2, f)
  <1>1. WalkOK(tb, ls2, f)
    BY DEF FrameOK, WalkOK
  <1>2. \A pair : OnList(tb, ls, pair) <=> OnList(tb, ls2, pair)
    BY DEF OnList
  <1>3. DueOK(tb, ls2, f)
    BY <1>2 DEF FrameOK, DueOK
  <1>4. ToldOK(tb, ls2, f)
    BY <1>2 DEF FrameOK, ToldOK
  <1> QED
    BY <1>1, <1>3, <1>4 DEF FrameOK

(* An observer is added behind the others: behind every walk, and to       *)
(* nobody's history.                                                       *)
LEMMA FrameAdded ==
  ASSUME NEW tb, NEW ls, NEW ls2, TableOK(tb, ls), ListsOK(ls), ListsOK(ls2),
         NEW f \in Notifications, FrameOK(tb, ls, f),
         NEW k \in DOMAIN tb, NEW o \in Observers, o \notin Elements(ls[tb[k]].items),
         ls2[tb[k]].items = AppendUnique(ls[tb[k]].items, o),
         Walking(f) /\ f.list = tb[k] => ls2[tb[k]].iter = ls[tb[k]].iter,
         \A m \in TTLists : m # tb[k] => ls2[m] = ls[m]
  PROVE  FrameOK(tb, ls2, f)
  <1>1. PICK l \in TTLists : l = tb[k]
    BY DEF TableOK
  <1>2. PICK s : s = ls[l].items
    OBVIOUS
  <1>3. PICK r : r = ls2[l].items
    OBVIOUS
  <1>4. /\ DOMAIN s = 1..Len(s) /\ Len(s) \in Nat
        /\ DOMAIN r = 1..Len(s) + 1 /\ r[Len(s) + 1] = o
        /\ \A i \in 1..Len(s) : r[i] = s[i]
    <2>1. s \in Seq(Observers) /\ IsInjective(s) /\ r = AppendUnique(s, o)
      BY <1>1, <1>2, <1>3, ListTypes
    <2> QED
      BY <1>1, <1>2, <2>1, AddedOnce
  <1>5. \A key \in DOMAIN tb : tb[key] \in TTLists
    BY DEF TableOK
  <1>6. Elements(s) \subseteq Elements(r)
    BY <1>4 DEF Elements
  <1>7. \A pair : OnList(tb, ls, pair) => OnList(tb, ls2, pair)
    BY <1>1, <1>2, <1>3, <1>5, <1>6 DEF OnList
  <1>8. Walking(f) => f.list = tb[f.key] /\ f.list \in TTLists
    BY <1>5 DEF FrameOK, WalkOK
  <1>9. WalkOK(tb, ls2, f)
    <2> SUFFICES ASSUME Walking(f) PROVE ls2[f.list].iter \in DOMAIN ls2[f.list].items
      BY DEF FrameOK, WalkOK
    <2>1. ls[f.list].iter \in DOMAIN ls[f.list].items
      BY DEF FrameOK, WalkOK
    <2>2. CASE f.list = l
      BY <1>1, <1>2, <1>3, <1>4, <2>1, <2>2
    <2>3. CASE f.list # l
      BY <1>1, <1>8, <2>1, <2>3
    <2> QED
      BY <2>2, <2>3
  <1>10. ASSUME Walking(f), NEW pair, OnList(tb, ls, pair), pair[1] = f.key,
                NEW j \in DOMAIN ls2[f.list].items, ls2[f.list].items[j] = pair[2]
         PROVE  /\ j \in DOMAIN ls[f.list].items /\ ls[f.list].items[j] = pair[2]
                /\ Passed(ls2[f.list], f, j) <=> Passed(ls[f.list], f, j)
    <2>1. CASE f.list = l
      <3>1. pair[2] \in Elements(s)
        BY <1>2, <1>8, <1>10, <2>1 DEF OnList
      <3>2. pair[2] # o
        BY <1>1, <1>2, <3>1
      <3>3. j \in 1..Len(s) + 1 /\ r[j] = pair[2]
        BY <1>3, <1>4, <1>10, <2>1
      <3>4. j \in 1..Len(s)
        BY <1>4, <3>2, <3>3
      <3>5. ls2[f.list].iter = ls[f.list].iter
        BY <1>1, <1>10, <2>1
      <3>6. Passed(ls2[f.list], f, j) <=> Passed(ls[f.list], f, j)
        BY <3>5 DEF Passed
      <3> QED
        BY <1>2, <1>4, <2>1, <3>3, <3>4, <3>6
    <2>2. CASE f.list # l
      BY <1>1, <1>8, <1>10, <2>2
    <2> QED
      BY <2>1, <2>2
  <1>11. DueOK(tb, ls2, f)
    <2> SUFFICES ASSUME NEW pair \in f.due
                 PROVE  /\ OnList(tb, ls2, pair) /\ pair[1] \in Matching[f.address]
                        /\ \/ pair \in f.told \/ pair[1] \in f.todo
                           \/ /\ Walking(f) /\ pair[1] = f.key
                              /\ \A j \in DOMAIN ls2[f.list].items :
                                   ls2[f.list].items[j] = pair[2] => ~ Passed(ls2[f.list], f, j)
      BY DEF DueOK
    <2>1. /\ OnList(tb, ls, pair) /\ pair[1] \in Matching[f.address]
          /\ \/ pair \in f.told \/ pair[1] \in f.todo
             \/ /\ Walking(f) /\ pair[1] = f.key
                /\ \A j \in DOMAIN ls[f.list].items :
                     ls[f.list].items[j] = pair[2] => ~ Passed(ls[f.list], f, j)
      BY DEF FrameOK, DueOK
    <2> QED
      BY <1>7, <1>10, <2>1
  <1>12. ToldOK(tb, ls2, f)
    <2> SUFFICES ASSUME NEW pair \in f.told
                 PROVE  /\ OnList(tb, ls2, pair) /\ pair[1] \notin f.todo
                        /\ Walking(f) /\ pair[1] = f.key =>
                             \A j \in DOMAIN ls2[f.list].items :
                               ls2[f.list].items[j] = pair[2] => Passed(ls2[f.list], f, j)
      BY DEF ToldOK
    <2>1. /\ OnList(tb, ls, pair) /\ pair[1] \notin f.todo
          /\ Walking(f) /\ pair[1] = f.key =>
               \A j \in DOMAIN ls[f.list].items :
                 ls[f.list].items[j] = pair[2] => Passed(ls[f.list], f, j)
      BY DEF FrameOK, ToldOK
    <2> QED
      BY <1>7, <1>10, <2>1
  <1> QED
    BY <1>9, <1>11, <1>12 DEF FrameOK

(* An observer is removed where no walk stands: what comes behind moves    *)
(* up, and a walk that is behind it moves with it.                         *)
LEMMA FrameRemoved ==
  ASSUME NEW tb, NEW ls, NEW ls2, TableOK(tb, ls), ListsOK(ls), ListsOK(ls2),
         NEW f \in Notifications, FrameOK(tb, ls, f),
         NEW k \in DOMAIN tb, NEW p \in DOMAIN ls[tb[k]].items, NEW o, o = ls[tb[k]].items[p],
         ls2[tb[k]].items = RemoveFirst(ls[tb[k]].items, o),
         Walking(f) /\ f.list = tb[k] =>
           /\ ls[tb[k]].iter # p
           /\ ls2[tb[k]].iter = IF ls[tb[k]].iter > p THEN ls[tb[k]].iter - 1 ELSE ls[tb[k]].iter,
         \A m \in TTLists : m # tb[k] => ls2[m] = ls[m],
         NEW g \in Notifications, g.step = f.step, SameTurn(f, g),
         g.due = f.due \ {<<k, o>>}, g.told = f.told \ {<<k, o>>}, g.again = f.again \ {<<k, o>>}
  PROVE  FrameOK(tb, ls2, g)
  <1>1. PICK l \in TTLists : l = tb[k]
    BY DEF TableOK
  <1>2. PICK s : s = ls[l].items
    OBVIOUS
  <1>3. PICK r : r = ls2[l].items
    OBVIOUS
  <1>4. /\ Len(s) \in Nat \ {0} /\ DOMAIN s = 1..Len(s)
        /\ DOMAIN r = 1..Len(s) - 1
        /\ \A i \in DOMAIN r : r[i] = IF i < p THEN s[i] ELSE s[i + 1]
        /\ Elements(r) = Elements(s) \ {o}
    <2>1. /\ s \in Seq(Observers) /\ IsInjective(s) /\ p \in DOMAIN s /\ o = s[p]
          /\ r = RemoveFirst(s, s[p])
      BY <1>1, <1>2, <1>3, ListTypes
    <2> QED
      BY <2>1, RemovedOnce
  <1>5. \A key \in DOMAIN tb : tb[key] \in TTLists /\ (key # k => tb[key] # l)
    BY <1>1 DEF TableOK, IsInjective
  <1>6. ASSUME NEW pair \in Pairs, pair # <<k, o>>, OnList(tb, ls, pair)
        PROVE  OnList(tb, ls2, pair)
    <2>1. CASE pair[1] = k
      <3>1. pair[2] # o
        BY <1>6, <2>1 DEF Pairs
      <3> QED
        BY <1>1, <1>2, <1>3, <1>4, <1>6, <2>1, <3>1 DEF OnList
    <2>2. CASE pair[1] # k
      BY <1>1, <1>5, <1>6, <2>2 DEF OnList
    <2> QED
      BY <2>1, <2>2
  <1>7. /\ g.address = f.address /\ g.todo = f.todo /\ g.key = f.key /\ g.list = f.list
        /\ Walking(g) <=> Walking(f)
    BY DEF SameTurn, Walking
  <1>8. Walking(f) => f.list = tb[f.key] /\ f.list \in TTLists
    BY <1>5 DEF FrameOK, WalkOK
  <1>9. /\ f.list = l /\ Walking(f) => ls[l].iter \in 1..Len(s) /\ ls[l].iter # p
        /\ p \in 1..Len(s)
    BY <1>1, <1>2, <1>4 DEF FrameOK, WalkOK
  <1>10. WalkOK(tb, ls2, g)
    <2> SUFFICES ASSUME Walking(f) PROVE ls2[f.list].iter \in DOMAIN ls2[f.list].items
      BY <1>7 DEF FrameOK, WalkOK
    <2>1. ls[f.list].iter \in DOMAIN ls[f.list].items
      BY DEF FrameOK, WalkOK
    <2>2. CASE f.list = l
      <3>1. ls2[l].iter = IF ls[l].iter > p THEN ls[l].iter - 1 ELSE ls[l].iter
        BY <1>1, <2>2
      <3>2. ls2[l].iter \in 1..Len(s) - 1
        BY <1>4, <1>9, <2>2, <3>1
      <3> QED
        BY <1>3, <1>4, <2>2, <3>2
    <2>3. CASE f.list # l
      BY <1>1, <1>8, <2>1, <2>3
    <2> QED
      BY <2>2, <2>3
  <1>11. ASSUME Walking(f), NEW j \in DOMAIN ls2[f.list].items
         PROVE  \E i \in DOMAIN ls[f.list].items :
                  /\ ls2[f.list].items[j] = ls[f.list].items[i]
                  /\ Passed(ls2[f.list], g, j) <=> Passed(ls[f.list], f, i)
    <2>1. CASE f.list = l
      <3>1. PICK i : i = IF j < p THEN j ELSE j + 1
        OBVIOUS
      <3>2. j \in 1..Len(s) - 1 /\ i \in 1..Len(s) /\ r[j] = s[i]
        <4>1. j \in DOMAIN r
          BY <1>3, <1>11, <2>1
        <4>2. j \in 1..Len(s) - 1 /\ r[j] = IF j < p THEN s[j] ELSE s[j + 1]
          BY <1>4, <4>1
        <4>3. Len(s) \in Nat \ {0}
          BY <1>4
        <4> QED
          BY ONLY <3>1, <4>2, <4>3
      <3>3. ls2[l].iter = IF ls[l].iter > p THEN ls[l].iter - 1 ELSE ls[l].iter
        BY <1>1, <1>11, <2>1
      <3>4. PICK m : m = ls[l].iter
        OBVIOUS
      <3>5. PICK n : n = ls2[l].iter
        OBVIOUS
      <3>6. m \in 1..Len(s) /\ m # p /\ n = IF m > p THEN m - 1 ELSE m
        BY <1>9, <1>11, <2>1, <3>3, <3>4, <3>5
      <3>7. (j < n <=> i < m) /\ (j = n <=> i = m)
        <4>1. Len(s) \in Nat /\ p \in 1..Len(s)
          BY <1>4, <1>9
        <4>2. j \in Nat /\ m \in Nat /\ p \in Nat
          BY <3>2, <3>6, <4>1
        <4>3. CASE j < p
          BY ONLY <3>1, <3>6, <4>2, <4>3
        <4>4. CASE ~ (j < p)
          BY ONLY <3>1, <3>6, <4>2, <4>4
        <4> QED
          BY <4>3, <4>4
      <3>8. Passed(ls2[l], g, j) <=> Passed(ls[l], f, i)
        BY <3>4, <3>5, <3>7 DEF Passed
      <3> QED
        BY <1>2, <1>3, <1>4, <2>1, <3>2, <3>8
    <2>2. CASE f.list # l
      <3>1. ls2[f.list] = ls[f.list]
        BY <1>1, <1>8, <1>11, <2>2
      <3>2. Passed(ls2[f.list], g, j) <=> Passed(ls[f.list], f, j)
        BY <3>1 DEF Passed
      <3> QED
        BY <1>11, <3>1, <3>2
    <2> QED
      BY <2>1, <2>2
  <1>12. DueOK(tb, ls2, g)
    <2> SUFFICES ASSUME NEW pair \in g.due
                 PROVE  /\ OnList(tb, ls2, pair) /\ pair[1] \in Matching[f.address]
                        /\ \/ pair \in g.told \/ pair[1] \in f.todo
                           \/ /\ Walking(f) /\ pair[1] = f.key
                              /\ \A j \in DOMAIN ls2[f.list].items :
                                   ls2[f.list].items[j] = pair[2] => ~ Passed(ls2[f.list], g, j)
      BY <1>7 DEF DueOK
    <2>1. pair \in f.due /\ pair \in Pairs /\ pair # <<k, o>>
      BY FrameTypes
    <2>2. /\ OnList(tb, ls, pair) /\ pair[1] \in Matching[f.address]
          /\ \/ pair \in f.told \/ pair[1] \in f.todo
             \/ /\ Walking(f) /\ pair[1] = f.key
                /\ \A j \in DOMAIN ls[f.list].items :
                     ls[f.list].items[j] = pair[2] => ~ Passed(ls[f.list], f, j)
      BY <2>1 DEF FrameOK, DueOK
    <2>3. pair \in f.told => pair \in g.told
      BY <2>1
    <2> QED
      BY <1>6, <1>11, <2>1, <2>2, <2>3
  <1>13. ToldOK(tb, ls2, g)
    <2> SUFFICES ASSUME NEW pair \in g.told
                 PROVE  /\ OnList(tb, ls2, pair) /\ pair[1] \notin f.todo
                        /\ Walking(f) /\ pair[1] = f.key =>
                             \A j \in DOMAIN ls2[f.list].items :
                               ls2[f.list].items[j] = pair[2] => Passed(ls2[f.list], g, j)
      BY <1>7 DEF ToldOK
    <2>1. pair \in f.told /\ pair \in Pairs /\ pair # <<k, o>>
      BY FrameTypes
    <2>2. /\ OnList(tb, ls, pair) /\ pair[1] \notin f.todo
          /\ Walking(f) /\ pair[1] = f.key =>
               \A j \in DOMAIN ls[f.list].items :
                 ls[f.list].items[j] = pair[2] => Passed(ls[f.list], f, j)
      BY <2>1 DEF FrameOK, ToldOK
    <2> QED
      BY <1>6, <1>11, <2>1, <2>2
  <1>14. g.again = {}
    BY DEF FrameOK
  <1> QED
    BY <1>10, <1>12, <1>13, <1>14 DEF FrameOK

-----------------------------------------------------------------------------
(* The top of the stack makes a step.                                      *)
LEMMA FrameTold ==
  ASSUME NEW tb, NEW ls, TableOK(tb, ls), ListsOK(ls),
         NEW f \in Notifications, FrameOK(tb, ls, f), f.step = "tell",
         NEW pair, pair = <<f.key, ls[f.list].items[ls[f.list].iter]>>,
         NEW g \in Notifications, g.step = "handle", SameTurn(f, g), g.due = f.due,
         g.told = f.told \cup {pair},
         g.again = IF pair \in f.told THEN f.again \cup {pair} ELSE f.again
  PROVE  FrameOK(tb, ls, g)
  <1>1. /\ g.address = f.address /\ g.todo = f.todo /\ g.key = f.key /\ g.list = f.list
        /\ Walking(g) /\ Walking(f)
    BY DEF SameTurn, Walking
  <1>2. PICK r : r = ls[f.list]
    OBVIOUS
  <1>3. /\ f.key \in DOMAIN tb /\ f.key \notin f.todo /\ f.list = tb[f.key] /\ f.list \in TTLists
        /\ r.iter \in DOMAIN r.items
    BY <1>1, <1>2 DEF FrameOK, WalkOK, TableOK
  <1>4. /\ IsInjective(r.items) /\ Len(r.items) \in Nat /\ DOMAIN r.items = 1..Len(r.items)
    BY <1>2, <1>3, ListTypes
  <1>5. pair[1] = f.key /\ pair[2] = r.items[r.iter]
    BY <1>2
  <1>6. OnList(tb, ls, pair)
    BY <1>2, <1>3, <1>5 DEF OnList, Elements
  <1>7. pair \notin f.told
    <2> SUFFICES ASSUME pair \in f.told PROVE FALSE
      OBVIOUS
    <2>1. Passed(r, f, r.iter)
      BY <1>1, <1>2, <1>3, <1>5 DEF FrameOK, ToldOK
    <2> QED
      BY <1>3, <1>4, <2>1 DEF Passed
  <1>8. WalkOK(tb, ls, g)
    BY <1>1 DEF FrameOK, WalkOK
  <1>9. \A j \in DOMAIN r.items : Passed(r, g, j) <=> Passed(r, f, j) \/ j = r.iter
    BY DEF Passed
  <1>10. DueOK(tb, ls, g)
    <2> SUFFICES ASSUME NEW due \in f.due
                 PROVE  /\ OnList(tb, ls, due) /\ due[1] \in Matching[f.address]
                        /\ \/ due \in g.told \/ due[1] \in f.todo
                           \/ /\ due[1] = f.key
                              /\ \A j \in DOMAIN r.items : r.items[j] = due[2] => ~ Passed(r, g, j)
      BY <1>1, <1>2 DEF DueOK
    <2>1. /\ OnList(tb, ls, due) /\ due[1] \in Matching[f.address] /\ due \in Pairs
          /\ \/ due \in f.told \/ due[1] \in f.todo
             \/ /\ due[1] = f.key
                /\ \A j \in DOMAIN r.items : r.items[j] = due[2] => ~ Passed(r, f, j)
      BY <1>1, <1>2, FrameTypes DEF FrameOK, DueOK
    <2>2. CASE due = pair
      BY <2>1, <2>2
    <2>3. CASE due # pair
      <3>1. due[1] = f.key => due[2] # r.items[r.iter]
        <4>1. due = <<due[1], due[2]>>
          BY <2>1 DEF Pairs
        <4>2. pair = <<f.key, r.items[r.iter]>>
          BY <1>2
        <4> QED
          BY ONLY <2>3, <4>1, <4>2
      <3> QED
        BY <1>9, <2>1, <3>1
    <2> QED
      BY <2>2, <2>3
  <1>11. ToldOK(tb, ls, g)
    <2> SUFFICES ASSUME NEW told \in g.told
                 PROVE  /\ OnList(tb, ls, told) /\ told[1] \notin f.todo
                        /\ told[1] = f.key =>
                             \A j \in DOMAIN r.items : r.items[j] = told[2] => Passed(r, g, j)
      BY <1>1, <1>2 DEF ToldOK
    <2>1. CASE told \in f.told
      <3>1. /\ OnList(tb, ls, told) /\ told[1] \notin f.todo
            /\ told[1] = f.key =>
                 \A j \in DOMAIN r.items : r.items[j] = told[2] => Passed(r, f, j)
        BY <1>1, <1>2, <2>1 DEF FrameOK, ToldOK
      <3> QED
        BY <1>9, <3>1
    <2>2. CASE told = pair
      <3>1. \A j \in DOMAIN r.items : r.items[j] = r.items[r.iter] => j = r.iter
        BY <1>3, <1>4 DEF IsInjective
      <3> QED
        BY <1>3, <1>5, <1>6, <1>9, <2>2, <3>1
    <2> QED
      BY <2>1, <2>2
  <1>12. g.again = {}
    BY <1>7 DEF FrameOK
  <1> QED
    BY <1>8, <1>10, <1>11, <1>12 DEF FrameOK

(* A turn that tells nobody: no list has to be walked over for the key.    *)
LEMMA FrameTurned ==
  ASSUME NEW tb, NEW ls, NEW f \in Notifications, FrameOK(tb, ls, f), f.step = "key",
         NEW k, k \notin Matching[f.address],
         NEW g \in Notifications, g.step = "key", g.address = f.address,
         g.todo = f.todo \ {k}, SameHistory(f, g)
  PROVE  FrameOK(tb, ls, g)
  <1>1. ~ Walking(g)
    BY DEF Walking
  <1>2. WalkOK(tb, ls, g) /\ g.again = {}
    BY <1>1 DEF WalkOK, FrameOK, SameHistory
  <1>3. ASSUME NEW pair \in f.due
        PROVE  /\ OnList(tb, ls, pair) /\ pair[1] \in Matching[f.address]
               /\ pair \in f.told \/ pair[1] \in g.todo
    <2>1. /\ OnList(tb, ls, pair) /\ pair[1] \in Matching[f.address]
          /\ pair \in f.told \/ pair[1] \in f.todo
      BY DEF FrameOK, DueOK, Walking
    <2> QED
      BY <2>1
  <1>4. \A pair \in f.told : OnList(tb, ls, pair) /\ pair[1] \notin g.todo
    BY DEF FrameOK, ToldOK
  <1>5. DueOK(tb, ls, g)
    BY <1>3 DEF DueOK, SameHistory
  <1>6. ToldOK(tb, ls, g)
    BY <1>1, <1>4 DEF ToldOK, SameHistory
  <1> QED
    BY <1>2, <1>5, <1>6 DEF FrameOK

(* A turn that begins a walk, over a key that is still to come.            *)
LEMMA FrameEntered ==
  ASSUME NEW tb, NEW ls, NEW ls2, TableOK(tb, ls), ListsOK(ls),
         NEW f \in Notifications, FrameOK(tb, ls, f), f.step = "key",
         NEW k \in DOMAIN tb, k \in f.todo, k \in Matching[f.address],
         \A l \in TTLists : ls2[l].items = ls[l].items,
         ls2[tb[k]].iter = 1,
         NEW g \in Notifications, g.step = "tell", g.address = f.address,
         g.todo = f.todo \ {k}, g.key = k, g.list = tb[k], SameHistory(f, g)
  PROVE  FrameOK(tb, ls2, g)
  <1>1. \A key \in DOMAIN tb : tb[key] \in TTLists
    BY DEF TableOK
  <1>2. \A pair : OnList(tb, ls, pair) <=> OnList(tb, ls2, pair)
    BY <1>1 DEF OnList
  <1>3. Walking(g) /\ ~ Walking(f)
    BY DEF Walking
  <1>4. 1 \in DOMAIN ls2[tb[k]].items
    <2>1. ls[tb[k]].items # <<>>
      BY DEF TableOK
    <2>2. /\ Len(ls[tb[k]].items) \in Nat \ {0}
          /\ DOMAIN ls[tb[k]].items = 1..Len(ls[tb[k]].items)
      BY <1>1, <2>1, ListTypes
    <2>3. 1 \in DOMAIN ls[tb[k]].items
      BY <2>2
    <2> QED
      BY <1>1, <2>3
  <1>5. WalkOK(tb, ls2, g)
    BY <1>4 DEF WalkOK
  <1>6. DueOK(tb, ls2, g)
    <2> SUFFICES ASSUME NEW pair \in f.due
                 PROVE  /\ OnList(tb, ls2, pair) /\ pair[1] \in Matching[f.address]
                        /\ \/ pair \in f.told \/ pair[1] \in f.todo \ {k}
                           \/ pair[1] = k /\ \A j \in DOMAIN ls2[tb[k]].items :
                                               ~ Passed(ls2[tb[k]], g, j)
      BY <1>3 DEF DueOK, SameHistory
    <2>1. /\ OnList(tb, ls, pair) /\ pair[1] \in Matching[f.address]
          /\ pair \in f.told \/ pair[1] \in f.todo
      BY <1>3 DEF FrameOK, DueOK
    <2>2. \A j \in DOMAIN ls2[tb[k]].items : ~ Passed(ls2[tb[k]], g, j)
      <3>1. \A j \in DOMAIN ls[tb[k]].items : j \in Nat \ {0}
        <4>1. DOMAIN ls[tb[k]].items = 1..Len(ls[tb[k]].items) /\ Len(ls[tb[k]].items) \in Nat
          BY <1>1, ListTypes
        <4> QED
          BY <4>1
      <3> QED
        BY <1>1, <3>1 DEF Passed
    <2> QED
      BY <1>2, <2>1, <2>2
  <1>7. ToldOK(tb, ls2, g)
    <2>1. \A pair \in f.told : OnList(tb, ls, pair) /\ pair[1] \notin f.todo
      BY DEF FrameOK, ToldOK
    <2> QED
      BY <1>2, <2>1 DEF ToldOK, SameHistory
  <1> QED
    BY <1>5, <1>6, <1>7 DEF FrameOK, SameHistory

(* The observer returns: the walk is past it, or at its end.               *)
LEMMA FrameMoved ==
  ASSUME NEW tb, NEW ls, NEW ls2, TableOK(tb, ls), ListsOK(ls),
         NEW f \in Notifications, FrameOK(tb, ls, f), f.step = "handle",
         \A l \in TTLists : ls2[l].items = ls[l].items,
         ls2[f.list].iter = ls[f.list].iter + 1,
         NEW g \in Notifications, SameTurn(f, g), SameHistory(f, g),
         g.step = IF ls[f.list].iter + 1 > Len(ls[f.list].items) THEN "key" ELSE "tell"
  PROVE  FrameOK(tb, ls2, g)
  <1>1. \A key \in DOMAIN tb : tb[key] \in TTLists
    BY DEF TableOK
  <1>2. \A pair : OnList(tb, ls, pair) <=> OnList(tb, ls2, pair)
    BY <1>1 DEF OnList
  <1>3. /\ Walking(f) /\ f.key \in DOMAIN tb /\ f.list = tb[f.key] /\ f.list \in TTLists
        /\ f.key \in Matching[f.address] /\ f.key \notin f.todo
    BY <1>1 DEF FrameOK, WalkOK, Walking
  <1>4. PICK r : r = ls[f.list]
    OBVIOUS
  <1>5. PICK r2 : r2 = ls2[f.list]
    OBVIOUS
  <1>6. /\ Len(r.items) \in Nat /\ DOMAIN r.items = 1..Len(r.items) /\ r.iter \in 1..Len(r.items)
        /\ r2.items = r.items /\ r2.iter = r.iter + 1
    BY <1>3, <1>4, <1>5, ListTypes DEF FrameOK, WalkOK
  <1>7. g.step = IF r.iter + 1 > Len(r.items) THEN "key" ELSE "tell"
    BY <1>4
  <1>8. Walking(g) => g.step = "tell" /\ r2.iter \in DOMAIN r2.items
    BY <1>6, <1>7 DEF Walking
  <1>9. Walking(g) => \A j \in DOMAIN r.items : Passed(r2, g, j) <=> Passed(r, f, j)
    BY <1>6, <1>8 DEF Passed
  <1>10. ~ Walking(g) => \A j \in DOMAIN r.items : Passed(r, f, j)
    BY <1>6, <1>7 DEF Passed, Walking
  <1>11. WalkOK(tb, ls2, g)
    BY <1>3, <1>5, <1>8 DEF WalkOK, SameTurn
  <1>12. DueOK(tb, ls2, g)
    <2> SUFFICES ASSUME NEW pair \in f.due
                 PROVE  /\ OnList(tb, ls2, pair) /\ pair[1] \in Matching[f.address]
                        /\ \/ pair \in f.told \/ pair[1] \in f.todo
                           \/ /\ Walking(g) /\ pair[1] = f.key
                              /\ \A j \in DOMAIN r2.items :
                                   r2.items[j] = pair[2] => ~ Passed(r2, g, j)
      BY <1>5 DEF DueOK, SameTurn, SameHistory
    <2>1. /\ OnList(tb, ls, pair) /\ pair[1] \in Matching[f.address]
          /\ \/ pair \in f.told \/ pair[1] \in f.todo
             \/ /\ pair[1] = f.key
                /\ \A j \in DOMAIN r.items : r.items[j] = pair[2] => ~ Passed(r, f, j)
      BY <1>4 DEF FrameOK, DueOK
    <2>2. pair[1] = f.key => \E j \in DOMAIN r.items : r.items[j] = pair[2]
      BY <1>3, <1>4, <2>1 DEF OnList, Elements
    <2> QED
      BY <1>2, <1>6, <1>9, <1>10, <2>1, <2>2
  <1>13. ToldOK(tb, ls2, g)
    <2> SUFFICES ASSUME NEW pair \in f.told
                 PROVE  /\ OnList(tb, ls2, pair) /\ pair[1] \notin f.todo
                        /\ Walking(g) /\ pair[1] = f.key =>
                             \A j \in DOMAIN r2.items :
                               r2.items[j] = pair[2] => Passed(r2, g, j)
      BY <1>5 DEF ToldOK, SameTurn, SameHistory
    <2>1. /\ OnList(tb, ls, pair) /\ pair[1] \notin f.todo
          /\ pair[1] = f.key =>
               \A j \in DOMAIN r.items : r.items[j] = pair[2] => Passed(r, f, j)
      BY <1>3, <1>4 DEF FrameOK, ToldOK
    <2> QED
      BY <1>2, <1>6, <1>9, <2>1
  <1> QED
    BY <1>11, <1>12, <1>13 DEF FrameOK, SameHistory

(* At the beginning all that are due are still to come.                    *)
LEMMA FrameBegun ==
  ASSUME NEW tb, NEW ls, NEW g \in Notifications, g.step = "key", g.todo = DOMAIN tb,
         \A pair \in g.due : OnList(tb, ls, pair) /\ pair[1] \in Matching[g.address],
         g.told = {}, g.again = {}
  PROVE  FrameOK(tb, ls, g)
  <1>1. ~ Walking(g)
    BY DEF Walking
  <1>2. DueOK(tb, ls, g)
    BY DEF DueOK, OnList
  <1> QED
    BY <1>1, <1>2 DEF FrameOK, WalkOK, ToldOK

-----------------------------------------------------------------------------
(* What the invariant says of the stack, when its top is changed, and when *)
(* a notification begins or ends.                                          *)
LEMMA StackTypes ==
  ASSUME NEW st \in Seq(Notifications)
  PROVE  /\ Len(st) \in Nat /\ DOMAIN st = 1..Len(st)
         /\ \A i \in DOMAIN st : st[i] \in Notifications
         /\ st # <<>> => 1 \in DOMAIN st /\ Head(st) = st[1] /\ st[1] \in Notifications
         /\ st = <<>> => DOMAIN st = {}
  <1>1. Len(st) \in Nat /\ DOMAIN st = 1..Len(st) /\ (st = <<>> <=> Len(st) = 0)
    BY LenProperties, EmptySeq
  <1>2. \A i \in DOMAIN st : st[i] \in Notifications
    BY <1>1, ElementOfSeq
  <1>3. st # <<>> => Head(st) = st[1]
    BY Pop
  <1> QED
    BY <1>1, <1>2, <1>3

LEMMA Retopped ==
  ASSUME NEW tb, NEW ls, NEW ls2, NEW st \in Seq(Notifications), st # <<>>,
         StackOK(tb, ls, st), NEW g \in Notifications, TurnOK(tb, g),
         g.step = "tell" => ls2[g.list].iter \in DOMAIN ls2[g.list].items
  PROVE  \E st2 \in Seq(Notifications) :
           st2 = <<g>> \o Tail(st) /\ StackOK(tb, ls2, st2)
  <1>1. PICK st2 : st2 = Pushed(Tail(st), g)
    OBVIOUS
  <1>2. /\ st2 \in Seq(Notifications) /\ st2 # <<>> /\ DOMAIN st2 = DOMAIN st /\ st2[1] = g
        /\ \A i \in DOMAIN st : i # 1 => st2[i] = st[i]
    <2> DEFINE r == Pushed(Tail(st), g)
    <2>1. /\ r \in Seq(Notifications) /\ r # <<>> /\ DOMAIN r = DOMAIN st /\ r[1] = g
          /\ \A i \in DOMAIN st : i # 1 => r[i] = st[i]
      BY Retop
    <2> QED
      BY <1>1, <2>1
  <1>3. ASSUME NEW i \in DOMAIN st2 PROVE TurnOK(tb, st2[i]) /\ (i > 1 => st2[i].step = "handle")
    <2>1. CASE i = 1
      BY <1>2, <2>1
    <2>2. CASE i # 1
      BY <1>2, <2>2 DEF StackOK
    <2> QED
      BY <2>1, <2>2
  <1>4. StackOK(tb, ls2, st2)
    BY <1>2, <1>3 DEF StackOK
  <1> QED
    BY <1>1, <1>2, <1>4 DEF Pushed

LEMMA RetoppedTelling ==
  ASSUME NEW tb, NEW ls, NEW ls2, NEW st \in Seq(Notifications), st # <<>>,
         Telling(tb, ls, st), NEW g \in Notifications,
         g.address = st[1].address, FrameOK(tb, ls2, g),
         \A i \in DOMAIN st : i # 1 => FrameOK(tb, ls2, st[i])
  PROVE  Telling(tb, ls2, <<g>> \o Tail(st))
  <1>1. PICK st2 : st2 = Pushed(Tail(st), g)
    OBVIOUS
  <1>2. /\ DOMAIN st2 = DOMAIN st /\ st2[1] = g
        /\ \A i \in DOMAIN st : i # 1 => st2[i] = st[i]
    <2> DEFINE r == Pushed(Tail(st), g)
    <2>1. /\ DOMAIN r = DOMAIN st /\ r[1] = g
          /\ \A i \in DOMAIN st : i # 1 => r[i] = st[i]
      BY Retop
    <2> QED
      BY <1>1, <2>1
  <1>3. DOMAIN st = 1..Len(st) /\ Len(st) \in Nat
    BY StackTypes
  <1>4. ASSUME NEW i \in DOMAIN st2 PROVE FrameOK(tb, ls2, st2[i]) /\ st2[i].address = st[i].address
    <2>1. CASE i = 1
      BY <1>2, <2>1
    <2>2. CASE i # 1
      BY <1>2, <2>2
    <2> QED
      BY <2>1, <2>2
  <1>5. ASSUME NEW i \in DOMAIN st2, NEW j \in DOMAIN st2, i < j
        PROVE  st2[j].key \notin Matching[st2[i].address]
    <2>1. j # 1 /\ st2[j] = st[j]
      BY <1>2, <1>3, <1>5
    <2> QED
      BY <1>2, <1>4, <1>5, <2>1 DEF Telling
  <1>6. Telling(tb, ls2, st2)
    BY <1>4, <1>5 DEF Telling
  <1> QED
    BY <1>1, <1>6 DEF Pushed

LEMMA Begun ==
  ASSUME NEW tb, NEW ls, NEW st \in Seq(Notifications), StackOK(tb, ls, st),
         st # <<>> => st[1].step = "handle",
         NEW g \in Notifications, TurnOK(tb, g), g.step = "key"
  PROVE  \E st2 \in Seq(Notifications) :
           /\ st2 = <<g>> \o st /\ StackOK(tb, ls, st2)
           /\ /\ Telling(tb, ls, st) /\ FrameOK(tb, ls, g)
              /\ \A i \in DOMAIN st : st[i].key \notin Matching[g.address]
              => Telling(tb, ls, st2)
  <1>1. PICK st2 : st2 = Pushed(st, g)
    OBVIOUS
  <1>2. /\ st2 \in Seq(Notifications) /\ st2 # <<>>
        /\ DOMAIN st2 = 1..Len(st) + 1 /\ st2[1] = g
        /\ \A i \in 2..Len(st) + 1 : st2[i] = st[i - 1]
    <2> DEFINE r == Pushed(st, g)
    <2>1. /\ r \in Seq(Notifications) /\ r # <<>> /\ DOMAIN r = 1..Len(st) + 1 /\ r[1] = g
          /\ \A i \in 2..Len(st) + 1 : r[i] = st[i - 1]
      BY Push
    <2> QED
      BY <1>1, <2>1
  <1>3. Len(st) \in Nat /\ DOMAIN st = 1..Len(st) /\ (st # <<>> => 1 \in DOMAIN st)
    BY StackTypes
  <1>4. \A i \in DOMAIN st2 : i # 1 => i - 1 \in DOMAIN st /\ st2[i] = st[i - 1]
    BY <1>2, <1>3
  <1>5. \A i \in DOMAIN st : st[i].step = "handle"
    <2>1. ASSUME NEW i \in DOMAIN st PROVE i = 1 \/ i > 1
      BY <1>3
    <2>2. 1 \in DOMAIN st => st # <<>>
      BY StackTypes
    <2> QED
      BY <2>1, <2>2 DEF StackOK
  <1>6. StackOK(tb, ls, st2)
    <2>1. ASSUME NEW i \in DOMAIN st2 PROVE TurnOK(tb, st2[i]) /\ (i > 1 => st2[i].step = "handle")
      <3>1. CASE i = 1
        BY <1>2, <3>1
      <3>2. CASE i # 1
        BY <1>4, <1>5, <3>2 DEF StackOK
      <3> QED
        BY <3>1, <3>2
    <2> QED
      BY <1>2, <2>1 DEF StackOK
  <1>7. ASSUME Telling(tb, ls, st), FrameOK(tb, ls, g),
               \A i \in DOMAIN st : st[i].key \notin Matching[g.address]
        PROVE  Telling(tb, ls, st2)
    <2>1. ASSUME NEW i \in DOMAIN st2 PROVE FrameOK(tb, ls, st2[i])
      BY <1>2, <1>4, <1>7 DEF Telling
    <2>2. ASSUME NEW i \in DOMAIN st2, NEW j \in DOMAIN st2, i < j
          PROVE  st2[j].key \notin Matching[st2[i].address]
      <3>1. j # 1 /\ j - 1 \in DOMAIN st /\ st2[j] = st[j - 1]
        BY <1>2, <1>3, <1>4, <2>2
      <3>2. CASE i = 1
        BY <1>2, <1>7, <3>1, <3>2
      <3>3. CASE i # 1
        <4>1. i - 1 \in DOMAIN st /\ st2[i] = st[i - 1] /\ i - 1 < j - 1
          BY <1>2, <1>3, <1>4, <2>2, <3>3
        <4> QED
          BY <1>7, <3>1, <4>1 DEF Telling
      <3> QED
        BY <3>2, <3>3
    <2> QED
      BY <2>1, <2>2 DEF Telling
  <1> QED
    BY <1>1, <1>2, <1>6, <1>7 DEF Pushed

LEMMA Ended ==
  ASSUME NEW tb, NEW ls, NEW st \in Seq(Notifications), st # <<>>, StackOK(tb, ls, st)
  PROVE  /\ Tail(st) \in Seq(Notifications) /\ StackOK(tb, ls, Tail(st))
         /\ Telling(tb, ls, st) => Telling(tb, ls, Tail(st))
  <1>1. PICK st2 : st2 = Tail(st)
    OBVIOUS
  <1>2. /\ st2 \in Seq(Notifications) /\ Len(st) \in Nat \ {0} /\ DOMAIN st = 1..Len(st)
        /\ DOMAIN st2 = 1..Len(st) - 1
        /\ \A i \in 1..Len(st) - 1 : st2[i] = st[i + 1]
    BY <1>1, Pop
  <1>3. \A i \in DOMAIN st2 : i + 1 \in DOMAIN st /\ i + 1 > 1 /\ st2[i] = st[i + 1]
    BY <1>2
  <1>4. \A i \in DOMAIN st2 : TurnOK(tb, st2[i]) /\ st2[i].step = "handle"
    BY <1>3 DEF StackOK
  <1>5. st2 # <<>> => 1 \in DOMAIN st2
    BY <1>2, StackTypes
  <1>6. StackOK(tb, ls, st2)
    BY <1>4, <1>5 DEF StackOK
  <1>7. ASSUME Telling(tb, ls, st) PROVE Telling(tb, ls, st2)
    <2>1. \A i \in DOMAIN st2 : FrameOK(tb, ls, st2[i])
      BY <1>3, <1>7 DEF Telling
    <2>2. ASSUME NEW i \in DOMAIN st2, NEW j \in DOMAIN st2, i < j
          PROVE  st2[j].key \notin Matching[st2[i].address]
      <3>1. i + 1 < j + 1
        BY <1>2, <2>2
      <3> QED
        BY <1>3, <1>7, <3>1 DEF Telling
    <2> QED
      BY <2>1, <2>2 DEF Telling
  <1> QED
    BY <1>1, <1>2, <1>6, <1>7

-----------------------------------------------------------------------------
(* The invariant holds initially.                                          *)
LEMMA InitIInv == Init => IInv
  <1> SUFFICES ASSUME Init PROVE IInv
    OBVIOUS
  <1>1. table = <<>> /\ stack = <<>> /\ lists = [l \in TTLists |-> [items |-> <<>>, iter |-> 1]]
    BY DEF Init
  <1>2. DOMAIN table = {} /\ DOMAIN stack = {} /\ stack \in Seq(Notifications)
    BY <1>1
  <1>3. ListOK([items |-> <<>>, iter |-> 1])
    BY DEF ListOK, IsInjective
  <1>4. ListsOK(lists)
    BY <1>1, <1>3 DEF ListsOK, ListOK
  <1>5. TableOK(table, lists)
    BY <1>1, <1>2 DEF TableOK, IsInjective
  <1>6. StackOK(table, lists, stack) /\ Telling(table, lists, stack)
    BY <1>1, <1>2 DEF StackOK, Telling
  <1>7. IterInv
    BY <1>1 DEF IterInv
  <1> QED
    BY <1>2, <1>4, <1>5, <1>6, <1>7 DEF IInv, TypeInv, StackInv, ToldInv

(* What is known of the state and of its top.                              *)
LEMMA StateTypes ==
  ASSUME IInv
  PROVE  /\ ListsOK(lists) /\ TableOK(table, lists) /\ stack \in Seq(Notifications)
         /\ StackOK(table, lists, stack) /\ (Disciplined => Telling(table, lists, stack))
         /\ \A i \in DOMAIN stack : stack[i] \in Notifications /\ stack[i] \in Frames
         /\ stack # <<>> => 1 \in DOMAIN stack /\ Top = stack[1]
         /\ stack = <<>> => DOMAIN stack = {}
         /\ \A k \in DOMAIN table : k \in Keys /\ table[k] \in TTLists
         /\ Disciplined => KeysStay /\ NotUnderIterator /\ "NotifyElsewhere" \in Rules
  <1>1. /\ ListsOK(lists) /\ TableOK(table, lists) /\ stack \in Seq(Notifications)
        /\ StackOK(table, lists, stack) /\ (Disciplined => Telling(table, lists, stack))
    BY DEF IInv, TypeInv, StackInv, ToldInv
  <1>2. \A i \in DOMAIN stack : stack[i] \in Notifications /\ stack[i] \in Frames
    BY <1>1, StackTypes DEF Frames
  <1>3. stack # <<>> => 1 \in DOMAIN stack /\ Top = stack[1]
    BY <1>1, StackTypes DEF Top
  <1>4. \A k \in DOMAIN table : k \in Keys /\ table[k] \in TTLists
    BY <1>1 DEF TableOK
  <1>5. Disciplined => KeysStay /\ NotUnderIterator /\ "NotifyElsewhere" \in Rules
    BY DEF Disciplined, KeysStay, NotUnderIterator, CallerRules
  <1> QED
    BY <1>1, <1>2, <1>3, <1>4, <1>5, StackTypes

LEMMA KeysCounted ==
  ASSUME NEW tb, NEW ls, TableOK(tb, ls)
  PROVE  /\ IsFiniteSet(DOMAIN tb) /\ Cardinality(DOMAIN tb) \in Nat
         /\ Cardinality(Keys) \in Nat /\ Cardinality(DOMAIN tb) <= Cardinality(Keys)
  <1>1. PICK D : D = DOMAIN tb
    OBVIOUS
  <1>2. IsFiniteSet(Keys) /\ D \in SUBSET Keys
    BY <1>1 DEF TableOK, ObserversAssumption
  <1>3. IsFiniteSet(D) /\ Cardinality(D) <= Cardinality(Keys)
    BY <1>2, FS_Subset
  <1> QED
    BY <1>1, <1>2, <1>3, FS_CardinalityType

LEMMA Walkers ==
  ASSUME IInv, NEW i \in DOMAIN stack, Walking(stack[i])
  PROVE  Walked(stack[i].list) /\ stack[i].list \in TTLists /\ stack[i].key \in Keys
  <1>1. stack[i] \in Frames /\ stack[i] \in Notifications /\ TurnOK(table, stack[i])
    BY StateTypes DEF StackOK
  <1>2. stack[i].list \in TTLists /\ stack[i].key \in Keys
    BY <1>1, FrameTypes DEF TurnOK
  <1> QED
    BY <1>1, <1>2 DEF Walked, Walking

-----------------------------------------------------------------------------
(* An observer is added for a key that has a list.                         *)
LEMMA AddOldStep ==
  ASSUME IInv, NEW k \in DOMAIN table, NEW o \in Observers, AddObserver(k, o)
  PROVE  IInv'
  <1>1. PICK l \in TTLists : l = table[k]
    BY StateTypes
  <1>2. PICK old : old = lists[l]
    OBVIOUS
  <1>3. /\ old.items \in Seq(Observers) /\ IsInjective(old.items) /\ old.iter \in Nat
        /\ old.iter <= Len(old.items) + 1 /\ Len(old.items) \in Nat
        /\ DOMAIN old.items = 1..Len(old.items)
    BY <1>2, StateTypes, ListTypes
  <1>4. PICK new : new = AppendUnique(old.items, o)
    OBVIOUS
  <1>5. /\ MayCall /\ new # old.items /\ table' = table /\ stack' = stack
        /\ Changed(l, new, IF old.iter > Len(old.items) THEN Len(new) + 1 ELSE old.iter)
    BY <1>1, <1>2, <1>4 DEF AddObserver
  <1>6. o \notin Elements(old.items)
    BY <1>4, <1>5 DEF AppendUnique
  <1>7. new \in Seq(Observers) /\ IsInjective(new) /\ Len(new) = Len(old.items) + 1
    BY <1>3, <1>4, <1>6, AddedOnce
  <1>8. PICK r : r = [items |-> new,
                      iter |-> IF Walked(l) THEN IF old.iter > Len(old.items)
                                                 THEN Len(new) + 1 ELSE old.iter
                               ELSE Len(new) + 1]
    OBVIOUS
  <1>9. ListOK(r) /\ r.items = new /\ (old.iter > 0 => r.iter > 0)
        /\ (Walked(l) /\ old.iter <= Len(old.items) => r.iter = old.iter)
    BY <1>3, <1>7, <1>8 DEF ListOK
  <1>10. PICK ls2 : /\ ls2 = [lists EXCEPT ![l] = r] /\ ListsOK(ls2)
                    /\ ls2[l] = r /\ \A m \in TTLists : m # l => ls2[m] = lists[m]
    BY <1>9, StateTypes, OneChanges
  <1>11. lists' = ls2
    BY <1>5, <1>8, <1>10 DEF Changed
  <1>12. TableOK(table, ls2)
    <2>1. new # <<>>
      BY <1>3, <1>7, EmptySeq
    <2>2. \A key \in DOMAIN table : ls2[table[key]].items # <<>>
      <3>1. \A key \in DOMAIN table : table[key] \in TTLists /\ lists[table[key]].items # <<>>
        BY StateTypes DEF TableOK
      <3> QED
        BY <1>9, <1>10, <2>1, <3>1
    <2> QED
      BY <2>2, StateTypes DEF TableOK
  <1>13. IterInv'
    <2>1. NotUnderIterator => \A m \in TTLists : ls2[m].iter > 0
      BY <1>2, <1>9, <1>10 DEF IInv, IterInv
    <2> QED
      BY <1>11, <2>1 DEF IterInv
  <1>14. StackOK(table, ls2, stack)
    <2>1. stack # <<>> => stack[1].step = "handle"
      BY <1>5, StateTypes DEF MayCall
    <2> QED
      BY <2>1, StateTypes DEF StackOK
  <1>15. ASSUME Disciplined PROVE Telling(table, ls2, stack)
    <2>1. Telling(table, lists, stack)
      BY <1>15, StateTypes
    <2>2. ASSUME NEW i \in DOMAIN stack PROVE FrameOK(table, ls2, stack[i])
      <3>1. PICK f \in Notifications : f = stack[i]
        BY StateTypes
      <3>2. FrameOK(table, lists, f)
        BY <2>1, <3>1 DEF Telling
      <3>3. ASSUME Walking(f), f.list = l PROVE ls2[l].iter = lists[l].iter
        <4>1. Walked(l)
          BY <3>1, <3>3, Walkers
        <4>2. lists[l].iter \in DOMAIN lists[l].items
          BY <3>2, <3>3 DEF FrameOK, WalkOK
        <4>3. old.iter <= Len(old.items)
          BY <1>2, <1>3, <4>2
        <4> QED
          BY <1>2, <1>9, <1>10, <4>1, <4>3
      <3>4. /\ TableOK(table, lists) /\ ListsOK(lists) /\ o \notin Elements(lists[table[k]].items)
            /\ ls2[table[k]].items = AppendUnique(lists[table[k]].items, o)
            /\ Walking(f) /\ f.list = table[k] => ls2[table[k]].iter = lists[table[k]].iter
            /\ \A m \in TTLists : m # table[k] => ls2[m] = lists[m]
        BY <1>1, <1>2, <1>4, <1>6, <1>9, <1>10, <3>3, StateTypes
      <3>5. FrameOK(table, ls2, f)
        BY <1>10, <3>2, <3>4, FrameAdded
      <3> QED
        BY <3>1, <3>5
    <2> QED
      BY <2>1, <2>2 DEF Telling
  <1> QED
    BY <1>5, <1>10, <1>11, <1>12, <1>13, <1>14, <1>15, StateTypes
       DEF IInv, TypeInv, StackInv, ToldInv

(* A key comes with its first observer, and takes a list that nobody has.  *)
LEMMA AddNewStep ==
  ASSUME IInv, NEW k \in Keys, k \notin DOMAIN table, NEW o \in Observers, AddObserver(k, o)
  PROVE  IInv'
  <1>1. PICK unused : unused = TTLists \ (Range(table) \cup {f.list : f \in Frames})
    OBVIOUS
  <1>2. PICK l : l = CHOOSE m \in unused : \A n \in unused : m <= n
    OBVIOUS
  <1>3. /\ MayCall /\ MayChangeKeys /\ unused # {} /\ Changed(l, <<o>>, 1) /\ stack' = stack
        /\ table' = [key \in DOMAIN table \cup {k} |-> IF key = k THEN l ELSE table[key]]
    BY <1>1, <1>2 DEF AddObserver
  <1>4. l \in unused
    <2>1. unused \in SUBSET Nat
      BY <1>1 DEF TTLists, ObserversAssumption
    <2>2. \E m \in unused : \A n \in unused : m <= n
      BY <1>3, <2>1, Least
    <2> QED
      BY <1>2, <2>2
  <1>5. l \in TTLists /\ \A key \in DOMAIN table : table[key] # l
    BY <1>1, <1>4 DEF Range
  <1>6. PICK r : r = [items |-> <<o>>, iter |-> IF Walked(l) THEN 1 ELSE Len(<<o>>) + 1]
    OBVIOUS
  <1>7. <<o>> \in Seq(Observers) /\ Len(<<o>>) = 1 /\ <<o>> # <<>> /\ IsInjective(<<o>>)
    BY DEF IsInjective
  <1>8. ListOK(r) /\ r.items # <<>> /\ r.iter > 0
    BY <1>6, <1>7 DEF ListOK
  <1>9. PICK ls2 : /\ ls2 = [lists EXCEPT ![l] = r] /\ ListsOK(ls2)
                   /\ ls2[l] = r /\ \A m \in TTLists : m # l => ls2[m] = lists[m]
    BY <1>5, <1>8, StateTypes, OneChanges
  <1>10. lists' = ls2
    BY <1>3, <1>6, <1>9 DEF Changed
  <1>11. PICK tb2 : tb2 = [key \in DOMAIN table \cup {k} |-> IF key = k THEN l ELSE table[key]]
    OBVIOUS
  <1>12. TableOK(tb2, ls2)
    <2>1. \A key \in DOMAIN table :
            key \in Keys /\ table[key] \in TTLists /\ lists[table[key]].items # <<>>
      BY StateTypes DEF TableOK
    <2>2. DOMAIN tb2 \subseteq Keys /\ tb2 \in [DOMAIN tb2 -> TTLists]
      BY <1>5, <1>11, <2>1
    <2>3. ASSUME NEW i \in DOMAIN tb2, NEW j \in DOMAIN tb2, tb2[i] = tb2[j] PROVE i = j
      <3>1. IsInjective(table)
        BY StateTypes DEF TableOK
      <3> QED
        BY <1>5, <1>11, <2>3, <3>1 DEF IsInjective
    <2>4. \A key \in DOMAIN tb2 : ls2[tb2[key]].items # <<>>
      BY <1>5, <1>8, <1>9, <1>11, <2>1
    <2> QED
      BY <2>2, <2>3, <2>4 DEF TableOK, IsInjective
  <1>13. IterInv'
    <2>1. NotUnderIterator => \A m \in TTLists : ls2[m].iter > 0
      BY <1>8, <1>9 DEF IInv, IterInv
    <2> QED
      BY <1>10, <2>1 DEF IterInv
  <1>14. KeysStay => DOMAIN stack = {} /\ stack = <<>>
    BY <1>3, StateTypes DEF MayChangeKeys, KeysStay
  <1>15. StackOK(tb2, ls2, stack)
    <2>1. stack # <<>> => stack[1].step = "handle"
      BY <1>3, StateTypes DEF MayCall
    <2>2. \A i \in DOMAIN stack : TurnOK(tb2, stack[i]) /\ (i > 1 => stack[i].step = "handle")
      BY <1>14, StateTypes DEF StackOK, TurnOK
    <2> QED
      BY <2>1, <2>2 DEF StackOK
  <1>16. Disciplined => Telling(tb2, ls2, stack)
    BY <1>14, StateTypes DEF Telling
  <1> QED
    BY <1>3, <1>9, <1>10, <1>11, <1>12, <1>13, <1>15, <1>16, StateTypes
       DEF IInv, TypeInv, StackInv, ToldInv

(* The stack when the histories forget an observer.                        *)
LEMMA ForgetAll ==
  ASSUME stack \in Seq(Notifications), NEW pair
  PROVE  \E st2 \in Seq(Notifications) :
           /\ st2 = Forgotten(pair) /\ DOMAIN st2 = DOMAIN stack
           /\ \A i \in DOMAIN stack :
                /\ st2[i] \in Notifications /\ st2[i].step = stack[i].step
                /\ SameTurn(stack[i], st2[i])
                /\ st2[i].due = stack[i].due \ {pair} /\ st2[i].told = stack[i].told \ {pair}
                /\ st2[i].again = stack[i].again \ {pair}
  <1>1. PICK st2 : st2 = Forgotten(pair)
    OBVIOUS
  <1>2. /\ Len(stack) \in Nat /\ DOMAIN stack = 1..Len(stack)
        /\ \A i \in DOMAIN stack : stack[i] \in Notifications
    BY StackTypes
  <1>3. \A i \in DOMAIN stack :
          st2[i] = [stack[i] EXCEPT !.due = @ \ {pair}, !.told = @ \ {pair}, !.again = @ \ {pair}]
    BY <1>1 DEF Forgotten
  <1>4. \A i \in DOMAIN stack :
          /\ st2[i] \in Notifications /\ st2[i].step = stack[i].step
          /\ SameTurn(stack[i], st2[i])
          /\ st2[i].due = stack[i].due \ {pair} /\ st2[i].told = stack[i].told \ {pair}
          /\ st2[i].again = stack[i].again \ {pair}
    <2> SUFFICES ASSUME NEW i \in DOMAIN stack
                 PROVE  /\ st2[i] \in Notifications /\ st2[i].step = stack[i].step
                        /\ SameTurn(stack[i], st2[i])
                        /\ st2[i].due = stack[i].due \ {pair}
                        /\ st2[i].told = stack[i].told \ {pair}
                        /\ st2[i].again = stack[i].again \ {pair}
      OBVIOUS
    <2>1. PICK f \in Notifications : f = stack[i]
      BY <1>2
    <2>2. PICK g \in Notifications :
            /\ g = [f EXCEPT !.due = @ \ {pair}, !.told = @ \ {pair}, !.again = @ \ {pair}]
            /\ g.step = f.step /\ SameTurn(f, g)
            /\ g.due = f.due \ {pair} /\ g.told = f.told \ {pair}
            /\ g.again = f.again \ {pair}
      BY ForgetOne
    <2>3. st2[i] = g
      BY <1>3, <2>1, <2>2
    <2> QED
      BY <2>1, <2>2, <2>3
  <1>5. DOMAIN st2 = 1..Len(stack) /\ st2 = [i \in 1..Len(stack) |-> st2[i]]
    BY <1>1, <1>2 DEF Forgotten
  <1>6. st2 \in Seq(Notifications)
    BY <1>2, <1>4, <1>5
  <1> QED
    BY <1>1, <1>2, <1>4, <1>5, <1>6

(* An observer is removed, and with the last one the key.                  *)
LEMMA RemoveStep ==
  ASSUME IInv, NEW k \in Keys, NEW o \in Observers, RemoveObserver(k, o)
  PROVE  IInv'
  <1>0. k \in DOMAIN table
    BY DEF RemoveObserver
  <1>1. PICK l \in TTLists : l = table[k]
    BY <1>0, StateTypes
  <1>2. PICK old : old = lists[l]
    OBVIOUS
  <1>3. /\ old.items \in Seq(Observers) /\ IsInjective(old.items) /\ old.iter \in Nat
        /\ old.iter <= Len(old.items) + 1 /\ Len(old.items) \in Nat
        /\ DOMAIN old.items = 1..Len(old.items)
    BY <1>2, StateTypes, ListTypes
  <1>4. PICK p : p = CHOOSE i \in DOMAIN old.items : old.items[i] = o
    OBVIOUS
  <1>5. PICK new : new = RemoveFirst(old.items, o)
    OBVIOUS
  <1>6. /\ MayCall /\ o \in Elements(old.items)
        /\ new = <<>> => MayChangeKeys
        /\ "NotUnderIterator" \in Rules => ~ (Walked(l) /\ old.iter = p)
        /\ Changed(l, new, IF old.iter = p THEN 0
                           ELSE IF old.iter > p THEN old.iter - 1 ELSE old.iter)
        /\ table' = TableWithout(k, new)
        /\ stack' = Forgotten(<<k, o>>)
    BY <1>1, <1>2, <1>4, <1>5 DEF RemoveObserver, Items
  <1>7. p \in DOMAIN old.items /\ old.items[p] = o
    BY <1>4, <1>6 DEF Elements
  <1>8. /\ new \in Seq(Observers) /\ IsInjective(new) /\ Len(new) = Len(old.items) - 1
    <2>1. PICK s \in Seq(Observers) : s = old.items
      BY <1>3
    <2>2. IsInjective(s) /\ p \in DOMAIN s /\ new = RemoveFirst(s, s[p])
      BY <1>3, <1>5, <1>7, <2>1
    <2>3. new \in Seq(Observers) /\ IsInjective(new) /\ Len(new) = Len(s) - 1
      BY <2>2, RemovedOnce
    <2> QED
      BY <2>1, <2>3
  <1>9. PICK r : r = [items |-> new,
                      iter |-> IF Walked(l) THEN IF old.iter = p THEN 0
                                                 ELSE IF old.iter > p THEN old.iter - 1
                                                 ELSE old.iter
                               ELSE Len(new) + 1]
    OBVIOUS
  <1>10. /\ ListOK(r) /\ r.items = new
         /\ NotUnderIterator /\ old.iter > 0 => r.iter > 0
         /\ Walked(l) /\ old.iter # p =>
              r.iter = IF old.iter > p THEN old.iter - 1 ELSE old.iter
    <2>1. p \in 1..Len(old.items) /\ Len(new) \in Nat
      BY <1>3, <1>7, <1>8
    <2>2. r.items = new /\ r.iter \in Nat /\ r.iter <= Len(new) + 1
      BY <1>3, <1>8, <1>9, <2>1
    <2>3. NotUnderIterator /\ old.iter > 0 => r.iter > 0
      BY <1>3, <1>6, <1>9, <2>1 DEF NotUnderIterator
    <2>4. r \in [items : Seq(Observers), iter : Nat]
      BY <1>8, <1>9, <2>2
    <2> QED
      BY <1>8, <1>9, <2>2, <2>3, <2>4 DEF ListOK
  <1>11. PICK ls2 : /\ ls2 = [lists EXCEPT ![l] = r] /\ ListsOK(ls2)
                    /\ ls2[l] = r /\ \A m \in TTLists : m # l => ls2[m] = lists[m]
    BY <1>10, StateTypes, OneChanges
  <1>12. lists' = ls2
    BY <1>6, <1>9, <1>11 DEF Changed
  <1>13. PICK tb2 : tb2 = TableWithout(k, new)
    OBVIOUS
  <1>14. TableOK(tb2, ls2) /\ (new # <<>> => tb2 = table)
    <2>1. \A key \in DOMAIN table :
            /\ key \in Keys /\ table[key] \in TTLists /\ lists[table[key]].items # <<>>
            /\ key # k => table[key] # l
      BY <1>0, <1>1, StateTypes DEF TableOK, IsInjective
    <2>2. \A key \in DOMAIN table : key # k => ls2[table[key]].items # <<>>
      BY <1>11, <2>1
    <2>3. CASE new = <<>>
      <3>1. tb2 = [key \in DOMAIN table \ {k} |-> table[key]]
        BY <1>13, <2>3 DEF TableWithout, Restrict
      <3>2. DOMAIN tb2 \subseteq Keys /\ tb2 \in [DOMAIN tb2 -> TTLists]
        BY <2>1, <3>1
      <3>3. IsInjective(tb2)
        <4>1. IsInjective(table)
          BY StateTypes DEF TableOK
        <4> QED
          BY <3>1, <4>1 DEF IsInjective
      <3>4. \A key \in DOMAIN tb2 : ls2[tb2[key]].items # <<>>
        BY <2>2, <3>1
      <3> QED
        BY <2>3, <3>2, <3>3, <3>4 DEF TableOK
    <2>4. CASE new # <<>>
      <3>1. tb2 = table
        BY <1>13, <2>4 DEF TableWithout
      <3>2. \A key \in DOMAIN table : ls2[table[key]].items # <<>>
        BY <1>1, <1>10, <1>11, <2>2, <2>4
      <3> QED
        BY <3>1, <3>2, StateTypes DEF TableOK
    <2> QED
      BY <2>3, <2>4
  <1>15. IterInv'
    <2>1. NotUnderIterator => \A m \in TTLists : ls2[m].iter > 0
      BY <1>2, <1>10, <1>11 DEF IInv, IterInv
    <2> QED
      BY <1>12, <2>1 DEF IterInv
  <1>16. PICK st2 \in Seq(Notifications) :
           /\ st2 = Forgotten(<<k, o>>) /\ DOMAIN st2 = DOMAIN stack
           /\ \A i \in DOMAIN stack :
                /\ st2[i] \in Notifications /\ st2[i].step = stack[i].step
                /\ SameTurn(stack[i], st2[i])
                /\ st2[i].due = stack[i].due \ {<<k, o>>} /\ st2[i].told = stack[i].told \ {<<k, o>>}
                /\ st2[i].again = stack[i].again \ {<<k, o>>}
    BY StateTypes, ForgetAll
  <1>17. KeysStay /\ tb2 # table => DOMAIN stack = {}
    BY <1>6, <1>14, StateTypes DEF MayChangeKeys, KeysStay
  <1>18. StackOK(tb2, ls2, st2)
    <2>1. st2 # <<>> => st2[1].step = "handle"
      <3>1. st2 # <<>> => 1 \in DOMAIN st2
        BY StackTypes
      <3>2. stack = <<>> => DOMAIN stack = {}
        BY StateTypes
      <3>3. stack # <<>> => stack[1].step = "handle"
        BY <1>6, StateTypes DEF MayCall
      <3> QED
        BY <1>16, <3>1, <3>2, <3>3
    <2>2. ASSUME NEW i \in DOMAIN st2 PROVE TurnOK(tb2, st2[i]) /\ (i > 1 => st2[i].step = "handle")
      <3>1. TurnOK(table, stack[i]) /\ (i > 1 => stack[i].step = "handle")
        BY <1>16, StateTypes DEF StackOK
      <3>2. KeysStay => tb2 = table
        BY <1>16, <1>17
      <3> QED
        BY <1>16, <3>1, <3>2 DEF TurnOK, Walking, SameTurn
    <2> QED
      BY <2>1, <2>2 DEF StackOK
  <1>19. ASSUME Disciplined PROVE Telling(tb2, ls2, st2)
    <2>1. Telling(table, lists, stack)
      BY <1>19, StateTypes
    <2>2. ASSUME NEW i \in DOMAIN stack PROVE FrameOK(tb2, ls2, st2[i])
      <3>1. PICK f \in Notifications : f = stack[i]
        BY StateTypes
      <3>2. PICK g \in Notifications : g = st2[i]
        BY <1>16
      <3>3. FrameOK(table, lists, f)
        BY <2>1, <3>1 DEF Telling
      <3>4. /\ g.step = f.step /\ SameTurn(f, g)
            /\ g.due = f.due \ {<<k, o>>} /\ g.told = f.told \ {<<k, o>>}
            /\ g.again = f.again \ {<<k, o>>}
        BY <1>16, <3>1, <3>2
      <3>5. ASSUME Walking(f), f.list = l
            PROVE  /\ old.iter # p
                   /\ ls2[l].iter = IF old.iter > p THEN old.iter - 1 ELSE old.iter
        <4>1. Walked(l)
          BY <3>1, <3>5, Walkers
        <4>2. old.iter # p
          BY <1>6, <1>19, <4>1, StateTypes DEF NotUnderIterator
        <4> QED
          BY <1>10, <1>11, <4>1, <4>2
      <3>6. tb2 = table
        BY <1>17, <1>19, StateTypes
      <3>7. PICK tb : tb = table
        OBVIOUS
      <3>8. PICK ls : ls = lists
        OBVIOUS
      <3>9. TableOK(tb, ls) /\ ListsOK(ls) /\ ListsOK(ls2) /\ FrameOK(tb, ls, f)
        BY <1>11, <3>3, <3>7, <3>8, StateTypes
      <3>10. /\ k \in DOMAIN tb /\ p \in DOMAIN ls[tb[k]].items /\ o = ls[tb[k]].items[p]
             /\ ls2[tb[k]].items = RemoveFirst(ls[tb[k]].items, o)
             /\ \A m \in TTLists : m # tb[k] => ls2[m] = ls[m]
        BY <1>0, <1>1, <1>2, <1>5, <1>7, <1>10, <1>11, <3>7, <3>8
      <3>11. Walking(f) /\ f.list = tb[k] =>
               /\ ls[tb[k]].iter # p
               /\ ls2[tb[k]].iter = IF ls[tb[k]].iter > p THEN ls[tb[k]].iter - 1
                                    ELSE ls[tb[k]].iter
        BY <1>1, <1>2, <3>5, <3>7, <3>8
      <3>12. FrameOK(tb, ls2, g)
        BY ONLY <3>4, <3>9, <3>10, <3>11, FrameRemoved, f \in Notifications, g \in Notifications
      <3> QED
        BY <3>2, <3>6, <3>7, <3>12
    <2>3. ASSUME NEW i \in DOMAIN stack, NEW j \in DOMAIN stack, i < j
          PROVE  st2[j].key \notin Matching[st2[i].address]
      BY <1>16, <2>1, <2>3 DEF Telling, SameTurn
    <2> QED
      BY <1>16, <2>2, <2>3 DEF Telling
  <1> QED
    BY <1>6, <1>11, <1>12, <1>13, <1>14, <1>15, <1>16, <1>18, <1>19
       DEF IInv, TypeInv, StackInv, ToldInv

-----------------------------------------------------------------------------
(* A notification begins, with all the keys still to come.                 *)
LEMMA NotifyStep ==
  ASSUME IInv, NEW a \in Addresses, Notify(a)
  PROVE  IInv'
  <1>1. PICK due : due = {pair \in Registered : pair[1] \in Matching[a]}
    OBVIOUS
  <1>2. PICK g : g = [address |-> a, step |-> "key", todo |-> DOMAIN table, turn |-> 0,
                      key |-> NoKey, list |-> NoList, due |-> due, told |-> {}, again |-> {}]
    OBVIOUS
  <1>3. /\ MayCall /\ table' = table /\ lists' = lists /\ stack' = <<g>> \o stack
        /\ "NotifyElsewhere" \in Rules => Matching[a] \cap {f.key : f \in Frames} = {}
    BY <1>1, <1>2 DEF Notify
  <1>4. \A pair \in due : pair \in Pairs /\ OnList(table, lists, pair) /\ pair[1] \in Matching[a]
    BY <1>1 DEF Registered, Items, OnList
  <1>5. /\ g \in Notifications /\ g.step = "key" /\ g.todo = DOMAIN table /\ g.turn = 0
        /\ g.address = a /\ g.due = due /\ g.told = {} /\ g.again = {}
    <2>1. DOMAIN table \in SUBSET Keys /\ due \in SUBSET Pairs
      BY <1>4, StateTypes
    <2> QED
      BY <1>2, <2>1 DEF Notifications
  <1>6. TurnOK(table, g)
    <2>1. Cardinality(DOMAIN table) \in Nat /\ Cardinality(Keys) \in Nat
      BY StateTypes, KeysCounted
    <2> QED
      BY <1>5, <2>1 DEF TurnOK, Walking
  <1>7. FrameOK(table, lists, g)
    BY <1>4, <1>5, FrameBegun
  <1>8. stack # <<>> => stack[1].step = "handle"
    BY <1>3, StateTypes DEF MayCall
  <1>9. Disciplined => \A i \in DOMAIN stack : stack[i].key \notin Matching[g.address]
    BY <1>3, <1>5, StateTypes
  <1>10. PICK st2 \in Seq(Notifications) :
           /\ st2 = <<g>> \o stack /\ StackOK(table, lists, st2)
           /\ /\ Telling(table, lists, stack) /\ FrameOK(table, lists, g)
              /\ \A i \in DOMAIN stack : stack[i].key \notin Matching[g.address]
              => Telling(table, lists, st2)
    BY <1>5, <1>6, <1>8, StateTypes, Begun
  <1>11. Disciplined => Telling(table, lists, st2)
    BY <1>7, <1>9, <1>10, StateTypes
  <1>12. IterInv'
    BY <1>3 DEF IInv, IterInv
  <1> QED
    BY <1>3, <1>10, <1>11, <1>12, StateTypes DEF IInv, TypeInv, StackInv, ToldInv

(* A notification ends.                                                    *)
LEMMA ReturnStep ==
  ASSUME IInv, Return
  PROVE  IInv'
  <1>1. table' = table /\ lists' = lists /\ stack' = Tail(stack) /\ stack # <<>>
    BY DEF Return, InTurn
  <1>2. /\ Tail(stack) \in Seq(Notifications) /\ StackOK(table, lists, Tail(stack))
        /\ Telling(table, lists, stack) => Telling(table, lists, Tail(stack))
    BY <1>1, StateTypes, Ended
  <1>3. IterInv'
    BY <1>1 DEF IInv, IterInv
  <1> QED
    BY <1>1, <1>2, <1>3, StateTypes DEF IInv, TypeInv, StackInv, ToldInv

-----------------------------------------------------------------------------
(* A turn of the loop: while no key comes or goes, there is one to read.   *)
LEMMA KeyTaken ==
  ASSUME NEW tb, NEW ls, TableOK(tb, ls), NEW f \in Notifications, TurnOK(tb, f),
         f.turn < Cardinality(DOMAIN tb),
         NEW k \in IF f.todo # {} THEN f.todo ELSE {f.key, NoKey}
  PROVE  /\ k \in Keys \cup {NoKey} /\ f.turn + 1 <= Cardinality(Keys)
         /\ KeysStay =>
              /\ k \in f.todo /\ k \in DOMAIN tb /\ f.todo \ {k} \subseteq DOMAIN tb
              /\ f.turn + 1 + Cardinality(f.todo \ {k}) = Cardinality(DOMAIN tb)
  <1>1. k \in Keys \cup {NoKey}
    BY FrameTypes
  <1>2. /\ IsFiniteSet(DOMAIN tb) /\ Cardinality(DOMAIN tb) \in Nat
        /\ Cardinality(Keys) \in Nat /\ Cardinality(DOMAIN tb) <= Cardinality(Keys)
    BY KeysCounted
  <1>3. f.turn \in Nat
    BY FrameTypes
  <1>4. PICK todo : todo = f.todo
    OBVIOUS
  <1>5. PICK D : D = DOMAIN tb
    OBVIOUS
  <1>6. ASSUME KeysStay
        PROVE  /\ k \in todo /\ k \in D /\ todo \ {k} \subseteq D
               /\ f.turn + 1 + Cardinality(todo \ {k}) = Cardinality(D)
    <2>1. todo \in SUBSET D /\ f.turn + Cardinality(todo) = Cardinality(D)
      BY <1>4, <1>5, <1>6 DEF TurnOK
    <2>2. IsFiniteSet(todo)
      BY <1>2, <1>5, <2>1, FS_Subset
    <2>3. Cardinality(todo) \in Nat /\ (Cardinality(todo) = 0 <=> todo = {})
      BY <2>2, FS_CardinalityType, FS_EmptySet
    <2>4. todo # {}
      BY <1>2, <1>3, <1>5, <2>1, <2>3
    <2>5. k \in todo
      BY <1>4, <2>4
    <2>6. Cardinality(todo \ {k}) = Cardinality(todo) - 1
      BY <2>2, <2>5, FS_RemoveElement
    <2> QED
      BY <1>3, <2>1, <2>3, <2>5, <2>6
  <1> QED
    BY <1>1, <1>2, <1>3, <1>4, <1>5, <1>6

(* The calls that wait for the top one have other lists than it walks over.*)
LEMMA OthersStay ==
  ASSUME IInv, Disciplined, stack # <<>>,
         NEW k \in DOMAIN table, k \in Matching[stack[1].address], NEW ls2,
         \A m \in TTLists : ls2[m].items = lists[m].items /\ (m # table[k] => ls2[m] = lists[m])
  PROVE  \A i \in DOMAIN stack : i # 1 => FrameOK(table, ls2, stack[i])
  <1>1. PICK tb : tb = table
    OBVIOUS
  <1>2. PICK ls : ls = lists
    OBVIOUS
  <1>3. TableOK(tb, ls) /\ Telling(tb, ls, stack) /\ stack \in Seq(Notifications)
    BY <1>1, <1>2, StateTypes
  <1>4. SUFFICES ASSUME NEW i \in DOMAIN stack, i # 1 PROVE FrameOK(tb, ls2, stack[i])
    BY <1>1
  <1>5. PICK f \in Notifications : f = stack[i]
    BY StateTypes
  <1>6. Len(stack) \in Nat /\ DOMAIN stack = 1..Len(stack) /\ 1 \in DOMAIN stack
    BY <1>3, StackTypes
  <1>7. FrameOK(tb, ls, f) /\ f.key # k
    BY <1>3, <1>4, <1>5, <1>6 DEF Telling
  <1>8. /\ k \in DOMAIN tb
        /\ \A key \in DOMAIN tb : tb[key] \in TTLists /\ (key # k => tb[key] # tb[k])
    BY <1>1, <1>3 DEF TableOK, IsInjective
  <1>9. \A m \in TTLists : ls2[m].items = ls[m].items /\ (m # tb[k] => ls2[m] = ls[m])
    BY <1>1, <1>2
  <1>10. Walking(f) => ls2[f.list] = ls[f.list]
    BY <1>7, <1>8, <1>9 DEF FrameOK, WalkOK
  <1>11. \A key \in DOMAIN tb : ls2[tb[key]].items = ls[tb[key]].items
    BY <1>8, <1>9
  <1>12. FrameOK(tb, ls2, f)
    BY ONLY <1>7, <1>10, <1>11, f \in Notifications, FrameStays
  <1> QED
    BY <1>5, <1>12

LEMMA MoveIterator ==
  ASSUME IInv, NEW l \in TTLists, NEW n \in 0..Len(lists[l].items) + 1
  PROVE  \E ls2 : /\ ls2 = [lists EXCEPT ![l].iter = n] /\ ListsOK(ls2)
                  /\ ls2[l].items = lists[l].items /\ ls2[l].iter = n
                  /\ \A m \in TTLists : m # l => ls2[m] = lists[m]
  <1>1. PICK ls : ls = lists
    OBVIOUS
  <1>2. ListsOK(ls) /\ n \in 0..Len(ls[l].items) + 1
    BY <1>1, StateTypes
  <1>3. PICK ls2 : /\ ls2 = [ls EXCEPT ![l].iter = n] /\ ListsOK(ls2)
                   /\ ls2[l].items = ls[l].items /\ ls2[l].iter = n
                   /\ \A m \in TTLists : m # l => ls2[m] = ls[m]
    BY <1>2, IteratorMoves
  <1> QED
    BY <1>1, <1>3

(* The top call changes, and perhaps a list with it.                       *)
LEMMA TopChanges ==
  ASSUME IInv, stack # <<>>, NEW ls2, NEW g \in Notifications, TurnOK(table, g),
         g.step = "tell" => ls2[g.list].iter \in DOMAIN ls2[g.list].items
  PROVE  \E st2 \in Seq(Notifications) :
           /\ st2 = <<g>> \o Tail(stack) /\ StackOK(table, ls2, st2)
           /\ /\ Disciplined /\ g.address = stack[1].address
              /\ FrameOK(table, ls2, g)
              /\ \A i \in DOMAIN stack : i # 1 => FrameOK(table, ls2, stack[i])
              => Telling(table, ls2, st2)
  <1>1. PICK tb : tb = table
    OBVIOUS
  <1>2. PICK ls : ls = lists
    OBVIOUS
  <1>3. PICK st \in Seq(Notifications) : st = stack
    BY StateTypes
  <1>4. Disciplined => Telling(tb, ls, st)
    BY <1>1, <1>2, <1>3, StateTypes
  <1>5. st # <<>>
    BY <1>3
  <1>6. StackOK(tb, ls, st)
    BY <1>1, <1>2, <1>3, StateTypes
  <1>7. TurnOK(tb, g)
    BY <1>1
  <1>8. g.step = "tell" => ls2[g.list].iter \in DOMAIN ls2[g.list].items
    OBVIOUS
  <1>9. PICK st2 \in Seq(Notifications) : st2 = <<g>> \o Tail(st) /\ StackOK(tb, ls2, st2)
    BY ONLY <1>5, <1>6, <1>7, <1>8, st \in Seq(Notifications), g \in Notifications, Retopped
  <1>10. ASSUME Disciplined, g.address = st[1].address, FrameOK(tb, ls2, g),
                \A i \in DOMAIN st : i # 1 => FrameOK(tb, ls2, st[i])
         PROVE  Telling(tb, ls2, st2)
    BY <1>4, <1>5, <1>9, <1>10, RetoppedTelling
  <1> QED
    BY <1>1, <1>3, <1>9, <1>10

LEMMA NextKeyStep ==
  ASSUME IInv, NextKey
  PROVE  IInv'
  <1>1. stack # <<>> /\ Top.step = "key" /\ ~ AtEnd
    BY DEF NextKey, InTurn
  <1>2. PICK f \in Notifications : f = stack[1] /\ f = Top
    BY <1>1, StateTypes
  <1>3. PICK k \in GetKey :
          LET f2 == [Top EXCEPT !.todo = @ \ {k}, !.turn = @ + 1, !.key = k]
              l == LookedUp(k)
          IN  IF k = NoKey \/ (k \in Matching[Top.address] /\ l = NoList)
              THEN Replace([f2 EXCEPT !.step = "wild"]) /\ UNCHANGED lists
              ELSE IF k \notin Matching[Top.address] \/ lists[l].items = <<>>
              THEN Replace(f2) /\ UNCHANGED lists
              ELSE /\ Replace([f2 EXCEPT !.step = "tell", !.list = l])
                   /\ lists' = [lists EXCEPT ![l].iter = 1]
    BY DEF NextKey
  <1>4. TurnOK(table, f) /\ f.step = "key" /\ f.turn < Cardinality(DOMAIN table)
    <2>1. f.turn \in Nat /\ Cardinality(DOMAIN table) \in Nat
      BY FrameTypes, StateTypes, KeysCounted
    <2>2. TurnOK(table, f) /\ f.step = "key"
      BY <1>1, <1>2, StateTypes DEF StackOK
    <2>3. ~ (f.turn >= Cardinality(DOMAIN table))
      BY <1>1, <1>2 DEF AtEnd
    <2> QED
      BY <2>1, <2>2, <2>3
  <1>5. k \in IF f.todo # {} THEN f.todo ELSE {f.key, NoKey}
    BY <1>2 DEF GetKey
  <1>6. /\ k \in Keys \cup {NoKey} /\ f.turn + 1 <= Cardinality(Keys)
        /\ KeysStay =>
             /\ k \in f.todo /\ k \in DOMAIN table /\ f.todo \ {k} \subseteq DOMAIN table
             /\ f.turn + 1 + Cardinality(f.todo \ {k}) = Cardinality(DOMAIN table)
    BY <1>4, <1>5, StateTypes, KeyTaken
  <1>7. PICK l : l = LookedUp(k)
    OBVIOUS
  <1>8. PICK f2 \in Notifications :
          /\ f2 = [f EXCEPT !.todo = @ \ {k}, !.turn = @ + 1, !.key = k]
          /\ f2.address = f.address /\ f2.step = f.step /\ f2.todo = f.todo \ {k}
          /\ f2.turn = f.turn + 1 /\ f2.key = k /\ f2.list = f.list /\ SameHistory(f, f2)
    BY <1>6, TurnTo
  <1>9. /\ l \in TTLists \cup {NoList}
        /\ KeysStay => l = table[k] /\ l \in TTLists /\ k \in Keys /\ k # NoKey /\ l # NoList
    BY <1>2, <1>6, <1>7, StateTypes, FrameTypes DEF LookedUp, ObserversAssumption, TTLists, NoList
  <1>10. table' = table
    BY DEF NextKey
  <1>11. Disciplined => KeysStay /\ Telling(table, lists, stack) /\ FrameOK(table, lists, f)
    BY <1>1, <1>2, StateTypes DEF Telling
  <1>12. CASE k = NoKey \/ (k \in Matching[f.address] /\ l = NoList)
    <2>1. PICK g \in Notifications : /\ g = [f2 EXCEPT !.step = "wild"] /\ g.step = "wild"
                                     /\ SameTurn(f2, g) /\ SameHistory(f2, g)
      BY StepTo
    <2>2. stack' = <<g>> \o Tail(stack) /\ lists' = lists
      BY <1>2, <1>3, <1>7, <1>8, <1>12, <2>1 DEF Replace
    <2>3. ~ KeysStay
      BY <1>9, <1>12
    <2>4. TurnOK(table, g)
      BY <1>6, <1>8, <2>1, <2>3 DEF TurnOK, Walking, SameTurn
    <2>5. PICK st2 \in Seq(Notifications) :
            st2 = <<g>> \o Tail(stack) /\ StackOK(table, lists, st2)
      BY <1>1, <2>1, <2>4, TopChanges
    <2>6. IterInv'
      BY <2>2 DEF IInv, IterInv
    <2> QED
      BY <1>10, <1>11, <2>2, <2>3, <2>5, <2>6, StateTypes
         DEF IInv, TypeInv, StackInv, ToldInv
  <1>13. CASE /\ ~ (k = NoKey \/ (k \in Matching[f.address] /\ l = NoList))
              /\ k \notin Matching[f.address] \/ lists[l].items = <<>>
    <2>1. stack' = <<f2>> \o Tail(stack) /\ lists' = lists
      BY <1>2, <1>3, <1>7, <1>8, <1>13 DEF Replace
    <2>2. TurnOK(table, f2)
      BY <1>4, <1>6, <1>8 DEF TurnOK, Walking
    <2>3. PICK st2 \in Seq(Notifications) :
            /\ st2 = <<f2>> \o Tail(stack) /\ StackOK(table, lists, st2)
            /\ /\ Disciplined /\ f2.address = stack[1].address
               /\ FrameOK(table, lists, f2)
               /\ \A i \in DOMAIN stack : i # 1 => FrameOK(table, lists, stack[i])
               => Telling(table, lists, st2)
      BY <1>1, <1>4, <1>8, <2>2, TopChanges
    <2>4. ASSUME Disciplined PROVE Telling(table, lists, st2)
      <3>1. k \notin Matching[f.address]
        BY <1>6, <1>9, <1>11, <1>13, <2>4, StateTypes DEF TableOK
      <3>2. FrameOK(table, lists, f2)
        BY <1>4, <1>8, <1>11, <2>4, <3>1, FrameTurned
      <3> QED
        BY <1>2, <1>8, <1>11, <2>3, <2>4, <3>2 DEF Telling
    <2>5. IterInv'
      BY <2>1 DEF IInv, IterInv
    <2> QED
      BY <1>10, <2>1, <2>3, <2>4, <2>5, StateTypes DEF IInv, TypeInv, StackInv, ToldInv
  <1>14. CASE /\ ~ (k = NoKey \/ (k \in Matching[f.address] /\ l = NoList))
              /\ ~ (k \notin Matching[f.address] \/ lists[l].items = <<>>)
    <2>1. l \in TTLists /\ k \in Matching[f.address] /\ k # NoKey /\ lists[l].items # <<>>
      BY <1>9, <1>14
    <2>2. PICK g \in Notifications :
            /\ g = [f2 EXCEPT !.step = "tell", !.list = l]
            /\ g.address = f2.address /\ g.step = "tell" /\ g.todo = f2.todo
            /\ g.turn = f2.turn /\ g.key = f2.key /\ g.list = l /\ SameHistory(f2, g)
      BY <2>1, EnterList
    <2>3. stack' = <<g>> \o Tail(stack) /\ lists' = [lists EXCEPT ![l].iter = 1]
      BY <1>2, <1>3, <1>7, <1>8, <1>14, <2>2 DEF Replace
    <2>4. 1 \in 0..Len(lists[l].items) + 1 /\ 1 \in DOMAIN lists[l].items
      <3>1. /\ Len(lists[l].items) \in Nat /\ DOMAIN lists[l].items = 1..Len(lists[l].items)
            /\ lists[l].items = <<>> <=> Len(lists[l].items) = 0
        BY <2>1, StateTypes, ListTypes
      <3> QED
        BY <2>1, <3>1
    <2>5. PICK ls2 : /\ ls2 = [lists EXCEPT ![l].iter = 1] /\ ListsOK(ls2)
                     /\ ls2[l].items = lists[l].items /\ ls2[l].iter = 1
                     /\ \A m \in TTLists : m # l => ls2[m] = lists[m]
      BY <2>1, <2>4, MoveIterator
    <2>6. \A m \in TTLists : ls2[m].items = lists[m].items
      BY <2>5
    <2>7. TurnOK(table, g)
      BY <1>6, <1>8, <2>1, <2>2 DEF TurnOK, Walking, NoList, TTLists
    <2>8. PICK st2 \in Seq(Notifications) :
            /\ st2 = <<g>> \o Tail(stack) /\ StackOK(table, ls2, st2)
            /\ /\ Disciplined /\ g.address = stack[1].address
               /\ FrameOK(table, ls2, g)
               /\ \A i \in DOMAIN stack : i # 1 => FrameOK(table, ls2, stack[i])
               => Telling(table, ls2, st2)
      <3>1. g.step = "tell" => ls2[g.list].iter \in DOMAIN ls2[g.list].items
        BY <2>2, <2>4, <2>5
      <3> QED
        BY <1>1, <2>7, <3>1, TopChanges
    <2>9. ASSUME Disciplined PROVE Telling(table, ls2, st2)
      <3>1. k \in f.todo /\ k \in DOMAIN table /\ l = table[k]
        BY <1>6, <1>9, <1>11, <2>9
      <3>2. FrameOK(table, ls2, g)
        <4>1. /\ g.address = f.address /\ g.todo = f.todo \ {k} /\ g.key = k /\ g.list = table[k]
              /\ SameHistory(f, g) /\ ls2[table[k]].iter = 1
          BY <1>8, <2>2, <2>5, <3>1 DEF SameHistory
        <4>2. PICK tb : tb = table
          OBVIOUS
        <4>3. PICK ls : ls = lists
          OBVIOUS
        <4>4. /\ TableOK(tb, ls) /\ ListsOK(ls) /\ FrameOK(tb, ls, f)
              /\ \A m \in TTLists : ls2[m].items = ls[m].items
              /\ k \in DOMAIN tb /\ k \in f.todo /\ k \in Matching[f.address]
              /\ f.step = "key" /\ ls2[tb[k]].iter = 1
          BY <1>4, <1>11, <2>1, <2>6, <2>9, <3>1, <4>1, <4>2, <4>3, StateTypes
        <4>5. /\ g.step = "tell" /\ g.address = f.address /\ g.todo = f.todo \ {k}
              /\ g.key = k /\ g.list = tb[k] /\ SameHistory(f, g)
          BY <2>2, <4>1, <4>2
        <4>6. FrameOK(tb, ls2, g)
          BY ONLY <4>4, <4>5, f \in Notifications, g \in Notifications, FrameEntered
        <4> QED
          BY <4>2, <4>6
      <3>3. \A i \in DOMAIN stack : i # 1 => FrameOK(table, ls2, stack[i])
        <4>1. k \in DOMAIN table /\ k \in Matching[stack[1].address]
          BY <1>2, <2>1, <3>1
        <4>2. \A m \in TTLists :
                ls2[m].items = lists[m].items /\ (m # table[k] => ls2[m] = lists[m])
          BY <2>5, <2>6, <3>1
        <4> QED
          BY ONLY IInv, <1>1, <2>9, <4>1, <4>2, OthersStay
      <3> QED
        BY <1>2, <1>8, <1>11, <2>2, <2>8, <2>9, <3>2, <3>3
    <2>10. TableOK(table, ls2)
      BY <2>6, StateTypes DEF TableOK
    <2>11. IterInv'
      <3>1. NotUnderIterator => \A m \in TTLists : ls2[m].iter > 0
        BY <2>5 DEF IInv, IterInv
      <3> QED
        BY <2>3, <2>5, <3>1 DEF IterInv
    <2> QED
      BY <1>10, <2>3, <2>5, <2>8, <2>9, <2>10, <2>11 DEF IInv, TypeInv, StackInv, ToldInv
  <1> QED
    BY <1>12, <1>13, <1>14

(* An observer is told.                                                    *)
LEMMA TellStep ==
  ASSUME IInv, Tell
  PROVE  IInv'
  <1>1. stack # <<>> /\ Top.step = "tell" /\ table' = table /\ lists' = lists
    BY DEF Tell
  <1>2. PICK f \in Notifications : f = stack[1] /\ f = Top
    BY <1>1, StateTypes
  <1>3. /\ Walking(f) /\ TurnOK(table, f) /\ f.list \in TTLists /\ f.key \in Keys
        /\ lists[f.list].iter \in DOMAIN lists[f.list].items
    BY <1>1, <1>2, StateTypes, Walkers DEF StackOK, Walking
  <1>4. PICK pair : pair = <<f.key, lists[f.list].items[lists[f.list].iter]>>
    OBVIOUS
  <1>5. pair \in Pairs
    BY <1>3, <1>4, StateTypes, ListTypes DEF Pairs
  <1>6. PICK g \in Notifications :
          /\ g = [f EXCEPT !.step = "handle", !.told = @ \cup {pair},
                           !.again = IF pair \in f.told THEN @ \cup {pair} ELSE @]
          /\ g.step = "handle" /\ SameTurn(f, g) /\ g.due = f.due
          /\ g.told = f.told \cup {pair}
          /\ g.again = IF pair \in f.told THEN f.again \cup {pair} ELSE f.again
    BY <1>5, TellOne
  <1>7. stack' = <<g>> \o Tail(stack)
    BY <1>2, <1>4, <1>6 DEF Tell, Replace
  <1>8. TurnOK(table, g)
    BY <1>3, <1>6 DEF TurnOK, Walking, SameTurn
  <1>9. PICK st2 \in Seq(Notifications) :
          /\ st2 = <<g>> \o Tail(stack) /\ StackOK(table, lists, st2)
          /\ /\ Disciplined /\ g.address = stack[1].address
             /\ FrameOK(table, lists, g)
             /\ \A i \in DOMAIN stack : i # 1 => FrameOK(table, lists, stack[i])
             => Telling(table, lists, st2)
    BY <1>1, <1>6, <1>8, TopChanges
  <1>10. ASSUME Disciplined PROVE Telling(table, lists, st2)
    <2>1. Telling(table, lists, stack) /\ FrameOK(table, lists, f)
      BY <1>1, <1>2, <1>10, StateTypes DEF Telling
    <2>2. FrameOK(table, lists, g)
      BY <1>1, <1>2, <1>4, <1>6, <2>1, StateTypes, FrameTold
    <2>3. \A i \in DOMAIN stack : FrameOK(table, lists, stack[i])
      BY <2>1 DEF Telling
    <2>4. g.address = stack[1].address
      BY <1>2, <1>6 DEF SameTurn
    <2> QED
      BY <1>9, <1>10, <2>2, <2>3, <2>4
  <1>11. IterInv'
    BY <1>1 DEF IInv, IterInv
  <1> QED
    BY <1>1, <1>7, <1>9, <1>10, <1>11, StateTypes DEF IInv, TypeInv, StackInv, ToldInv

(* The observer returns.                                                   *)
LEMMA HandledStep ==
  ASSUME IInv, Handled
  PROVE  IInv'
  <1>1. stack # <<>> /\ Top.step = "handle" /\ table' = table
    BY DEF Handled
  <1>2. PICK f \in Notifications : f = stack[1] /\ f = Top
    BY <1>1, StateTypes
  <1>3. Walking(f) /\ TurnOK(table, f) /\ f.list \in TTLists /\ f.key \in Keys
    BY <1>1, <1>2, StateTypes, Walkers DEF StackOK, Walking
  <1>4. PICK l \in TTLists : l = f.list
    BY <1>3
  <1>5. PICK n : n = Len(lists[l].items)
    OBVIOUS
  <1>6. PICK i : i = lists[l].iter
    OBVIOUS
  <1>7. /\ n \in Nat /\ DOMAIN lists[l].items = 1..n /\ i \in 0..n + 1
    BY <1>5, <1>6, StateTypes, ListTypes
  <1>8. PICK next : next = (i % (n + 1)) + 1
    OBVIOUS
  <1>9. next \in 1..n + 1 /\ (i <= n => next = i + 1)
    BY <1>7, <1>8, RoundTheList
  <1>10. IF i = 0
         THEN Replace([f EXCEPT !.step = "wild"]) /\ lists' = lists
         ELSE /\ Replace([f EXCEPT !.step = IF next > n THEN "key" ELSE "tell"])
              /\ lists' = [lists EXCEPT ![l].iter = next]
    BY <1>2, <1>4, <1>5, <1>6, <1>8 DEF Handled
  <1>11. Disciplined => /\ NotUnderIterator /\ Telling(table, lists, stack)
                        /\ FrameOK(table, lists, f)
    BY <1>1, <1>2, StateTypes DEF Telling
  <1>12. NotUnderIterator => i # 0
    BY <1>4, <1>6, <1>7 DEF IInv, IterInv
  <1>13. CASE i = 0
    <2>1. PICK g \in Notifications : /\ g = [f EXCEPT !.step = "wild"] /\ g.step = "wild"
                                     /\ SameTurn(f, g) /\ SameHistory(f, g)
      BY StepTo
    <2>2. stack' = <<g>> \o Tail(stack) /\ lists' = lists
      BY <1>10, <1>13, <2>1 DEF Replace
    <2>3. TurnOK(table, g)
      BY <1>3, <1>12, <1>13, <2>1 DEF TurnOK, Walking, SameTurn
    <2>4. PICK st2 \in Seq(Notifications) :
            st2 = <<g>> \o Tail(stack) /\ StackOK(table, lists, st2)
      BY <1>1, <2>1, <2>3, TopChanges
    <2>5. IterInv'
      BY <2>2 DEF IInv, IterInv
    <2> QED
      BY <1>1, <1>11, <1>12, <1>13, <2>2, <2>4, <2>5, StateTypes
         DEF IInv, TypeInv, StackInv, ToldInv
  <1>14. CASE i # 0
    <2>1. PICK step \in {"key", "tell"} : step = IF next > n THEN "key" ELSE "tell"
      OBVIOUS
    <2>2. PICK g \in Notifications : /\ g = [f EXCEPT !.step = step] /\ g.step = step
                                     /\ SameTurn(f, g) /\ SameHistory(f, g)
      BY StepTo
    <2>3. stack' = <<g>> \o Tail(stack) /\ lists' = [lists EXCEPT ![l].iter = next]
      BY <1>10, <1>14, <2>1, <2>2 DEF Replace
    <2>4. next \in 0..Len(lists[l].items) + 1
      BY <1>5, <1>7, <1>9
    <2>5. PICK ls2 : /\ ls2 = [lists EXCEPT ![l].iter = next] /\ ListsOK(ls2)
                     /\ ls2[l].items = lists[l].items /\ ls2[l].iter = next
                     /\ \A m \in TTLists : m # l => ls2[m] = lists[m]
      BY <2>4, MoveIterator
    <2>6. \A m \in TTLists : ls2[m].items = lists[m].items
      BY <2>5
    <2>7. TurnOK(table, g)
      BY <1>3, <2>1, <2>2 DEF TurnOK, Walking, SameTurn
    <2>8. g.step = "tell" => ls2[g.list].iter \in DOMAIN ls2[g.list].items
      <3>1. g.list = l
        BY <1>4, <2>2 DEF SameTurn
      <3>2. g.step = "tell" => next \in 1..n
        BY <1>7, <1>9, <2>1, <2>2
      <3> QED
        BY <1>7, <2>5, <3>1, <3>2
    <2>9. PICK st2 \in Seq(Notifications) :
            /\ st2 = <<g>> \o Tail(stack) /\ StackOK(table, ls2, st2)
            /\ /\ Disciplined /\ g.address = stack[1].address
               /\ FrameOK(table, ls2, g)
               /\ \A j \in DOMAIN stack : j # 1 => FrameOK(table, ls2, stack[j])
               => Telling(table, ls2, st2)
      BY <1>1, <2>7, <2>8, TopChanges
    <2>10. ASSUME Disciplined PROVE Telling(table, ls2, st2)
      <3>1. /\ FrameOK(table, lists, f) /\ f.key \in DOMAIN table /\ l = table[f.key]
            /\ f.key \in Matching[f.address] /\ i \in 1..n
        BY <1>3, <1>4, <1>6, <1>7, <1>11, <2>10 DEF FrameOK, WalkOK
      <3>2. next = i + 1
        BY <1>7, <1>9, <3>1
      <3>3. FrameOK(table, ls2, g)
        <4>1. /\ ls2[f.list].iter = lists[f.list].iter + 1
              /\ g.step = IF lists[f.list].iter + 1 > Len(lists[f.list].items)
                          THEN "key" ELSE "tell"
          BY <1>4, <1>5, <1>6, <2>1, <2>2, <2>5, <3>2
        <4> QED
          BY <1>1, <1>2, <2>2, <2>6, <3>1, <4>1, StateTypes, FrameMoved
      <3>4. \A j \in DOMAIN stack : j # 1 => FrameOK(table, ls2, stack[j])
        <4>1. f.key \in DOMAIN table /\ f.key \in Matching[stack[1].address]
          BY <1>2, <3>1
        <4>2. \A m \in TTLists :
                ls2[m].items = lists[m].items /\ (m # table[f.key] => ls2[m] = lists[m])
          BY <2>5, <2>6, <3>1
        <4> QED
          BY ONLY IInv, <1>1, <2>10, <4>1, <4>2, OthersStay
      <3> QED
        BY <1>2, <1>11, <2>2, <2>9, <2>10, <3>3, <3>4 DEF SameTurn
    <2>11. TableOK(table, ls2)
      BY <2>6, StateTypes DEF TableOK
    <2>12. IterInv'
      <3>1. NotUnderIterator => \A m \in TTLists : ls2[m].iter > 0
        BY <1>7, <1>9, <2>5 DEF IInv, IterInv
      <3> QED
        BY <2>3, <2>5, <3>1 DEF IterInv
    <2> QED
      BY <1>1, <2>3, <2>5, <2>9, <2>10, <2>11, <2>12 DEF IInv, TypeInv, StackInv, ToldInv
  <1> QED
    BY <1>13, <1>14

-----------------------------------------------------------------------------
LEMMA StutterStep ==
  ASSUME IInv, UNCHANGED vars
  PROVE  IInv'
  <1>1. table' = table /\ lists' = lists /\ stack' = stack
    BY DEF vars
  <1>2. IterInv'
    BY <1>1 DEF IInv, IterInv
  <1> QED
    BY <1>1, <1>2 DEF IInv, TypeInv, StackInv, ToldInv

LEMMA NextStep == IInv /\ [Next]_vars => IInv'
  <1> SUFFICES ASSUME IInv, [Next]_vars PROVE IInv'
    OBVIOUS
  <1>1. ASSUME NEW k \in Keys, NEW o \in Observers, AddObserver(k, o) PROVE IInv'
    BY <1>1, AddOldStep, AddNewStep
  <1>2. ASSUME NEW k \in Keys, NEW o \in Observers, RemoveObserver(k, o) PROVE IInv'
    BY <1>2, RemoveStep
  <1>3. ASSUME NEW a \in Addresses, Notify(a) PROVE IInv'
    BY <1>3, NotifyStep
  <1>4. CASE NextKey
    BY <1>4, NextKeyStep
  <1>5. CASE Return
    BY <1>5, ReturnStep
  <1>6. CASE Tell
    BY <1>6, TellStep
  <1>7. CASE Handled
    BY <1>7, HandledStep
  <1>8. CASE UNCHANGED vars
    BY <1>8, StutterStep
  <1> QED
    BY <1>1, <1>2, <1>3, <1>4, <1>5, <1>6, <1>7, <1>8 DEF Next, Begin, Step

(* The invariant holds in every reachable state.                           *)
LEMMA Invariance == Spec => []IInv
  BY InitIInv, NextStep, PTL DEF Spec

-----------------------------------------------------------------------------
(* TTNodeDirectory.cpp:422-433, 457-460.  Whatever observers do, at any    *)
(* time: the table has the keys that have observers, each with a list of   *)
(* its own, so that its size is the number of addresses that are observed. *)
THEOREM KeysHaveObserversHolds == Spec => []KeysHaveObservers
  <1>1. ASSUME IInv PROVE KeysHaveObservers
    <2>1. /\ DOMAIN table \subseteq Keys /\ table \in [DOMAIN table -> TTLists]
          /\ IsInjective(table) /\ \A k \in DOMAIN table : lists[table[k]].items # <<>>
      BY <1>1, StateTypes DEF TableOK
    <2>2. Range(table) \subseteq TTLists
      BY <2>1 DEF Range
    <2>3. \A l \in TTLists :
            /\ lists[l].items \in Seq(Observers) /\ IsInjective(lists[l].items)
            /\ lists[l].iter \in 0..Len(lists[l].items) + 1
      BY <1>1, StateTypes, ListTypes
    <2>4. \A f \in Frames : f.turn <= Cardinality(Keys)
      BY <1>1, StateTypes DEF Frames, StackOK, TurnOK
    <2> QED
      BY <1>1, <2>1, <2>2, <2>3, <2>4, StateTypes DEF KeysHaveObservers, TypeOK, Items
  <1> QED
    BY <1>1, Invariance, PTL

(* TTNodeDirectory.cpp:482-499.  As long as no key comes or goes and nobody*)
(* is removed from under an iterator while observers are told, no turn of  *)
(* the loops reads a key, a list or an observer that is not there, however *)
(* many notifications are inside each other and over the same lists.       *)
THEOREM NothingWildHolds == KeysStay /\ NotUnderIterator => (Spec => []NothingWild)
  <1> SUFFICES ASSUME KeysStay, NotUnderIterator PROVE Spec => []NothingWild
    OBVIOUS
  <1>1. ASSUME IInv PROVE NothingWild
    BY <1>1, StateTypes DEF NothingWild, Frames, StackOK, TurnOK
  <1> QED
    BY <1>1, Invariance, PTL

(* TTNodeDirectory.cpp:453-455, 481-510.  Under all the rules, when a      *)
(* notification ends everybody who was registered above the address from   *)
(* its beginning to its end was told, nobody twice, and nobody who is not  *)
(* registered.                                                             *)
THEOREM EveryObserverToldHolds == Disciplined => (Spec => []EveryObserverTold)
  <1> SUFFICES ASSUME Disciplined PROVE Spec => []EveryObserverTold
    OBVIOUS
  <1>1. ASSUME IInv PROVE EveryObserverTold
    <2>1. KeysStay /\ Telling(table, lists, stack) /\ StackOK(table, lists, stack)
      BY <1>1, StateTypes
    <2>2. ASSUME NEW f \in Frames PROVE f.told \subseteq Registered
      <3>1. PICK i \in DOMAIN stack : f = stack[i]
        BY DEF Frames
      <3>2. f \in Notifications /\ ToldOK(table, lists, f)
        BY <1>1, <2>1, <3>1, StateTypes DEF Telling, FrameOK
      <3>3. f.told \subseteq Pairs /\ \A pair \in f.told : OnList(table, lists, pair)
        BY <3>2, FrameTypes DEF ToldOK
      <3> QED
        BY <3>3 DEF Registered, OnList, Items
    <2>3. ASSUME InTurn, AtEnd PROVE Top.due \subseteq Top.told /\ Top.again = {}
      <3>1. PICK f \in Notifications : f = Top /\ f = stack[1]
        BY <1>1, <2>3, StateTypes DEF InTurn
      <3>2. f.step = "key" /\ FrameOK(table, lists, f) /\ TurnOK(table, f)
        BY <1>1, <2>1, <2>3, <3>1, StateTypes DEF InTurn, Telling, StackOK
      <3>3. PICK todo : todo = f.todo
        OBVIOUS
      <3>4. /\ f.turn \in Nat /\ Cardinality(DOMAIN table) \in Nat
            /\ f.turn + Cardinality(todo) = Cardinality(DOMAIN table)
            /\ f.turn >= Cardinality(DOMAIN table)
        BY <1>1, <2>1, <2>3, <3>1, <3>2, <3>3, FrameTypes, StateTypes, KeysCounted DEF TurnOK, AtEnd
      <3>5. todo \in SUBSET DOMAIN table /\ IsFiniteSet(DOMAIN table)
        BY <1>1, <2>1, <3>2, <3>3, StateTypes, KeysCounted DEF TurnOK
      <3>6. IsFiniteSet(todo)
        BY <3>5, FS_Subset
      <3>7. Cardinality(todo) \in Nat /\ (Cardinality(todo) = 0 <=> todo = {})
        BY <3>6, FS_CardinalityType, FS_EmptySet
      <3>8. todo = {}
        BY <3>4, <3>7
      <3>9. ~ Walking(f)
        BY <3>2 DEF Walking
      <3> QED
        BY <3>1, <3>2, <3>3, <3>8, <3>9 DEF FrameOK, DueOK
    <2> QED
      BY <2>2, <2>3 DEF EveryObserverTold
  <1> QED
    BY <1>1, Invariance, PTL

=============================================================================

------------------------ MODULE ObjectFreeingProofs ------------------------
(***************************************************************************)
(* For any objects, slots and depth of calls inside each other: when       *)
(* constructors and handlers keep to the rules, no call goes on with an    *)
(* object that is gone, every object is held by its references, and every  *)
(* valid observer is told before an object goes.                           *)
(***************************************************************************)
EXTENDS ObjectFreeing, SequenceTheorems, FiniteSetTheorems, WellFoundedInduction, TLAPS

-----------------------------------------------------------------------------
(* The least-number principle.                                             *)
LEMMA Least ==
  ASSUME NEW S \in SUBSET Nat, S # {}
  PROVE  \E n \in S : \A m \in S : n <= m
  <1> DEFINE R == OpToRel(<, Nat)
  <1>1. \A m, n \in Nat : m < n => <<m, n>> \in R
    BY DEF OpToRel
  <1>2. IsWellFoundedOn(R, Nat)
    BY NatLessThanWellFounded
  <1> HIDE DEF R
  <1>3. PICK n \in S : \A m \in S : ~ (<<m, n>> \in R)
    BY <1>2, WFMin
  <1>4. \A m \in S : ~ (m < n)
    BY <1>1, <1>3
  <1> QED
    BY <1>4

(* A sequence as a stack: what a push, a change of the top and a pop do.   *)
Pushed(s, x) == <<x>> \o s

LEMMA Push ==
  ASSUME NEW S, NEW s \in Seq(S), NEW x \in S
  PROVE  LET r == Pushed(s, x)
         IN  /\ r \in Seq(S) /\ r # <<>>
             /\ DOMAIN r = 1..Len(s) + 1 /\ Head(r) = x /\ r[1] = x
             /\ \A i \in 2..Len(s) + 1 : r[i] = s[i - 1]
  <1>1. <<x>> \in Seq(S) /\ Len(<<x>>) = 1 /\ <<x>>[1] = x
    OBVIOUS
  <1> DEFINE r == <<x>> \o s
  <1>2. /\ r \in Seq(S) /\ Len(r) = 1 + Len(s)
        /\ \A i \in 1..1 + Len(s) : r[i] = IF i <= 1 THEN <<x>>[i] ELSE s[i - 1]
    BY <1>1, ConcatProperties
  <1>3. Len(s) \in Nat /\ DOMAIN s = 1..Len(s)
    BY LenProperties
  <1>4. DOMAIN r = 1..Len(s) + 1
    BY <1>2, <1>3, LenProperties
  <1> HIDE DEF r
  <1>5. r # <<>>
    BY <1>2, <1>3
  <1>6. r[1] = x
    BY <1>1, <1>2, <1>3
  <1>7. \A i \in 2..Len(s) + 1 : r[i] = s[i - 1]
    BY <1>2, <1>3
  <1>8. Head(r) = r[1]
    BY <1>2, <1>5
  <1> QED
    BY <1>2, <1>4, <1>5, <1>6, <1>7, <1>8 DEF r, Pushed

LEMMA Pop ==
  ASSUME NEW S, NEW s \in Seq(S), s # <<>>
  PROVE  /\ Tail(s) \in Seq(S) /\ Len(s) \in Nat \ {0}
         /\ DOMAIN s = 1..Len(s) /\ Head(s) = s[1] /\ Head(s) \in S
         /\ Len(Tail(s)) = Len(s) - 1 /\ DOMAIN Tail(s) = 1..Len(s) - 1
         /\ Tail(s) = <<>> <=> Len(s) = 1
         /\ \A i \in 1..Len(s) - 1 : Tail(s)[i] = s[i + 1]
  <1>1. Len(s) \in Nat \ {0} /\ DOMAIN s = 1..Len(s) /\ Head(s) = s[1]
    BY EmptySeq, LenProperties
  <1>2. /\ Head(s) \in S /\ Tail(s) \in Seq(S) /\ Len(Tail(s)) = Len(s) - 1
        /\ \A i \in 1..Len(Tail(s)) : Tail(s)[i] = s[i + 1]
    BY HeadTailProperties
  <1>3. Tail(s) = <<>> <=> Len(s) = 1
    <2> DEFINE u == Tail(s)
    <2>1. u \in Seq(S) /\ Len(u) = Len(s) - 1
      BY <1>2
    <2> HIDE DEF u
    <2>2. u = <<>> <=> Len(u) = 0
      BY <2>1, EmptySeq
    <2> QED
      BY <1>1, <2>1, <2>2 DEF u
  <1> QED
    BY <1>1, <1>2, <1>3

(* Append adds one element behind, RemoveFirst takes one out.              *)
LEMMA Appended ==
  ASSUME NEW S, NEW s \in Seq(S), NEW x \in S
  PROVE  LET r == Append(s, x)
         IN  /\ r \in Seq(S) /\ Len(s) \in Nat /\ DOMAIN s = 1..Len(s)
             /\ DOMAIN r = 1..Len(s) + 1 /\ r[Len(s) + 1] = x
             /\ \A i \in 1..Len(s) : r[i] = s[i]
  <1> DEFINE r == Append(s, x)
  <1>1. /\ r \in Seq(S) /\ Len(r) = Len(s) + 1
        /\ \A i \in 1..Len(s) : r[i] = s[i]
        /\ r[Len(s) + 1] = x
    BY AppendProperties
  <1>2. Len(s) \in Nat /\ DOMAIN s = 1..Len(s) /\ DOMAIN r = 1..Len(r)
    BY <1>1, LenProperties
  <1> QED
    BY <1>1, <1>2

LEMMA Removed ==
  ASSUME NEW S, NEW s \in Seq(S), NEW w
  PROVE  LET r == RemoveFirst(s, w)
         IN  /\ r \in Seq(S)
             /\ \/ r = s
                \/ \E k \in DOMAIN s :
                     /\ DOMAIN r = 1..Len(s) - 1
                     /\ \A i \in DOMAIN r : r[i] = IF i < k THEN s[i] ELSE s[i + 1]
  <1> DEFINE at == {i \in DOMAIN s : s[i] = w}
             r == RemoveFirst(s, w)
  <1>1. Len(s) \in Nat /\ DOMAIN s = 1..Len(s) /\ \A i \in DOMAIN s : s[i] \in S
    BY LenProperties, ElementOfSeq
  <1>2. CASE at = {}
    BY <1>2 DEF RemoveFirst
  <1>3. CASE at # {}
    <2> DEFINE first == CHOOSE i \in at : \A j \in at : i <= j
    <2>1. at \in SUBSET Nat
      BY <1>1
    <2>2. \E i \in at : \A j \in at : i <= j
      <3> HIDE DEF at
      <3> QED
        BY <1>3, <2>1, Least
    <2>3. first \in at
      <3> HIDE DEF at
      <3> QED
        BY <2>2
    <2>4. r = [i \in 1..Len(s) - 1 |-> IF i < first THEN s[i] ELSE s[i + 1]]
      BY <1>3 DEF RemoveFirst
    <2>5. first \in DOMAIN s
      BY <2>3
    <2> HIDE DEF first, at, r
    <2>6. Len(s) - 1 \in Nat
      BY <1>1, <2>5
    <2>7. \A i \in 1..Len(s) - 1 : r[i] \in S
      BY <1>1, <2>4, <2>5
    <2>8. r \in Seq(S)
      BY <2>4, <2>6, <2>7
    <2> QED
      BY <2>4, <2>5, <2>8 DEF r
  <1> QED
    BY <1>2, <1>3

(* The elements that are in a list afterwards.                             *)
LEMMA ElementsAdded ==
  ASSUME NEW S, NEW s \in Seq(S), NEW x \in S
  PROVE  LET r == AppendUnique(s, x)
         IN  /\ r \in Seq(S) /\ Elements(r) = Elements(s) \cup {x}
  <1> DEFINE r == AppendUnique(s, x)
  <1>1. CASE x \in Elements(s)
    <2>1. r = s
      BY <1>1 DEF AppendUnique
    <2> QED
      BY <1>1, <2>1
  <1>2. CASE x \notin Elements(s)
    <2>1. r = Append(s, x)
      BY <1>2 DEF AppendUnique
    <2> HIDE DEF r
    <2>2. /\ r \in Seq(S) /\ Len(s) \in Nat /\ DOMAIN s = 1..Len(s)
          /\ DOMAIN r = 1..Len(s) + 1 /\ r[Len(s) + 1] = x
          /\ \A i \in 1..Len(s) : r[i] = s[i]
      BY <2>1, Appended
    <2>3. Elements(r) \subseteq Elements(s) \cup {x}
      BY <2>2 DEF Elements
    <2>4. x \in Elements(r)
      BY <2>2 DEF Elements
    <2>5. Elements(s) \subseteq Elements(r)
      BY <2>2 DEF Elements
    <2> QED
      BY <2>2, <2>3, <2>4, <2>5 DEF r
  <1> QED
    BY <1>1, <1>2

LEMMA ElementsRemoved ==
  ASSUME NEW S, NEW s \in Seq(S), NEW w
  PROVE  LET r == RemoveFirst(s, w)
         IN  /\ r \in Seq(S) /\ Elements(r) \subseteq Elements(s)
  <1> DEFINE r == RemoveFirst(s, w)
  <1>1. /\ r \in Seq(S)
        /\ \/ r = s
           \/ \E k \in DOMAIN s :
                /\ DOMAIN r = 1..Len(s) - 1
                /\ \A i \in DOMAIN r : r[i] = IF i < k THEN s[i] ELSE s[i + 1]
    BY Removed
  <1>2. Len(s) \in Nat /\ DOMAIN s = 1..Len(s)
    BY LenProperties
  <1> HIDE DEF r
  <1>3. Elements(r) \subseteq Elements(s)
    BY <1>1, <1>2 DEF Elements
  <1> QED
    BY <1>1, <1>3 DEF r

-----------------------------------------------------------------------------
USE FreeingAssumption

Disciplined == Rules = CallerRules

-----------------------------------------------------------------------------
(* What each call under way can rely on when it goes on.                   *)
StepOf(f) ==
  /\ f.op = "create" => f.via \in Slots /\ f.step \in {"construct", "finish"}
  /\ f.op = "release" => f.step \in {"lock", "tell", "handle", "drop"}
  /\ f.op \in {"register", "unregister"} => f.via = Local /\ f.step = "edit"
  /\ f.at > 0 /\ (f.step = "lock" => f.at = 1)

(* Its pointer holds the object; one under construction is nobody's yet.   *)
PointerOf(f) ==
  /\ heap[f.object] = "live"
  /\ f.step = "construct" => slot[f.via] = f.before /\ \A s \in Slots : slot[s] # f.object
  /\ f.step = "finish" => slot[f.via] = f.object
  /\ f.op = "release" /\ f.via \in Slots => slot[f.via] = f.object

(* What is being released, now or when the constructor returns, is in      *)
(* nobody's list, and what createInstance releases stays invalid.          *)
UnlistedIn(f) ==
  /\ f.op = "release" => ~ Listed(f.object)
  /\ f.step = "construct" /\ f.before # NULL => ~ Listed(f.before)
  /\ f.op = "release" /\ f.via = Local => ~ valid[f.object]

(* The mutex is held around the walk; who is valid and behind the iterator *)
(* was told.                                                               *)
ToldIn(f) ==
  /\ f.step \in {"tell", "handle"} => held[f.object]
  /\ f.step = "drop" => ~ held[f.object]
  /\ f.step \in {"tell", "handle", "drop"} =>
       \A i \in DOMAIN observers[f.object] :
         (i < f.at \/ f.step = "drop") /\ valid[observers[f.object][i]]
           => observers[f.object][i] \in f.told

CallOK(f) == StepOf(f) /\ PointerOf(f) /\ UnlistedIn(f) /\ ToldIn(f)

(* A call f inside a call g: each has a pointer of its own, nobody but an  *)
(* edit gets at an object under construction, no list is walked over twice,*)
(* and what is created inside a release is not in the list it walks over.  *)
Inside(f, g) ==
  /\ g.step \in {"construct", "handle", "finish"}
  /\ f.via \in Slots => f.via # g.via
  /\ "construct" \in {f.step, g.step} => f.step = "edit" \/ f.object # g.object
  /\ f.step \in {"tell", "handle"} /\ g.step = "handle" => f.object # g.object
  /\ f.op = "create" /\ g.op = "release" =>
       f.object # g.object /\ f.object \notin Elements(observers[g.object])

(* createInstance waits for the release of what its pointer held.          *)
Directly(f, g) ==
  g.step = "finish" => f.op = "release" /\ f.via = Local /\ f.object = g.before

(* The top call: who is about to be registered may be in a list, and what  *)
(* a pointer held before is gone or somebody's.                            *)
TopOK(f) ==
  /\ f.op = "register" =>
       /\ f.before # NULL /\ heap[f.before] = "live"
       /\ valid[f.before] \/ f.before \in Constructing
       /\ \A g \in Frames : g.via \in Slots => slot[g.via] # f.before
  /\ f.step = "finish" =>
       \/ f.before = NULL \/ heap[f.before] = "deleted"
       \/ \E s \in Slots : slot[s] = f.before

StackOK(st) ==
  /\ \A i \in DOMAIN st : CallOK(st[i])
  /\ \A i, j \in DOMAIN st : i < j => Inside(st[i], st[j])
  /\ \A i \in DOMAIN st : i + 1 \in DOMAIN st => Directly(st[i], st[i + 1])

StackInv == StackOK(stack) /\ (stack # <<>> => TopOK(stack[1]))

(* Pointers and lists hold objects that are there.                         *)
HeapInv ==
  /\ \A s \in Slots : slot[s] # NULL => heap[slot[s]] = "live"
  /\ \A o \in Objects : heap[o] = "live" => \A w \in Elements(observers[o]) : heap[w] = "live"
  /\ \A o \in Objects : heap[o] = "free" => observers[o] = <<>>

(* The references to an object: the slots, and the calls that have it.     *)
Holds(f, o) == f.object = o /\ (f.step = "construct" \/ (f.op = "release" /\ f.via = Local))
SlotsOf(sl, o) == {s \in Slots : sl[s] = o}
CallsOf(st, o) == {i \in DOMAIN st : Holds(st[i], o)}

CountInv ==
  \A o \in Objects :
    /\ heap[o] = "live" => /\ refs[o] > 0
                           /\ refs[o] = Cardinality(SlotsOf(slot, o)) + Cardinality(CallsOf(stack, o))
    /\ heap[o] # "live" => refs[o] \in {0, 1}

(* Only the release inside a createInstance goes beyond the bound.         *)
DepthInv ==
  \/ Len(stack) <= MaxDepth
  \/ Len(stack) = MaxDepth + 1 /\ stack[2].step = "finish"

TypeInv ==
  /\ heap \in [Objects -> {"free", "live", "deleted"}]
  /\ valid \in [Objects -> BOOLEAN]
  /\ refs \in [Objects -> Nat]
  /\ observers \in [Objects -> Seq(Objects)]
  /\ held \in [Objects -> BOOLEAN]
  /\ slot \in [Slots -> Objects \cup {NULL}]
  /\ stack \in Seq(Calls)

IInv == TypeInv /\ HeapInv /\ StackInv /\ CountInv /\ DepthInv

-----------------------------------------------------------------------------
(* The fields of a call, and what a call becomes.                          *)
LEMMA CallTypes ==
  ASSUME NEW f \in Calls
  PROVE  /\ f.op \in {"create", "release", "register", "unregister"}
         /\ f.via \in Slots \cup {Local} /\ f.object \in Objects
         /\ f.before \in Objects \cup {NULL} /\ f.at \in Nat /\ f.told \in SUBSET Objects
         /\ f.step \in {"construct", "finish", "lock", "tell", "handle", "drop", "edit"}
  BY DEF Calls

LEMMA CallIsCall ==
  ASSUME NEW op \in {"create", "release", "register", "unregister"},
         NEW via \in Slots \cup {Local}, NEW o \in Objects,
         NEW before \in Objects \cup {NULL},
         NEW step \in {"construct", "finish", "lock", "tell", "handle", "drop", "edit"}
  PROVE  LET f == Call(op, via, o, before, step)
         IN  /\ f \in Calls /\ f.op = op /\ f.via = via /\ f.object = o
             /\ f.before = before /\ f.step = step /\ f.at = 1 /\ f.told = {}
  BY DEF Call, Calls

SameButStep(f, g) ==
  g.op = f.op /\ g.via = f.via /\ g.object = f.object /\ g.before = f.before

LEMMA StepTo ==
  ASSUME NEW f \in Calls,
         NEW step \in {"construct", "finish", "lock", "tell", "handle", "drop", "edit"}
  PROVE  \E g \in Calls : /\ g = [f EXCEPT !.step = step] /\ g.step = step
                          /\ SameButStep(f, g) /\ g.at = f.at /\ g.told = f.told
  <1> DEFINE g == [f EXCEPT !.step = step]
  <1>1. g \in Calls /\ g.step = step /\ SameButStep(f, g) /\ g.at = f.at /\ g.told = f.told
    BY DEF Calls, SameButStep
  <1> QED
    BY <1>1

LEMMA StepOn ==
  ASSUME NEW f \in Calls
  PROVE  LET g == [f EXCEPT !.at = @ + 1]
         IN  /\ g \in Calls /\ g.step = f.step /\ SameButStep(f, g)
             /\ g.at = f.at + 1 /\ g.told = f.told
  BY DEF Calls, SameButStep

LEMMA StepTold ==
  ASSUME NEW f \in Calls, NEW w \in Objects
  PROVE  LET g == [f EXCEPT !.at = @ + 1, !.step = "handle", !.told = @ \cup {w}]
         IN  /\ g \in Calls /\ g.step = "handle" /\ SameButStep(f, g)
             /\ g.at = f.at + 1 /\ g.told = f.told \cup {w}
  <1> DEFINE at2 == f.at + 1
             told2 == f.told \cup {w}
             g == [f EXCEPT !.at = at2, !.step = "handle", !.told = told2]
  <1>1. at2 \in Nat /\ told2 \in SUBSET Objects
    BY CallTypes
  <1>2. g = [f EXCEPT !.at = @ + 1, !.step = "handle", !.told = @ \cup {w}]
    BY DEF Calls
  <1> HIDE DEF at2, told2
  <1>3. /\ g \in Calls /\ g.step = "handle" /\ SameButStep(f, g)
        /\ g.at = at2 /\ g.told = told2
    BY <1>1 DEF Calls, SameButStep
  <1> QED
    BY <1>2, <1>3 DEF at2, told2

-----------------------------------------------------------------------------
(* How many calls have an object: one more when a call that has it is      *)
(* pushed.                                                                 *)
LEMMA CallsCounted ==
  ASSUME NEW st \in Seq(Calls), NEW o
  PROVE  /\ IsFiniteSet(CallsOf(st, o)) /\ Cardinality(CallsOf(st, o)) \in Nat
         /\ Cardinality(CallsOf(st, o)) = 0 <=> CallsOf(st, o) = {}
  <1>1. Len(st) \in Nat /\ DOMAIN st = 1..Len(st)
    BY LenProperties
  <1>2. PICK D : D = 1..Len(st)
    OBVIOUS
  <1>3. PICK S : S = CallsOf(st, o)
    OBVIOUS
  <1>4. IsFiniteSet(D)
    BY <1>1, <1>2, FS_Interval
  <1>5. S \in SUBSET D
    BY <1>1, <1>2, <1>3 DEF CallsOf
  <1>6. IsFiniteSet(S)
    BY <1>4, <1>5, FS_Subset
  <1> QED
    BY <1>3, <1>6, FS_CardinalityType, FS_EmptySet

LEMMA PushCall ==
  ASSUME NEW st \in Seq(Calls), NEW f \in Calls
  PROVE  /\ Pushed(st, f) \in Seq(Calls) /\ Pushed(st, f) # <<>>
         /\ Len(st) \in Nat /\ DOMAIN st = 1..Len(st) /\ Len(Pushed(st, f)) = Len(st) + 1
         /\ DOMAIN Pushed(st, f) = 1..Len(st) + 1
         /\ Head(Pushed(st, f)) = f /\ Pushed(st, f)[1] = f
         /\ \A i \in 2..Len(st) + 1 : Pushed(st, f)[i] = st[i - 1]
  <1> DEFINE r == Pushed(st, f)
  <1>1. /\ r \in Seq(Calls) /\ r # <<>> /\ DOMAIN r = 1..Len(st) + 1 /\ Head(r) = f /\ r[1] = f
        /\ \A i \in 2..Len(st) + 1 : r[i] = st[i - 1]
    BY Push
  <1> HIDE DEF r
  <1>2. Len(st) \in Nat /\ DOMAIN st = 1..Len(st) /\ DOMAIN r = 1..Len(r) /\ Len(r) \in Nat
    BY <1>1, LenProperties
  <1>3. Len(r) = Len(st) + 1
    BY <1>1, <1>2
  <1> QED
    BY <1>1, <1>2, <1>3 DEF r

LEMMA CallsPushed ==
  ASSUME NEW st \in Seq(Calls), NEW f \in Calls, NEW o
  PROVE  Cardinality(CallsOf(Pushed(st, f), o))
           = Cardinality(CallsOf(st, o)) + (IF Holds(f, o) THEN 1 ELSE 0)
  <1>1. PICK r : r = Pushed(st, f)
    OBVIOUS
  <1>2. PICK S : S = CallsOf(st, o)
    OBVIOUS
  <1>3. /\ DOMAIN r = 1..Len(st) + 1 /\ r[1] = f
        /\ \A i \in 2..Len(st) + 1 : r[i] = st[i - 1]
    BY <1>1, PushCall
  <1>4. Len(st) \in Nat /\ DOMAIN st = 1..Len(st)
    BY LenProperties
  <1>5. IsFiniteSet(S) /\ Cardinality(S) \in Nat
    BY <1>2, CallsCounted
  <1>6. PICK T : T = {i + 1 : i \in S}
    OBVIOUS
  <1>7. S \subseteq 1..Len(st)
    BY <1>2, <1>4 DEF CallsOf
  <1>8. IsFiniteSet(T) /\ Cardinality(T) = Cardinality(S)
    <2> DEFINE h == [i \in S |-> i + 1]
    <2>1. h \in [S -> T]
      BY <1>6
    <2>2. \A i, j \in S : h[i] = h[j] => i = j
      BY <1>7
    <2>3. \A t \in T : \E i \in S : h[i] = t
      BY <1>6
    <2>4. h \in Bijection(S, T)
      <3> HIDE DEF h
      <3> QED
        BY <2>1, <2>2, <2>3 DEF Bijection, Injection, Surjection, IsInjective
    <2>5. ExistsBijection(S, T)
      BY <2>4 DEF ExistsBijection
    <2> QED
      BY <1>5, <2>5, FS_Bijection
  <1>9. T = {i \in 2..Len(st) + 1 : Holds(r[i], o)}
    <2>1. ASSUME NEW t \in T PROVE t \in 2..Len(st) + 1 /\ Holds(r[t], o)
      <3>1. PICK i \in S : t = i + 1
        BY <1>6
      <3>2. i \in 1..Len(st) /\ Holds(st[i], o)
        BY <1>2, <1>4 DEF CallsOf
      <3>3. t \in 2..Len(st) + 1 /\ t - 1 = i
        BY <1>4, <3>1, <3>2
      <3> QED
        BY <1>3, <3>2, <3>3
    <2>2. ASSUME NEW t \in 2..Len(st) + 1, Holds(r[t], o) PROVE t \in T
      <3>1. t - 1 \in 1..Len(st) /\ t = (t - 1) + 1
        BY <1>4
      <3>2. Holds(st[t - 1], o)
        BY <1>3, <2>2
      <3>3. t - 1 \in S
        BY <1>2, <1>4, <3>1, <3>2 DEF CallsOf
      <3> QED
        BY <1>6, <3>1, <3>3
    <2> QED
      BY <2>1, <2>2
  <1>10. 1 \notin T
    BY <1>9
  <1>11. CallsOf(r, o) = IF Holds(f, o) THEN T \cup {1} ELSE T
    <2>1. \A i : i \in 1..Len(st) + 1 <=> i = 1 \/ i \in 2..Len(st) + 1
      BY <1>4
    <2> QED
      BY <1>3, <1>9, <2>1 DEF CallsOf
  <1>12. Cardinality(T \cup {1}) = Cardinality(T) + 1
    BY <1>8, <1>10, FS_AddElement
  <1> QED
    BY <1>1, <1>2, <1>5, <1>8, <1>11, <1>12

LEMMA CallsHeld ==
  ASSUME NEW st \in Seq(Calls), NEW o
  PROVE  /\ (\A i \in DOMAIN st : ~ Holds(st[i], o)) => Cardinality(CallsOf(st, o)) = 0
         /\ (\E i \in DOMAIN st : Holds(st[i], o)) => Cardinality(CallsOf(st, o)) > 0
  <1>1. /\ (\A i \in DOMAIN st : ~ Holds(st[i], o)) => CallsOf(st, o) = {}
        /\ (\E i \in DOMAIN st : Holds(st[i], o)) => CallsOf(st, o) # {}
    BY DEF CallsOf
  <1> QED
    BY <1>1, CallsCounted

(* How many slots do, before and after one is written.                     *)
LEMMA SlotsCounted ==
  ASSUME NEW sl, NEW o
  PROVE  /\ IsFiniteSet(SlotsOf(sl, o)) /\ Cardinality(SlotsOf(sl, o)) \in Nat
         /\ (\A s \in Slots : sl[s] # o) => Cardinality(SlotsOf(sl, o)) = 0
         /\ (\E s \in Slots : sl[s] = o) => Cardinality(SlotsOf(sl, o)) > 0
         /\ Cardinality(SlotsOf(sl, o)) > 0 => \E s \in Slots : sl[s] = o
  <1>1. PICK S : S = SlotsOf(sl, o)
    OBVIOUS
  <1>2. S \in SUBSET Slots
    BY <1>1 DEF SlotsOf
  <1>3. IsFiniteSet(S)
    BY <1>2, FS_Subset
  <1>4. Cardinality(S) \in Nat /\ (Cardinality(S) = 0 <=> S = {})
    BY <1>3, FS_CardinalityType, FS_EmptySet
  <1>5. S = {} <=> \A s \in Slots : sl[s] # o
    BY <1>1 DEF SlotsOf
  <1> QED
    BY <1>1, <1>3, <1>4, <1>5

LEMMA SlotWritten ==
  ASSUME NEW sl, NEW r \in Slots, NEW new, \A s \in Slots \ {r} : new[s] = sl[s], NEW o
  PROVE  Cardinality(SlotsOf(new, o))
           = Cardinality(SlotsOf(sl, o)) + (IF new[r] = o THEN 1 ELSE 0)
                                         - (IF sl[r] = o THEN 1 ELSE 0)
  <1>1. PICK S : S = SlotsOf(sl, o)
    OBVIOUS
  <1>2. PICK R : R = S \ {r}
    OBVIOUS
  <1>3. IsFiniteSet(S) /\ Cardinality(S) \in Nat
    BY <1>1, SlotsCounted
  <1>4. /\ IsFiniteSet(R)
        /\ Cardinality(R) = IF r \in S THEN Cardinality(S) - 1 ELSE Cardinality(S)
    BY <1>2, <1>3, FS_RemoveElement
  <1>5. r \in S <=> sl[r] = o
    BY <1>1 DEF SlotsOf
  <1>6. SlotsOf(new, o) = IF new[r] = o THEN R \cup {r} ELSE R
    BY <1>1, <1>2 DEF SlotsOf
  <1>7. Cardinality(R \cup {r}) = Cardinality(R) + 1
    BY <1>2, <1>4, FS_AddElement
  <1> QED
    BY <1>1, <1>3, <1>4, <1>5, <1>6, <1>7

-----------------------------------------------------------------------------
(* The stack, taken apart: the top call f, and the calls st it is inside.  *)
Split(st, f) ==
  /\ stack = Pushed(st, f) /\ Tail(stack) = st /\ stack # <<>> /\ Top = f
  /\ StackOK(st) /\ CallOK(f) /\ TopOK(f)
  /\ \A i \in DOMAIN st : Inside(f, st[i])
  /\ st # <<>> => Directly(f, st[1])

LEMMA StackPicked ==
  ASSUME NEW st \in Seq(Calls)
  PROVE  /\ Len(st) \in Nat /\ DOMAIN st = 1..Len(st)
         /\ st # <<>> <=> 1 \in DOMAIN st
         /\ \A i \in DOMAIN st : st[i] \in Calls
  <1>1. Len(st) \in Nat /\ DOMAIN st = 1..Len(st)
    BY LenProperties
  <1>2. st = <<>> <=> Len(st) = 0
    BY EmptySeq
  <1>3. \A i \in DOMAIN st : st[i] \in Calls
    BY <1>1, ElementOfSeq
  <1> QED
    BY <1>1, <1>2, <1>3

LEMMA Opened ==
  ASSUME IInv, stack # <<>>
  PROVE  \E st \in Seq(Calls), f \in Calls : Split(st, f)
  <1>1. stack \in Seq(Calls)
    BY DEF IInv, TypeInv
  <1> DEFINE st == Tail(stack)
             f == Head(stack)
  <1>2. /\ st \in Seq(Calls) /\ Len(stack) \in Nat \ {0}
        /\ DOMAIN stack = 1..Len(stack) /\ f = stack[1] /\ f \in Calls
        /\ Len(st) = Len(stack) - 1 /\ DOMAIN st = 1..Len(stack) - 1
        /\ st = <<>> <=> Len(stack) = 1
        /\ \A i \in 1..Len(stack) - 1 : st[i] = stack[i + 1]
    BY <1>1, Pop
  <1>3. Top = f /\ Tail(stack) = st
    BY DEF Top
  <1> HIDE DEF st, f
  <1>4. stack = Pushed(st, f)
    <2>1. PICK r : r = Pushed(st, f)
      OBVIOUS
    <2>2. /\ r \in Seq(Calls) /\ Len(r) = Len(st) + 1 /\ r[1] = f
          /\ \A i \in 2..Len(st) + 1 : r[i] = st[i - 1]
      <3>1. LET p == Pushed(st, f)
            IN  /\ p \in Seq(Calls) /\ Len(p) = Len(st) + 1 /\ p[1] = f
                /\ \A i \in 2..Len(st) + 1 : p[i] = st[i - 1]
        BY <1>2, PushCall
      <3> QED
        BY <2>1, <3>1
    <2>3. Len(r) = Len(stack)
      BY <1>2, <2>2
    <2>4. \A i \in 1..Len(stack) : stack[i] = r[i]
      BY <1>2, <2>2
    <2> QED
      BY <1>1, <2>1, <2>2, <2>3, <2>4, SeqEqual
  <1>5. StackOK(stack) /\ TopOK(stack[1])
    BY DEF IInv, StackInv
  <1>6. StackOK(st)
    <2>1. \A i \in DOMAIN st : i + 1 \in DOMAIN stack /\ st[i] = stack[i + 1]
      BY <1>2
    <2>2. \A i \in DOMAIN st : CallOK(st[i])
      BY <1>5, <2>1 DEF StackOK
    <2>3. ASSUME NEW i \in DOMAIN st, NEW j \in DOMAIN st, i < j PROVE Inside(st[i], st[j])
      <3>1. i + 1 < j + 1
        BY <1>2, <2>3
      <3> QED
        BY <1>5, <2>1, <3>1 DEF StackOK
    <2>4. \A i \in DOMAIN st : i + 1 \in DOMAIN st => Directly(st[i], st[i + 1])
      BY <1>5, <2>1 DEF StackOK
    <2> QED
      BY <2>2, <2>3, <2>4 DEF StackOK
  <1>7. 1 \in DOMAIN stack
    BY <1>2
  <1>8. CallOK(f)
    BY <1>2, <1>5, <1>7 DEF StackOK
  <1>9. \A i \in DOMAIN st : Inside(f, st[i])
    <2>1. \A i \in DOMAIN st : 1 < i + 1 /\ i + 1 \in DOMAIN stack /\ st[i] = stack[i + 1]
      BY <1>2
    <2> QED
      BY <1>2, <1>5, <1>7, <2>1 DEF StackOK
  <1>10. st # <<>> => Directly(f, st[1])
    <2>1. st # <<>> => 1 + 1 \in DOMAIN stack /\ st[1] = stack[1 + 1]
      BY <1>2
    <2> QED
      BY <1>2, <1>5, <1>7, <2>1 DEF StackOK
  <1> QED
    BY <1>2, <1>3, <1>4, <1>5, <1>6, <1>8, <1>9, <1>10 DEF Split

(* The calls below the top are waiting for it.                             *)
LEMMA Waiting ==
  ASSUME IInv, NEW st \in Seq(Calls), NEW f \in Calls, Split(st, f), NEW i \in DOMAIN st
  PROVE  /\ st[i] \in Calls /\ CallOK(st[i]) /\ Inside(f, st[i])
         /\ st[i].step \in {"construct", "handle", "finish"}
         /\ st[i].step = "handle" <=> st[i].op = "release"
         /\ st[i].op \in {"create", "release"} /\ st[i].object # NULL
  <1>1. st[i] \in Calls /\ CallOK(st[i]) /\ Inside(f, st[i])
    BY StackPicked DEF Split, StackOK
  <1>2. st[i].step \in {"construct", "handle", "finish"}
    BY <1>1 DEF Inside
  <1>3. /\ st[i].op = "create" => st[i].step \in {"construct", "finish"}
        /\ st[i].op = "release" => st[i].step \in {"lock", "tell", "handle", "drop"}
        /\ st[i].op \in {"register", "unregister"} => st[i].step = "edit"
    BY <1>1 DEF CallOK, StepOf
  <1>4. st[i].object \in Objects
    BY <1>1, CallTypes
  <1>5. st[i].op \in {"create", "release", "register", "unregister"}
    BY <1>1, CallTypes
  <1> QED
    BY <1>1, <1>2, <1>3, <1>4, <1>5 DEF FreeingAssumption

LEMMA FramesOf ==
  ASSUME NEW st \in Seq(Calls), NEW f \in Calls, Split(st, f), NEW g
  PROVE  g \in Frames <=> g = f \/ \E i \in DOMAIN st : g = st[i]
  <1>1. /\ Len(st) \in Nat /\ DOMAIN st = 1..Len(st)
        /\ DOMAIN stack = 1..Len(st) + 1 /\ stack[1] = f
        /\ \A i \in 2..Len(st) + 1 : stack[i] = st[i - 1]
    BY PushCall DEF Split
  <1>2. ASSUME NEW i \in DOMAIN stack, i # 1 PROVE \E j \in DOMAIN st : stack[i] = st[j]
    <2>1. i - 1 \in DOMAIN st /\ i \in 2..Len(st) + 1
      BY <1>1, <1>2
    <2> QED
      BY <1>1, <2>1
  <1>3. ASSUME NEW j \in DOMAIN st PROVE \E i \in DOMAIN stack : stack[i] = st[j]
    <2>1. j + 1 \in DOMAIN stack /\ j + 1 \in 2..Len(st) + 1 /\ (j + 1) - 1 = j
      BY <1>1
    <2> QED
      BY <1>1, <2>1
  <1>4. 1 \in DOMAIN stack
    BY <1>1
  <1> QED
    BY <1>1, <1>2, <1>3, <1>4 DEF Frames

-----------------------------------------------------------------------------
(* What keeps StackInv: the calls below have what they rely on, and the    *)
(* call that is put on top of them, if one is, has it too.                 *)
LEMMA StackKept ==
  ASSUME NEW st \in Seq(Calls), StackOK(st),
         \A i \in DOMAIN st : CallOK(st[i])',
         \A i, j \in DOMAIN st : i < j => Inside(st[i], st[j])'
  PROVE  StackOK(st)'
  BY DEF StackOK

LEMMA InsideKept ==
  ASSUME UNCHANGED observers, NEW f, NEW g, Inside(f, g)
  PROVE  Inside(f, g)'
  BY DEF Inside

LEMMA StackSame ==
  ASSUME NEW st \in Seq(Calls), StackOK(st), UNCHANGED observers,
         \A i \in DOMAIN st : CallOK(st[i])'
  PROVE  StackOK(st)'
  <1>1. ASSUME NEW i \in DOMAIN st, NEW j \in DOMAIN st, i < j PROVE Inside(st[i], st[j])'
    <2>1. Inside(st[i], st[j])
      BY <1>1 DEF StackOK
    <2> QED
      BY <2>1, InsideKept
  <1> QED
    BY <1>1, StackKept

LEMMA StackPushed ==
  ASSUME NEW st \in Seq(Calls), NEW f \in Calls, StackOK(st)', CallOK(f)',
         \A i \in DOMAIN st : Inside(f, st[i])',
         st # <<>> => Directly(f, st[1])
  PROVE  StackOK(Pushed(st, f))'
  <1>1. PICK r : r = Pushed(st, f)
    OBVIOUS
  <1>2. /\ Len(st) \in Nat /\ DOMAIN st = 1..Len(st) /\ (st # <<>> <=> 1 \in DOMAIN st)
        /\ DOMAIN r = 1..Len(st) + 1 /\ r[1] = f
        /\ \A i \in 2..Len(st) + 1 : r[i] = st[i - 1]
    <2>1. /\ Len(st) \in Nat /\ DOMAIN st = 1..Len(st) /\ DOMAIN r = 1..Len(st) + 1
          /\ r[1] = f /\ \A i \in 2..Len(st) + 1 : r[i] = st[i - 1]
      BY ONLY st \in Seq(Calls), f \in Calls, <1>1, PushCall
    <2>2. st # <<>> <=> 1 \in DOMAIN st
      BY StackPicked
    <2> QED
      BY <2>1, <2>2
  <1>3. \A i \in DOMAIN r : i = 1 \/ (i - 1 \in DOMAIN st /\ r[i] = st[i - 1])
    BY <1>2
  <1>4. ASSUME NEW i \in DOMAIN r PROVE CallOK(r[i])'
    <2>1. CASE i = 1
      BY <1>2, <2>1
    <2>2. CASE i # 1
      BY <1>3, <2>2 DEF StackOK
    <2> QED
      BY <2>1, <2>2
  <1>5. ASSUME NEW i \in DOMAIN r, NEW j \in DOMAIN r, i < j PROVE Inside(r[i], r[j])'
    <2>1. j # 1 /\ j - 1 \in DOMAIN st /\ r[j] = st[j - 1]
      BY <1>2, <1>3, <1>5
    <2>2. CASE i = 1
      BY <1>2, <2>1, <2>2
    <2>3. CASE i # 1
      <3>1. i - 1 \in DOMAIN st /\ r[i] = st[i - 1] /\ i - 1 < j - 1
        BY <1>2, <1>3, <1>5, <2>3
      <3> QED
        BY <2>1, <3>1 DEF StackOK
    <2> QED
      BY <2>2, <2>3
  <1>6. ASSUME NEW i \in DOMAIN r, i + 1 \in DOMAIN r PROVE Directly(r[i], r[i + 1])
    <2>1. i \in DOMAIN st /\ r[i + 1] = st[i]
      BY <1>2, <1>6
    <2>2. CASE i = 1
      <3>1. st # <<>>
        BY <1>2, <2>1, <2>2
      <3> QED
        BY <1>2, <2>1, <2>2, <3>1
    <2>3. CASE i # 1
      <3>1. i - 1 \in DOMAIN st /\ r[i] = st[i - 1] /\ (i - 1) + 1 = i
        BY <1>2, <1>3, <2>3
      <3> QED
        BY <2>1, <3>1 DEF StackOK
    <2> QED
      BY <2>2, <2>3
  <1>7. StackOK(r)'
    BY <1>4, <1>5, <1>6 DEF StackOK
  <1> QED
    BY <1>1, <1>7

(* A call returns that createInstance is not waiting for.                  *)
LEMMA StackReturned ==
  ASSUME IInv, NEW st \in Seq(Calls), NEW f \in Calls, Split(st, f),
         StackOK(st)', stack' = st,
         st # <<>> /\ st[1].step = "finish" =>
           \/ st[1].before = NULL \/ heap'[st[1].before] = "deleted"
           \/ \E s \in Slots : slot'[s] = st[1].before
  PROVE  StackInv'
  <1>1. ASSUME st # <<>> PROVE TopOK(st[1])'
    <2>1. 1 \in DOMAIN st
      BY <1>1, StackPicked
    <2>2. st[1].op \in {"create", "release"}
      BY <2>1, Waiting
    <2>3. PICK g : g = st[1]
      OBVIOUS
    <2>4. /\ g.op # "register"
          /\ g.step = "finish" => \/ g.before = NULL \/ heap'[g.before] = "deleted"
                                  \/ \E s \in Slots : slot'[s] = g.before
      BY <1>1, <2>2, <2>3
    <2>5. TopOK(g)'
      BY <2>4 DEF TopOK
    <2> QED
      BY <2>3, <2>5
  <1> QED
    BY <1>1 DEF StackInv

LEMMA StackToppedBy ==
  ASSUME NEW st \in Seq(Calls), NEW f \in Calls, stack' = Pushed(st, f),
         StackOK(st)', CallOK(f)', TopOK(f)',
         \A i \in DOMAIN st : Inside(f, st[i])',
         st # <<>> => Directly(f, st[1])
  PROVE  StackInv'
  <1>1. StackOK(Pushed(st, f))'
    BY StackPushed
  <1>2. Pushed(st, f)[1] = f
    BY PushCall
  <1> QED
    BY <1>1, <1>2 DEF StackInv

-----------------------------------------------------------------------------
(* How deep calls are inside each other.                                   *)
LEMMA DepthReturned ==
  ASSUME IInv, NEW st \in Seq(Calls), NEW f \in Calls, Split(st, f), stack' = st
  PROVE  DepthInv'
  <1>1. Len(stack) = Len(st) + 1 /\ Len(st) \in Nat
    BY PushCall DEF Split
  <1>2. Len(stack) <= MaxDepth + 1
    BY <1>1 DEF IInv, DepthInv, FreeingAssumption
  <1> QED
    BY <1>1, <1>2 DEF DepthInv, FreeingAssumption

LEMMA DepthTopped ==
  ASSUME IInv, NEW st \in Seq(Calls), NEW f \in Calls, Split(st, f), NEW g \in Calls,
         stack' = Pushed(st, g)
  PROVE  DepthInv'
  <1>1. Len(stack) = Len(st) + 1 /\ Len(st) \in Nat /\ \A i \in 2..Len(st) + 1 : stack[i] = st[i - 1]
    BY PushCall DEF Split
  <1>2. Len(stack') = Len(st) + 1 /\ \A i \in 2..Len(st) + 1 : stack'[i] = st[i - 1]
    BY PushCall
  <1>3. Len(stack) = MaxDepth + 1 => stack'[2] = stack[2]
    BY <1>1, <1>2 DEF FreeingAssumption
  <1> QED
    BY <1>1, <1>2, <1>3 DEF IInv, DepthInv

LEMMA DepthCalled ==
  ASSUME IInv, MayCall, NEW g \in Calls, stack' = Pushed(stack, g)
  PROVE  DepthInv'
  <1>1. stack \in Seq(Calls)
    BY DEF IInv, TypeInv
  <1>2. Len(stack) \in Nat /\ Len(Pushed(stack, g)) = Len(stack) + 1
    BY <1>1, PushCall
  <1>3. Len(stack') = Len(stack) + 1 /\ Len(stack) < MaxDepth
    BY <1>2 DEF MayCall
  <1>4. Len(stack') <= MaxDepth
    BY <1>2, <1>3 DEF FreeingAssumption
  <1> QED
    BY <1>4 DEF DepthInv

-----------------------------------------------------------------------------
(* A call under way keeps what it relies on when nothing of it is written, *)
(* no object enters a list and none becomes valid.                         *)
LEMMA CallKept ==
  ASSUME TypeInv, NEW g \in Calls, CallOK(g),
         heap'[g.object] = "live",
         g.via \in Slots => slot'[g.via] = slot[g.via],
         g.step = "construct" => \A s \in Slots : slot'[s] # g.object,
         \A w : Listed(w)' => Listed(w),
         \A w \in Objects : valid'[w] => valid[w],
         g.step \in {"tell", "handle", "drop"} =>
           observers'[g.object] = observers[g.object] /\ held'[g.object] = held[g.object]
  PROVE  CallOK(g)'
  <1>1. StepOf(g) /\ PointerOf(g) /\ UnlistedIn(g) /\ ToldIn(g)
    BY DEF CallOK
  <1>2. g.object \in Objects
    BY CallTypes
  <1>3. StepOf(g)'
    BY <1>1 DEF StepOf
  <1>4. PointerOf(g)'
    <2>1. g.op \in {"create", "release", "register", "unregister"}
      BY CallTypes
    <2>2. g.step \in {"construct", "finish"} => g.via \in Slots
      BY <1>1, <2>1 DEF StepOf
    <2> QED
      BY <1>1, <2>2 DEF PointerOf
  <1>5. UnlistedIn(g)'
    BY <1>1, <1>2 DEF UnlistedIn
  <1>6. ToldIn(g)'
    <2>1. CASE g.step \in {"tell", "handle", "drop"}
      <3>1. observers'[g.object] = observers[g.object] /\ held'[g.object] = held[g.object]
        BY <2>1
      <3>2. \A i \in DOMAIN observers[g.object] : observers[g.object][i] \in Objects
        BY <1>2, ElementOfSeq, LenProperties DEF TypeInv
      <3>3. ASSUME NEW i \in DOMAIN observers[g.object],
                   (i < g.at \/ g.step = "drop") /\ valid'[observers[g.object][i]]
            PROVE  observers[g.object][i] \in g.told
        <4>1. valid[observers[g.object][i]]
          BY <3>2, <3>3
        <4> QED
          BY <1>1, <2>1, <3>3, <4>1 DEF ToldIn
      <3>4. /\ g.step \in {"tell", "handle"} => held[g.object]
            /\ g.step = "drop" => ~ held[g.object]
        BY <1>1 DEF ToldIn
      <3> QED
        BY <3>1, <3>3, <3>4 DEF ToldIn
    <2>2. CASE g.step \notin {"tell", "handle", "drop"}
      BY <2>2 DEF ToldIn
    <2> QED
      BY <2>1, <2>2
  <1> QED
    BY <1>3, <1>4, <1>5, <1>6 DEF CallOK

(* Where calls may be made, the calls under way are waiting.               *)
LEMMA Beneath ==
  ASSUME IInv, MayCall, NEW i \in DOMAIN stack
  PROVE  /\ stack[i] \in Calls /\ CallOK(stack[i])
         /\ stack[i].step \in {"construct", "handle", "finish"}
         /\ stack[i].step = "handle" <=> stack[i].op = "release"
         /\ stack[i].op \in {"create", "release"}
  <1>0. stack \in Seq(Calls) /\ stack # <<>>
    <2>1. stack \in Seq(Calls)
      BY DEF IInv, TypeInv
    <2> QED
      BY <2>1, StackPicked
  <1>1. PICK st \in Seq(Calls), f \in Calls : Split(st, f)
    BY <1>0, Opened
  <1>2. f.step \in {"construct", "handle"} /\ CallOK(f) /\ stack = Pushed(st, f)
    BY <1>0, <1>1 DEF MayCall, Split
  <1>3. /\ Len(st) \in Nat /\ DOMAIN st = 1..Len(st)
        /\ DOMAIN stack = 1..Len(st) + 1 /\ stack[1] = f
        /\ \A j \in 2..Len(st) + 1 : stack[j] = st[j - 1]
    BY <1>2, PushCall
  <1>4. CASE i = 1
    <2>1. stack[i] = f
      BY <1>3, <1>4
    <2>2. /\ f.op = "create" => f.step \in {"construct", "finish"}
          /\ f.op = "release" => f.step \in {"lock", "tell", "handle", "drop"}
          /\ f.op \in {"register", "unregister"} => f.step = "edit"
      BY <1>2 DEF CallOK, StepOf
    <2>3. f.op \in {"create", "release", "register", "unregister"}
      BY CallTypes
    <2> QED
      BY <1>2, <2>1, <2>2, <2>3
  <1>5. CASE i # 1
    <2>1. i - 1 \in DOMAIN st /\ stack[i] = st[i - 1]
      BY <1>3, <1>5
    <2> QED
      BY <1>1, <2>1, Waiting
  <1> QED
    BY <1>4, <1>5

LEMMA CalledFrom ==
  ASSUME IInv, MayCall
  PROVE  /\ stack \in Seq(Calls) /\ StackOK(stack)
         /\ stack # <<>> => stack[1].step \in {"construct", "handle"}
  <1>1. stack \in Seq(Calls) /\ StackOK(stack)
    BY DEF IInv, TypeInv, StackInv
  <1>2. stack # <<>> => Top = stack[1]
    BY <1>1, Pop DEF Top
  <1> QED
    BY <1>1, <1>2 DEF MayCall

(* The count of an object is kept when what has it is as many.             *)
LEMMA CountSame ==
  ASSUME IInv, UNCHANGED <<heap, refs>>,
         \A o \in Objects :
           Cardinality(SlotsOf(slot', o)) + Cardinality(CallsOf(stack', o))
             = Cardinality(SlotsOf(slot, o)) + Cardinality(CallsOf(stack, o))
  PROVE  CountInv'
  BY DEF IInv, CountInv

LEMMA CountTopped ==
  ASSUME IInv, NEW st \in Seq(Calls), NEW f \in Calls, Split(st, f),
         NEW g \in Calls, SameButStep(f, g), f.step # "construct", g.step # "construct",
         stack' = Pushed(st, g), UNCHANGED <<heap, refs, slot>>
  PROVE  CountInv'
  <1>1. ASSUME NEW o \in Objects
        PROVE  Cardinality(CallsOf(stack', o)) = Cardinality(CallsOf(stack, o))
    <2>1. Holds(g, o) <=> Holds(f, o)
      BY DEF Holds, SameButStep
    <2> QED
      BY <2>1, CallsPushed DEF Split
  <1> QED
    BY <1>1, CountSame

LEMMA CountReturned ==
  ASSUME IInv, NEW st \in Seq(Calls), NEW f \in Calls, Split(st, f),
         \A o \in Objects : ~ Holds(f, o),
         stack' = st, UNCHANGED <<heap, refs, slot>>
  PROVE  CountInv'
  <1>1. ASSUME NEW o \in Objects
        PROVE  Cardinality(CallsOf(stack', o)) = Cardinality(CallsOf(stack, o))
    BY CallsPushed, CallsCounted DEF Split
  <1> QED
    BY <1>1, CountSame

LEMMA CountCalled ==
  ASSUME IInv, NEW f \in Calls, \A o \in Objects : ~ Holds(f, o),
         stack' = Pushed(stack, f), UNCHANGED <<heap, refs, slot>>
  PROVE  CountInv'
  <1>1. ASSUME NEW o \in Objects
        PROVE  Cardinality(CallsOf(stack', o)) = Cardinality(CallsOf(stack, o))
    <2>1. stack \in Seq(Calls)
      BY DEF IInv, TypeInv
    <2> QED
      BY <2>1, CallsPushed, CallsCounted
  <1> QED
    BY <1>1, CountSame

-----------------------------------------------------------------------------
LEMMA AtTop ==
  ASSUME IInv, NEW op, NEW step, At(op, step)
  PROVE  \E st \in Seq(Calls), f \in Calls : Split(st, f) /\ f.op = op /\ f.step = step
  <1>1. stack # <<>> /\ Top.op = op /\ Top.step = step
    BY DEF At
  <1>2. PICK st \in Seq(Calls), f \in Calls : Split(st, f)
    BY <1>1, Opened
  <1>3. Top = f
    BY <1>2 DEF Split
  <1> QED
    BY <1>1, <1>2, <1>3

(* A release that goes on: the calls below do not see it.                  *)
LEMMA ReleaseGoesOn ==
  ASSUME IInv, NEW st \in Seq(Calls), NEW f \in Calls, Split(st, f), f.op = "release",
         NEW g \in Calls, SameButStep(f, g), g.step \in {"tell", "handle", "drop"},
         ToldIn(g)', g.at \in {f.at, f.at + 1}, f.step \in {"lock", "tell", "handle"},
         stack' = Pushed(st, g), UNCHANGED <<heap, valid, refs, observers, slot>>,
         held' \in [Objects -> BOOLEAN],
         \A i \in DOMAIN st : st[i].step = "handle" => held'[st[i].object] = held[st[i].object],
         g.step \in {"tell", "handle"} =>
           \A i \in DOMAIN st : st[i].step = "handle" => st[i].object # g.object
  PROVE  IInv'
  <1>0. TypeInv /\ HeapInv
    BY DEF IInv
  <1>1. g.op = f.op /\ g.via = f.via /\ g.object = f.object /\ g.before = f.before
    BY DEF SameButStep
  <1>2. TypeInv'
    BY <1>0, PushCall DEF TypeInv
  <1>3. HeapInv'
    BY <1>0 DEF HeapInv
  <1>4. StackInv'
    <2>1. \A i \in DOMAIN st : CallOK(st[i])'
      <3> TAKE i \in DOMAIN st
      <3>1. PICK c \in Calls : c = st[i]
        BY Waiting
      <3>2. CallOK(c) /\ c.step \in {"construct", "handle", "finish"}
        BY <3>1, Waiting
      <3>3. /\ heap[c.object] = "live"
            /\ c.step = "construct" => \A s \in Slots : slot[s] # c.object
        BY <3>2 DEF CallOK, PointerOf
      <3>4. \A w : Listed(w)' => Listed(w)
        BY DEF Listed
      <3>5. c.step \in {"tell", "handle", "drop"} => held'[c.object] = held[c.object]
        BY <3>1, <3>2
      <3>6. CallOK(c)'
        BY <1>0, <3>2, <3>3, <3>4, <3>5, CallKept
      <3> QED
        BY <3>1, <3>6
    <2>2. StackOK(st)'
      BY <2>1, StackSame DEF Split
    <2>3. CallOK(g)'
      <3>1. CallOK(f)
        BY DEF Split
      <3>2. StepOf(g)'
        <4>1. f.at > 0 /\ f.at \in Nat
          BY <3>1, CallTypes DEF CallOK, StepOf
        <4>2. g.at > 0
          BY <4>1
        <4> QED
          BY <1>1, <4>2 DEF StepOf
      <3>3. PointerOf(g)'
        BY <1>1, <3>1 DEF CallOK, PointerOf
      <3>4. UnlistedIn(g)'
        BY <1>1, <3>1 DEF CallOK, UnlistedIn, Listed
      <3> QED
        BY <3>2, <3>3, <3>4 DEF CallOK
    <2>4. TopOK(g)'
      BY <1>1 DEF TopOK
    <2>5. \A i \in DOMAIN st : Inside(g, st[i])'
      <3> TAKE i \in DOMAIN st
      <3>1. PICK c \in Calls : c = st[i]
        BY Waiting
      <3>2. Inside(f, c)
        BY <3>1, Waiting
      <3>3. g.step \in {"tell", "handle"} /\ c.step = "handle" => g.object # c.object
        BY <3>1
      <3>4. Inside(g, c)'
        BY <1>1, <3>2, <3>3 DEF Inside
      <3> QED
        BY <3>1, <3>4
    <2>6. st # <<>> => Directly(g, st[1])
      BY <1>1 DEF Split, Directly
    <2> QED
      BY <2>2, <2>3, <2>4, <2>5, <2>6, StackToppedBy
  <1>5. CountInv'
    BY CountTopped
  <1>6. DepthInv'
    BY DepthTopped
  <1> QED
    BY <1>2, <1>3, <1>4, <1>5, <1>6 DEF IInv

LEMMA LockKeeps ==
  ASSUME IInv, Lock
  PROVE  IInv'
  <1>1. PICK st \in Seq(Calls), f \in Calls : Split(st, f) /\ f.op = "release" /\ f.step = "lock"
    BY AtTop DEF Lock
  <1>2. PICK g \in Calls : /\ g = [f EXCEPT !.step = "tell"] /\ g.step = "tell"
                           /\ SameButStep(f, g) /\ g.at = f.at
    BY StepTo
  <1>3. /\ ~ held[f.object] /\ held' = [held EXCEPT ![f.object] = TRUE]
        /\ UNCHANGED <<heap, valid, refs, observers, slot>>
        /\ stack' = Pushed(st, g)
    BY <1>1, <1>2 DEF Lock, Becomes, Split, Pushed, objectVars
  <1>4. f.object \in Objects /\ g.object = f.object
    BY <1>2, CallTypes DEF SameButStep
  <1>5. held \in [Objects -> BOOLEAN] /\ observers \in [Objects -> Seq(Objects)]
    BY DEF IInv, TypeInv
  <1>6. \A i \in DOMAIN st : st[i].step = "handle" => st[i].object # g.object
    <2> SUFFICES ASSUME NEW i \in DOMAIN st, st[i].step = "handle" PROVE held[st[i].object]
      BY <1>3, <1>4
    <2>1. CallOK(st[i])
      BY <1>1, Waiting
    <2> QED
      BY <2>1 DEF CallOK, ToldIn
  <1>7. \A i \in DOMAIN st : st[i].step = "handle" => held'[st[i].object] = held[st[i].object]
    <2> TAKE i \in DOMAIN st
    <2>1. st[i].object \in Objects
      BY <1>1, Waiting, CallTypes
    <2> QED
      BY <1>3, <1>4, <1>5, <1>6, <2>1
  <1>8. ToldIn(g)'
    <2>1. g.at = 1
      BY <1>1, <1>2 DEF Split, CallOK, StepOf
    <2>2. \A i \in DOMAIN observers[g.object] : ~ i < 1
      BY <1>4, <1>5, LenProperties
    <2>3. held'[g.object]
      BY <1>3, <1>4, <1>5
    <2> QED
      BY <1>2, <1>3, <2>1, <2>2, <2>3 DEF ToldIn
  <1>9. held' \in [Objects -> BOOLEAN]
    BY <1>3, <1>5
  <1> QED
    BY <1>1, <1>2, <1>3, <1>6, <1>7, <1>8, <1>9, ReleaseGoesOn

(* What a walk through the list of observers knows.                        *)
LEMMA Walk ==
  ASSUME IInv, NEW st \in Seq(Calls), NEW f \in Calls, Split(st, f), f.step \in {"tell", "handle"}
  PROVE  /\ f.object \in Objects /\ f.at \in Nat /\ held[f.object]
         /\ Len(observers[f.object]) \in Nat
         /\ DOMAIN observers[f.object] = 1..Len(observers[f.object])
         /\ \A i \in DOMAIN observers[f.object] :
              /\ observers[f.object][i] \in Objects
              /\ i < f.at /\ valid[observers[f.object][i]] => observers[f.object][i] \in f.told
  <1>1. f.object \in Objects /\ f.at \in Nat
    BY CallTypes
  <1>2. observers[f.object] \in Seq(Objects)
    BY <1>1 DEF IInv, TypeInv
  <1>3. /\ Len(observers[f.object]) \in Nat
        /\ DOMAIN observers[f.object] = 1..Len(observers[f.object])
        /\ \A i \in DOMAIN observers[f.object] : observers[f.object][i] \in Objects
    BY <1>2, LenProperties, ElementOfSeq
  <1>4. /\ held[f.object]
        /\ \A i \in DOMAIN observers[f.object] :
             i < f.at /\ valid[observers[f.object][i]] => observers[f.object][i] \in f.told
    BY DEF Split, CallOK, ToldIn
  <1> QED
    BY <1>1, <1>3, <1>4

LEMMA WalksAlone ==
  ASSUME IInv, NEW st \in Seq(Calls), NEW f \in Calls, Split(st, f), NEW i \in DOMAIN st,
         st[i].step = "handle",
         f.step = "tell" \/ (f.step = "handle" /\ f.op = "release")
  PROVE  st[i].object # f.object
  <1>1. Inside(f, st[i])
    BY Waiting
  <1> QED
    BY <1>1 DEF Inside

LEMMA TellKeeps ==
  ASSUME IInv, Tell
  PROVE  IInv'
  <1>1. PICK st \in Seq(Calls), f \in Calls : Split(st, f) /\ f.op = "release" /\ f.step = "tell"
    BY AtTop DEF Tell
  <1>2. PICK w : w = observers[f.object][f.at]
    OBVIOUS
  <1>3. PICK n : n = Len(observers[f.object])
    OBVIOUS
  <1>4. /\ ~ f.at > n /\ UNCHANGED <<heap, valid, refs, observers, held, slot>>
        /\ stack' = Pushed(st, IF valid[w]
                    THEN [f EXCEPT !.at = @ + 1, !.step = "handle", !.told = @ \cup {w}]
                    ELSE [f EXCEPT !.at = @ + 1])
    BY <1>1, <1>2, <1>3 DEF Tell, AtEnd, Current, Becomes, Split, Pushed, objectVars
  <1>5. /\ f.object \in Objects /\ f.at \in Nat /\ held[f.object]
        /\ n \in Nat /\ DOMAIN observers[f.object] = 1..n
        /\ \A i \in DOMAIN observers[f.object] :
             /\ observers[f.object][i] \in Objects
             /\ i < f.at /\ valid[observers[f.object][i]] => observers[f.object][i] \in f.told
    BY <1>1, <1>3, Walk
  <1>6. \A i \in DOMAIN observers[f.object] :
          i < f.at + 1 /\ valid[observers[f.object][i]] =>
            observers[f.object][i] \in f.told \/ (observers[f.object][i] = w /\ valid[w])
    <2> SUFFICES ASSUME NEW i \in DOMAIN observers[f.object],
                        i < f.at + 1, valid[observers[f.object][i]], ~ i < f.at
                 PROVE  observers[f.object][i] = w /\ valid[w]
      BY <1>5
    <2>1. i \in 1..n
      BY <1>5
    <2>2. i = f.at
      BY <1>5, <2>1
    <2> QED
      BY <1>2, <2>2
  <1>7. PICK g \in Calls :
          /\ stack' = Pushed(st, g) /\ SameButStep(f, g) /\ g.at = f.at + 1
          /\ g.step \in {"tell", "handle"} /\ f.told \subseteq g.told /\ (valid[w] => w \in g.told)
    <2>1. CASE valid[w]
      <3>1. CASE f.at \in DOMAIN observers[f.object]
        <4>1. w \in Objects
          BY <1>2, <1>5, <3>1
        <4> QED
          BY <1>4, <2>1, <4>1, StepTold
      <3>2. CASE f.at \notin DOMAIN observers[f.object]
        <4>1. f.at = 0
          BY <1>4, <1>5, <3>2
        <4>2. FALSE
          BY <1>1, <4>1 DEF Split, CallOK, StepOf
        <4> QED
          BY <4>2
      <3> QED
        BY <3>1, <3>2
    <2>2. CASE ~ valid[w]
      BY <1>1, <1>4, <2>2, StepOn
    <2> QED
      BY <2>1, <2>2
  <1>8. g.object = f.object
    BY <1>7 DEF SameButStep
  <1>9. ToldIn(g)'
    <2>1. \A i \in DOMAIN observers[g.object] :
            i < g.at /\ valid[observers[g.object][i]] => observers[g.object][i] \in g.told
      BY <1>6, <1>7, <1>8
    <2> QED
      BY <1>4, <1>5, <1>7, <1>8, <2>1 DEF ToldIn
  <1>10. \A i \in DOMAIN st : st[i].step = "handle" => st[i].object # g.object
    BY <1>1, <1>8, WalksAlone
  <1>11. held' \in [Objects -> BOOLEAN]
    BY <1>4 DEF IInv, TypeInv
  <1> QED
    BY <1>1, <1>4, <1>7, <1>9, <1>10, <1>11, ReleaseGoesOn

LEMMA HandledKeeps ==
  ASSUME IInv, Handled
  PROVE  IInv'
  <1>1. PICK st \in Seq(Calls), f \in Calls : Split(st, f) /\ f.op = "release" /\ f.step = "handle"
    BY AtTop DEF Handled
  <1>2. PICK g \in Calls : /\ g = [f EXCEPT !.step = "tell"] /\ g.step = "tell"
                           /\ SameButStep(f, g) /\ g.at = f.at /\ g.told = f.told
    BY StepTo
  <1>3. UNCHANGED <<heap, valid, refs, observers, held, slot>> /\ stack' = Pushed(st, g)
    BY <1>1, <1>2 DEF Handled, Becomes, Split, Pushed, objectVars
  <1>4. g.object = f.object
    BY <1>2 DEF SameButStep
  <1>5. /\ held[f.object]
        /\ \A i \in DOMAIN observers[f.object] :
             i < f.at /\ valid[observers[f.object][i]] => observers[f.object][i] \in f.told
    BY <1>1, Walk
  <1>6. ToldIn(g)'
    BY <1>2, <1>3, <1>4, <1>5 DEF ToldIn
  <1>7. \A i \in DOMAIN st : st[i].step = "handle" => st[i].object # g.object
    BY <1>1, <1>4, WalksAlone
  <1>8. held' \in [Objects -> BOOLEAN]
    BY <1>3 DEF IInv, TypeInv
  <1> QED
    BY <1>1, <1>2, <1>3, <1>6, <1>7, <1>8, ReleaseGoesOn

LEMMA UnlockKeeps ==
  ASSUME IInv, Unlock
  PROVE  IInv'
  <1>1. PICK st \in Seq(Calls), f \in Calls : Split(st, f) /\ f.op = "release" /\ f.step = "tell"
    BY AtTop DEF Unlock
  <1>2. PICK g \in Calls : /\ g = [f EXCEPT !.step = "drop"] /\ g.step = "drop"
                           /\ SameButStep(f, g) /\ g.at = f.at /\ g.told = f.told
    BY StepTo
  <1>3. /\ f.at > Len(observers[f.object]) /\ held' = [held EXCEPT ![f.object] = FALSE]
        /\ UNCHANGED <<heap, valid, refs, observers, slot>>
        /\ stack' = Pushed(st, g)
    BY <1>1, <1>2 DEF Unlock, AtEnd, Becomes, Split, Pushed, objectVars
  <1>4. g.object = f.object
    BY <1>2 DEF SameButStep
  <1>5. /\ f.object \in Objects /\ f.at \in Nat
        /\ Len(observers[f.object]) \in Nat
        /\ DOMAIN observers[f.object] = 1..Len(observers[f.object])
        /\ \A i \in DOMAIN observers[f.object] :
             i < f.at /\ valid[observers[f.object][i]] => observers[f.object][i] \in f.told
    BY <1>1, Walk
  <1>6. held \in [Objects -> BOOLEAN]
    BY DEF IInv, TypeInv
  <1>7. \A i \in DOMAIN observers[f.object] : i < f.at
    BY <1>3, <1>5
  <1>8. ~ held'[f.object]
    BY <1>3, <1>5, <1>6
  <1>9. ToldIn(g)'
    BY <1>2, <1>3, <1>4, <1>5, <1>7, <1>8 DEF ToldIn
  <1>10. \A i \in DOMAIN st : st[i].step = "handle" => held'[st[i].object] = held[st[i].object]
    <2> TAKE i \in DOMAIN st
    <2> HAVE st[i].step = "handle"
    <2>1. st[i].object # f.object
      BY <1>1, WalksAlone
    <2>2. st[i].object \in Objects
      BY <1>1, Waiting, CallTypes
    <2> QED
      BY <1>3, <1>5, <1>6, <2>1, <2>2
  <1>11. held' \in [Objects -> BOOLEAN]
    BY <1>3, <1>6
  <1> QED
    BY <1>1, <1>2, <1>3, <1>9, <1>10, <1>11, ReleaseGoesOn

-----------------------------------------------------------------------------
(* The two edits of a list.  Nothing that is being released gets into one. *)
LEMMA EditReturns ==
  ASSUME IInv, NEW st \in Seq(Calls), NEW f \in Calls, Split(st, f),
         f.op \in {"register", "unregister"}, ~ held[f.object],
         stack' = st, UNCHANGED <<heap, valid, refs, held, slot>>,
         observers' \in [Objects -> Seq(Objects)],
         \A o \in Objects \ {f.object} : observers'[o] = observers[o],
         Elements(observers'[f.object]) \subseteq
           Elements(observers[f.object]) \cup (IF f.op = "register" THEN {f.before} ELSE {})
  PROVE  IInv'
  <1>0. TypeInv /\ HeapInv
    BY DEF IInv
  <1>1. f.object \in Objects /\ f.via = Local /\ f.step = "edit" /\ heap[f.object] = "live"
    BY CallTypes DEF Split, CallOK, StepOf, PointerOf
  <1>2. f.op = "register" =>
          /\ f.before # NULL /\ heap[f.before] = "live"
          /\ valid[f.before] \/ f.before \in Constructing
          /\ \A g \in Frames : g.via \in Slots => slot[g.via] # f.before
    BY DEF Split, TopOK
  <1>3. TypeInv'
    BY <1>0 DEF TypeInv
  <1>4. HeapInv'
    <2>1. ASSUME NEW o \in Objects, heap[o] = "live", NEW w \in Elements(observers'[o])
          PROVE  heap[w] = "live"
      <3>1. CASE o = f.object
        <4>1. w \in Elements(observers[o]) \/ (f.op = "register" /\ w = f.before)
          BY <2>1, <3>1
        <4>2. w \in Elements(observers[o]) => heap[w] = "live"
          BY <1>0, <2>1 DEF HeapInv
        <4> QED
          BY <1>2, <4>1, <4>2
      <3>2. CASE o # f.object
        BY <1>0, <2>1, <3>2 DEF HeapInv
      <3> QED
        BY <3>1, <3>2
    <2>2. \A o \in Objects : heap[o] = "free" => observers'[o] = <<>>
      BY <1>0, <1>1 DEF HeapInv
    <2> QED
      BY <1>0, <2>1, <2>2 DEF HeapInv
  <1>5. \A w : Listed(w)' => Listed(w) \/ (f.op = "register" /\ w = f.before)
    <2> SUFFICES ASSUME NEW w, NEW o \in Objects, heap[o] = "live", w \in Elements(observers'[o])
                 PROVE  Listed(w) \/ (f.op = "register" /\ w = f.before)
      BY DEF Listed
    <2>1. CASE o = f.object
      BY <2>1 DEF Listed
    <2>2. CASE o # f.object
      BY <2>2 DEF Listed
    <2> QED
      BY <2>1, <2>2
  <1>6. StackInv'
    <2>1. ASSUME NEW i \in DOMAIN st, NEW c \in Calls, c = st[i]
          PROVE  /\ CallOK(c) /\ c.object \in Objects /\ c \in Frames
                 /\ c.step \in {"construct", "handle", "finish"}
                 /\ c.step = "handle" <=> c.op = "release"
                 /\ c.step = "handle" => observers'[c.object] = observers[c.object]
      <3>1. /\ CallOK(c) /\ c.object \in Objects
            /\ c.step \in {"construct", "handle", "finish"}
            /\ c.step = "handle" <=> c.op = "release"
        BY <2>1, Waiting, CallTypes
      <3>2. c \in Frames
        BY <2>1, FramesOf
      <3>3. c.step = "handle" => held[c.object]
        BY <3>1 DEF CallOK, ToldIn
      <3> QED
        BY <3>1, <3>2, <3>3
    <2>2. ASSUME NEW i \in DOMAIN st, NEW c \in Calls, c = st[i], f.op = "register"
          PROVE  /\ c.op = "release" => c.object # f.before
                 /\ c.step = "construct" /\ c.before # NULL => c.before # f.before
      <3>1. /\ CallOK(c) /\ c \in Frames /\ (c.step = "handle" <=> c.op = "release")
            /\ c.via \in Slots \cup {Local}
        BY <2>1, <2>2, CallTypes
      <3>2. c.via \in Slots => slot[c.via] # f.before
        BY <1>2, <2>2, <3>1
      <3>3. /\ c.step = "construct" => slot[c.via] = c.before /\ c.op # "release"
            /\ c.op = "release" /\ c.via \in Slots => slot[c.via] = c.object
            /\ c.op = "release" /\ c.via = Local => ~ valid[c.object]
        BY <3>1 DEF CallOK, PointerOf, UnlistedIn
      <3>4. c.step = "construct" => c.via \in Slots
        <4>1. c.op \in {"create", "release"}
          BY <2>2, Waiting
        <4> QED
          BY <3>1, <3>3, <4>1 DEF CallOK, StepOf
      <3>5. ASSUME c.op = "release", c.via = Local, c.object = f.before PROVE FALSE
        <4>1. f.before \in Constructing
          BY <1>2, <2>2, <3>3, <3>5
        <4>2. PICK d \in Frames : d.step = "construct" /\ d.object = f.before
          BY <4>1 DEF Constructing
        <4>3. PICK j \in DOMAIN st : d = st[j]
          <5>1. d # f
            BY <1>1, <4>2
          <5> QED
            BY <4>2, <5>1, FramesOf
        <4>4. c.step = "handle" /\ i # j
          BY <2>2, <3>1, <3>5, <4>2, <4>3
        <4>5. i \in Nat /\ j \in Nat
          BY StackPicked
        <4>6. Inside(c, d) \/ Inside(d, c)
          <5>1. i < j \/ j < i
            BY <4>4, <4>5
          <5> QED
            BY <2>2, <4>3, <5>1 DEF Split, StackOK
        <4> QED
          BY <3>5, <4>2, <4>4, <4>6 DEF Inside
      <3> QED
        BY <3>1, <3>2, <3>3, <3>4, <3>5
    <2>3. \A i \in DOMAIN st : CallOK(st[i])'
      <3> TAKE i \in DOMAIN st
      <3>1. PICK c \in Calls : c = st[i]
        BY Waiting
      <3>2. CallOK(c) /\ c.step \in {"construct", "handle", "finish"}
        BY <2>1, <3>1
      <3>3. c.step = "handle" => observers'[c.object] = observers[c.object]
        BY <2>1, <3>1
      <3>4. PointerOf(c)' /\ StepOf(c)'
        BY <3>2 DEF CallOK, PointerOf, StepOf
      <3>5. ToldIn(c)'
        BY <3>2, <3>3 DEF CallOK, ToldIn
      <3>6. UnlistedIn(c)'
        <4>1. UnlistedIn(c)
          BY <3>2 DEF CallOK
        <4>2. c.op = "release" => ~ Listed(c.object)'
          BY <1>5, <2>2, <3>1, <4>1 DEF UnlistedIn
        <4>3. c.step = "construct" /\ c.before # NULL => ~ Listed(c.before)'
          BY <1>5, <2>2, <3>1, <4>1 DEF UnlistedIn
        <4> QED
          BY <4>1, <4>2, <4>3 DEF UnlistedIn
      <3>7. CallOK(c)'
        BY <3>4, <3>5, <3>6 DEF CallOK
      <3> QED
        BY <3>1, <3>7
    <2>4. \A i, j \in DOMAIN st : i < j => Inside(st[i], st[j])'
      <3> TAKE i, j \in DOMAIN st
      <3> HAVE i < j
      <3>1. PICK c \in Calls, d \in Calls : c = st[i] /\ d = st[j]
        BY Waiting
      <3>2. Inside(c, d)
        BY <3>1 DEF Split, StackOK
      <3>3. d.op = "release" => observers'[d.object] = observers[d.object]
        BY <2>1, <3>1
      <3>4. Inside(c, d)'
        BY <3>2, <3>3 DEF Inside
      <3> QED
        BY <3>1, <3>4
    <2>5. StackOK(st)'
      BY <2>3, <2>4, StackKept DEF Split
    <2>6. st # <<>> => st[1].step # "finish"
      BY <1>1 DEF Split, Directly
    <2> QED
      BY <2>5, <2>6, StackReturned
  <1>7. CountInv'
    <2>1. \A o \in Objects : ~ Holds(f, o)
      BY <1>1 DEF Holds
    <2> QED
      BY <2>1, CountReturned
  <1>8. DepthInv'
    BY DepthReturned
  <1> QED
    BY <1>3, <1>4, <1>6, <1>7, <1>8 DEF IInv

LEMMA RegisterKeeps ==
  ASSUME IInv, Register
  PROVE  IInv'
  <1>1. PICK st \in Seq(Calls), f \in Calls : Split(st, f) /\ f.op = "register" /\ f.step = "edit"
    BY AtTop DEF Register
  <1>2. /\ ~ held[f.object]
        /\ observers' = [observers EXCEPT ![f.object] = AppendUnique(@, f.before)]
        /\ UNCHANGED <<heap, valid, refs, held, slot>> /\ stack' = st
    BY <1>1 DEF Register, Return, Split
  <1>3. /\ observers \in [Objects -> Seq(Objects)] /\ f.object \in Objects
        /\ observers[f.object] \in Seq(Objects)
    BY CallTypes DEF IInv, TypeInv
  <1>4. f.before \in Objects
    BY <1>1, CallTypes DEF Split, TopOK
  <1> DEFINE old == observers[f.object]
             w == f.before
             r == AppendUnique(old, w)
  <1>5. observers' = [observers EXCEPT ![f.object] = r]
    BY <1>2, <1>3
  <1>6. r \in Seq(Objects) /\ Elements(r) = Elements(observers[f.object]) \cup {f.before}
    <2>1. old \in Seq(Objects) /\ w \in Objects
      BY <1>3, <1>4
    <2> HIDE DEF old, w
    <2>2. r \in Seq(Objects) /\ Elements(r) = Elements(old) \cup {w}
      BY <2>1, ElementsAdded
    <2> QED
      BY <2>2 DEF old, w
  <1> HIDE DEF r
  <1>7. /\ observers' \in [Objects -> Seq(Objects)] /\ observers'[f.object] = r
        /\ \A o \in Objects \ {f.object} : observers'[o] = observers[o]
    BY <1>3, <1>5, <1>6
  <1> QED
    BY <1>1, <1>2, <1>6, <1>7, EditReturns

LEMMA UnregisterKeeps ==
  ASSUME IInv, Unregister
  PROVE  IInv'
  <1>1. PICK st \in Seq(Calls), f \in Calls : Split(st, f) /\ f.op = "unregister" /\ f.step = "edit"
    BY AtTop DEF Unregister
  <1>2. /\ ~ held[f.object]
        /\ observers' = [observers EXCEPT ![f.object] = RemoveFirst(@, f.before)]
        /\ UNCHANGED <<heap, valid, refs, held, slot>> /\ stack' = st
    BY <1>1 DEF Unregister, Return, Split
  <1>3. /\ observers \in [Objects -> Seq(Objects)] /\ f.object \in Objects
        /\ observers[f.object] \in Seq(Objects)
    BY CallTypes DEF IInv, TypeInv
  <1> DEFINE r == RemoveFirst(observers[f.object], f.before)
  <1>5. observers' = [observers EXCEPT ![f.object] = r]
    BY <1>2, <1>3
  <1>6. r \in Seq(Objects) /\ Elements(r) \subseteq Elements(observers[f.object])
    BY <1>3, ElementsRemoved
  <1> HIDE DEF r
  <1>7. /\ observers' \in [Objects -> Seq(Objects)] /\ observers'[f.object] = r
        /\ \A o \in Objects \ {f.object} : observers'[o] = observers[o]
    BY <1>3, <1>5, <1>6
  <1> QED
    BY <1>1, <1>2, <1>6, <1>7, EditReturns

-----------------------------------------------------------------------------
(* The calls that constructors, handlers and the program make.             *)
LEMMA SlotWaits ==
  ASSUME Disciplined, IInv, MayCall, NEW s \in Slots, MayWrite(s), NEW i \in DOMAIN stack
  PROVE  stack[i].via # s
  BY DEF Disciplined, CallerRules, MayWrite, Frames

LEMMA CallCreateKeeps ==
  ASSUME Disciplined, IInv, NEW s \in Slots, CallCreate(s)
  PROVE  IInv'
  <1>0. TypeInv /\ HeapInv /\ CountInv
    BY DEF IInv
  <1>1. /\ MayCall /\ MayWrite(s) /\ UNCHANGED <<valid, observers, held, slot>>
        /\ slot[s] # NULL => ~ Listed(slot[s])
    BY DEF CallCreate, MayLeave, Disciplined, CallerRules
  <1>2. PICK o \in Objects :
          /\ heap[o] = "free" /\ heap' = [heap EXCEPT ![o] = "live"]
          /\ refs' = [refs EXCEPT ![o] = 1]
          /\ stack' = Pushed(stack, Call("create", s, o, slot[s], "construct"))
    BY DEF CallCreate, Pushed
  <1>3. slot[s] \in Objects \cup {NULL}
    BY <1>0 DEF TypeInv
  <1>4. PICK f \in Calls :
          /\ stack' = Pushed(stack, f) /\ f.op = "create" /\ f.via = s /\ f.object = o
          /\ f.before = slot[s] /\ f.step = "construct" /\ f.at = 1
    BY ONLY s \in Slots, o \in Objects, <1>2, <1>3, CallIsCall
  <1>5. /\ stack \in Seq(Calls) /\ StackOK(stack)
        /\ stack # <<>> => stack[1].step \in {"construct", "handle"}
    BY <1>1, CalledFrom
  <1>6. \A p \in Objects : /\ heap'[p] = IF p = o THEN "live" ELSE heap[p]
                           /\ refs'[p] = IF p = o THEN 1 ELSE refs[p]
    BY <1>0, <1>2 DEF TypeInv
  <1>7. observers[o] = <<>>
    BY <1>0, <1>2 DEF HeapInv
  <1>8. \A w : w \notin Elements(observers[o])
    BY <1>7 DEF Elements
  <1>9. \A w : Listed(w)' => Listed(w)
    <2> SUFFICES ASSUME NEW w, NEW p \in Objects, heap'[p] = "live", w \in Elements(observers[p])
                 PROVE  Listed(w)
      BY <1>1 DEF Listed
    <2>1. p # o
      BY <1>8
    <2> QED
      BY <1>6, <2>1 DEF Listed
  <1>10. \A r \in Slots : slot[r] # o
    BY <1>0, <1>2 DEF HeapInv, FreeingAssumption
  <1>11. TypeInv'
    <2>1. heap' \in [Objects -> {"free", "live", "deleted"}] /\ refs' \in [Objects -> Nat]
      BY <1>0, <1>2 DEF TypeInv
    <2>2. stack' \in Seq(Calls)
      BY <1>4, <1>5, PushCall
    <2> QED
      BY <1>0, <1>1, <2>1, <2>2 DEF TypeInv
  <1>12. HeapInv'
    <2>1. \A r \in Slots : slot[r] # NULL => heap'[slot[r]] = "live"
      BY <1>0, <1>6 DEF HeapInv, TypeInv
    <2>2. ASSUME NEW p \in Objects, heap'[p] = "live", NEW w \in Elements(observers[p])
          PROVE  heap'[w] = "live"
      <3>1. p # o /\ heap[p] = "live"
        BY <1>6, <1>8, <2>2
      <3>2. heap[w] = "live"
        BY <1>0, <2>2, <3>1 DEF HeapInv
      <3>3. w \in Objects
        BY <1>0, <2>2, LenProperties, ElementOfSeq DEF TypeInv, Elements
      <3> QED
        BY <1>6, <3>2, <3>3
    <2>3. \A p \in Objects : heap'[p] = "free" => observers[p] = <<>>
      BY <1>0, <1>6 DEF HeapInv
    <2> QED
      BY <1>1, <2>1, <2>2, <2>3 DEF HeapInv
  <1>13. StackInv'
    <2>1. PICK st0 \in Seq(Calls) : st0 = stack
      BY <1>5
    <2>2. ASSUME NEW i \in DOMAIN st0, NEW c \in Calls, c = st0[i]
          PROVE  /\ CallOK(c) /\ c.object \in Objects /\ c.object # o /\ heap[c.object] = "live"
                 /\ c.step \in {"construct", "handle", "finish"} /\ c.via # s
                 /\ c.step = "construct" => \A r \in Slots : slot[r] # c.object
      <3>1. /\ CallOK(c) /\ c.object \in Objects /\ c.via # s
            /\ c.step \in {"construct", "handle", "finish"}
        BY <1>1, <2>1, <2>2, Beneath, SlotWaits, CallTypes
      <3>2. /\ heap[c.object] = "live"
            /\ c.step = "construct" => \A r \in Slots : slot[r] # c.object
        BY <3>1 DEF CallOK, PointerOf
      <3> QED
        BY <1>2, <3>1, <3>2
    <2>3. \A i \in DOMAIN st0 : CallOK(st0[i])'
      <3> TAKE i \in DOMAIN st0
      <3>1. PICK c \in Calls : c = st0[i]
        BY StackPicked
      <3>2. CallOK(c)'
        BY <1>0, <1>1, <1>6, <1>9, <2>2, <3>1, CallKept
      <3> QED
        BY <3>1, <3>2
    <2>4. StackOK(st0)'
      BY <1>1, <1>5, <2>1, <2>3, StackSame
    <2>5. CallOK(f)'
      <3>1. StepOf(f)'
        BY <1>4 DEF StepOf
      <3>2. PointerOf(f)'
        BY <1>1, <1>4, <1>6, <1>10 DEF PointerOf
      <3>3. UnlistedIn(f)'
        BY <1>1, <1>4, <1>9 DEF UnlistedIn
      <3>4. ToldIn(f)'
        BY <1>4 DEF ToldIn
      <3> QED
        BY <3>1, <3>2, <3>3, <3>4 DEF CallOK
    <2>6. \A i \in DOMAIN st0 : Inside(f, st0[i])'
      <3> TAKE i \in DOMAIN st0
      <3>1. PICK c \in Calls : c = st0[i]
        BY StackPicked
      <3>2. /\ c.object \in Objects /\ c.object # o /\ heap[c.object] = "live"
            /\ c.step \in {"construct", "handle", "finish"} /\ c.via # s
        BY <2>2, <3>1
      <3>3. o \notin Elements(observers[c.object])
        BY <1>0, <1>2, <3>2 DEF HeapInv
      <3>4. Inside(f, c)'
        BY <1>1, <1>4, <3>2, <3>3 DEF Inside
      <3> QED
        BY <3>1, <3>4
    <2>7. st0 # <<>> => Directly(f, st0[1])
      BY <1>5, <2>1 DEF Directly
    <2>8. TopOK(f)'
      BY <1>4 DEF TopOK
    <2>9. stack' = Pushed(st0, f)
      BY <1>4, <2>1
    <2> QED
      BY <2>4, <2>5, <2>6, <2>7, <2>8, <2>9, StackToppedBy
  <1>14. CountInv'
    <2>1. ASSUME NEW p \in Objects, p # o
          PROVE  Cardinality(CallsOf(stack', p)) = Cardinality(CallsOf(stack, p))
      <3>1. ~ Holds(f, p)
        BY <1>4, <2>1 DEF Holds
      <3> QED
        BY <1>4, <1>5, <3>1, CallsPushed, CallsCounted
    <2>2. Cardinality(CallsOf(stack', o)) = 1
      <3>1. \A i \in DOMAIN stack : ~ Holds(stack[i], o)
        <4> TAKE i \in DOMAIN stack
        <4>1. CallOK(stack[i])
          BY <1>1, Beneath
        <4>2. heap[stack[i].object] = "live"
          BY <4>1 DEF CallOK, PointerOf
        <4> QED
          BY <1>2, <4>2 DEF Holds
      <3>2. Cardinality(CallsOf(stack, o)) = 0
        BY <1>5, <3>1, CallsHeld
      <3>3. Holds(f, o)
        BY <1>4 DEF Holds
      <3> QED
        BY <1>4, <1>5, <3>2, <3>3, CallsPushed
    <2>3. Cardinality(SlotsOf(slot, o)) = 0
      BY <1>10, SlotsCounted
    <2>4. ASSUME NEW p \in Objects
          PROVE  /\ heap'[p] = "live" =>
                      /\ refs'[p] > 0
                      /\ refs'[p] = Cardinality(SlotsOf(slot', p)) + Cardinality(CallsOf(stack', p))
                 /\ heap'[p] # "live" => refs'[p] \in {0, 1}
      <3>1. CASE p = o
        BY <1>1, <1>6, <2>2, <2>3, <3>1
      <3>2. CASE p # o
        BY <1>0, <1>1, <1>6, <2>1, <3>2 DEF CountInv
      <3> QED
        BY <3>1, <3>2
    <2> QED
      BY <2>4 DEF CountInv
  <1>15. DepthInv'
    BY <1>1, <1>4, DepthCalled
  <1> QED
    BY <1>11, <1>12, <1>13, <1>14, <1>15 DEF IInv

LEMMA CalledKeeps ==
  ASSUME IInv, MayCall, NEW f \in Calls, stack' = Pushed(stack, f),
         UNCHANGED <<heap, refs, observers, held, slot>>,
         valid' \in [Objects -> BOOLEAN], \A w \in Objects : valid'[w] => valid[w],
         CallOK(f)', TopOK(f)',
         f.op # "create", f.step \in {"lock", "edit"}, \A o \in Objects : ~ Holds(f, o),
         \A i \in DOMAIN stack :
           /\ f.via \in Slots => f.via # stack[i].via
           /\ stack[i].step = "construct" => f.step = "edit" \/ f.object # stack[i].object
  PROVE  IInv'
  <1>0. TypeInv /\ HeapInv
    BY DEF IInv
  <1>1. /\ stack \in Seq(Calls) /\ StackOK(stack)
        /\ stack # <<>> => stack[1].step \in {"construct", "handle"}
    BY CalledFrom
  <1>2. TypeInv'
    <2>1. stack' \in Seq(Calls)
      BY <1>1, PushCall
    <2> QED
      BY <1>0, <2>1 DEF TypeInv
  <1>3. HeapInv'
    BY <1>0 DEF HeapInv
  <1>4. StackInv'
    <2>1. PICK st \in Seq(Calls) : st = stack
      BY <1>1
    <2>2. \A w : Listed(w)' => Listed(w)
      BY DEF Listed
    <2>3. \A i \in DOMAIN st : CallOK(st[i])'
      <3> TAKE i \in DOMAIN st
      <3>1. PICK c \in Calls : c = st[i]
        BY StackPicked
      <3>2. CallOK(c)
        BY <2>1, <3>1, Beneath
      <3>3. /\ heap[c.object] = "live"
            /\ c.step = "construct" => \A r \in Slots : slot[r] # c.object
        BY <3>2 DEF CallOK, PointerOf
      <3>4. CallOK(c)'
        BY <1>0, <2>2, <3>2, <3>3, CallKept
      <3> QED
        BY <3>1, <3>4
    <2>4. StackOK(st)'
      BY <1>1, <2>1, <2>3, StackSame
    <2>5. \A i \in DOMAIN st : Inside(f, st[i])'
      <3> TAKE i \in DOMAIN st
      <3>1. PICK c \in Calls : c = st[i]
        BY StackPicked
      <3>2. c.step \in {"construct", "handle", "finish"}
        BY <2>1, <3>1, Beneath
      <3>3. /\ f.via \in Slots => f.via # c.via
            /\ c.step = "construct" => f.step = "edit" \/ f.object # c.object
        BY <2>1, <3>1
      <3>4. Inside(f, c)'
        BY <3>2, <3>3 DEF Inside
      <3> QED
        BY <3>1, <3>4
    <2>6. st # <<>> => Directly(f, st[1])
      BY <1>1, <2>1 DEF Directly
    <2>7. stack' = Pushed(st, f)
      BY <2>1
    <2> QED
      BY <2>4, <2>5, <2>6, <2>7, StackToppedBy
  <1>5. CountInv'
    BY CountCalled
  <1>6. DepthInv'
    BY DepthCalled
  <1> QED
    BY <1>2, <1>3, <1>4, <1>5, <1>6 DEF IInv

(* No slot holds an object under construction.                             *)
LEMMA CallReleaseKeeps ==
  ASSUME Disciplined, IInv, NEW s \in Slots, CallRelease(s)
  PROVE  IInv'
  <1>0. TypeInv /\ HeapInv
    BY DEF IInv
  <1>1. PICK o : o = slot[s]
    OBVIOUS
  <1>2. /\ MayCall /\ MayWrite(s) /\ o # NULL /\ ~ Listed(o)
        /\ UNCHANGED <<heap, refs, observers, held, slot>>
        /\ valid' = [valid EXCEPT ![o] = FALSE]
        /\ stack' = Pushed(stack, Call("release", s, o, NULL, "lock"))
    BY <1>1 DEF CallRelease, BeginRelease, Pushed, MayLeave, Disciplined, CallerRules
  <1>3. o \in Objects /\ heap[o] = "live"
    BY <1>0, <1>1, <1>2 DEF TypeInv, HeapInv
  <1>4. PICK f \in Calls :
          /\ stack' = Pushed(stack, f) /\ f.op = "release" /\ f.via = s /\ f.object = o
          /\ f.before = NULL /\ f.step = "lock" /\ f.at = 1
    BY <1>2, <1>3, CallIsCall
  <1>5. valid' \in [Objects -> BOOLEAN] /\ \A w \in Objects : valid'[w] => valid[w]
    BY <1>0, <1>2 DEF TypeInv
  <1>6. s # Local
    BY DEF FreeingAssumption
  <1>7. CallOK(f)'
    <2>1. StepOf(f)'
      BY <1>4 DEF StepOf
    <2>2. PointerOf(f)'
      BY <1>1, <1>2, <1>3, <1>4 DEF PointerOf
    <2>3. UnlistedIn(f)'
      BY <1>2, <1>4, <1>6 DEF UnlistedIn, Listed
    <2>4. ToldIn(f)'
      BY <1>4 DEF ToldIn
    <2> QED
      BY <2>1, <2>2, <2>3, <2>4 DEF CallOK
  <1>8. TopOK(f)'
    BY <1>4 DEF TopOK
  <1>9. \A p \in Objects : ~ Holds(f, p)
    BY <1>4, <1>6 DEF Holds
  <1>10. \A i \in DOMAIN stack : /\ f.via # stack[i].via
                                 /\ stack[i].step = "construct" => f.object # stack[i].object
    <2> TAKE i \in DOMAIN stack
    <2>1. f.via # stack[i].via
      BY <1>2, <1>4, SlotWaits
    <2>2. CallOK(stack[i])
      BY <1>2, Beneath
    <2> QED
      BY <1>1, <1>4, <2>1, <2>2 DEF CallOK, PointerOf
  <1> QED
    BY <1>2, <1>4, <1>5, <1>7, <1>8, <1>9, <1>10, CalledKeeps

LEMMA FramesCalled ==
  ASSUME stack \in Seq(Calls), NEW f \in Calls, stack' = Pushed(stack, f), NEW g
  PROVE  g \in Frames' <=> g = f \/ g \in Frames
  <1>1. PICK r : r = Pushed(stack, f)
    OBVIOUS
  <1>2. /\ Len(stack) \in Nat /\ DOMAIN stack = 1..Len(stack)
        /\ DOMAIN r = 1..Len(stack) + 1 /\ r[1] = f
        /\ \A i \in 2..Len(stack) + 1 : r[i] = stack[i - 1]
    BY <1>1, PushCall
  <1>3. ASSUME NEW i \in DOMAIN r, i # 1 PROVE \E j \in DOMAIN stack : r[i] = stack[j]
    <2>1. i - 1 \in DOMAIN stack /\ i \in 2..Len(stack) + 1
      BY <1>2, <1>3
    <2> QED
      BY <1>2, <2>1
  <1>4. ASSUME NEW j \in DOMAIN stack PROVE \E i \in DOMAIN r : r[i] = stack[j]
    <2>1. j + 1 \in DOMAIN r /\ j + 1 \in 2..Len(stack) + 1 /\ (j + 1) - 1 = j
      BY <1>2
    <2> QED
      BY <1>2, <2>1
  <1>5. 1 \in DOMAIN r
    BY <1>2
  <1>6. stack' = r
    BY <1>1
  <1> QED
    BY <1>2, <1>3, <1>4, <1>5, <1>6 DEF Frames

LEMMA KnownIsThere ==
  ASSUME IInv, MayCall, NEW o \in Known
  PROVE  o \in Objects /\ heap[o] = "live"
  <1>0. TypeInv /\ HeapInv
    BY DEF IInv
  <1>1. CASE \E s \in Slots : o = slot[s]
    BY <1>0, <1>1 DEF Known, TypeInv, HeapInv
  <1>2. CASE o \in Constructing
    <2>1. PICK i \in DOMAIN stack : o = stack[i].object
      BY <1>2 DEF Constructing, Frames
    <2>2. stack[i] \in Calls /\ CallOK(stack[i])
      BY Beneath
    <2> QED
      BY <2>1, <2>2, CallTypes DEF CallOK, PointerOf
  <1> QED
    BY <1>1, <1>2 DEF Known

LEMMA CallEditKeeps ==
  ASSUME Disciplined, IInv, NEW o \in Objects, NEW w \in Objects,
         NEW op \in {"register", "unregister"}, CallEdit(op, o, w)
  PROVE  IInv'
  <1>0. TypeInv /\ HeapInv
    BY DEF IInv
  <1>1. /\ MayCall /\ o \in Known /\ w \in Known
        /\ stack' = Pushed(stack, Call(op, Local, o, w, "edit"))
        /\ UNCHANGED <<heap, valid, refs, observers, held, slot>>
    BY DEF CallEdit, Pushed, objectVars
  <1>2. op = "register" =>
          /\ valid[w] \/ w \in Constructing
          /\ \A g \in Frames : g.via \in Slots => slot[g.via] # w
    BY DEF CallEdit, Disciplined, CallerRules
  <1>3. heap[o] = "live" /\ heap[w] = "live"
    BY <1>1, KnownIsThere
  <1>4. PICK f \in Calls :
          /\ stack' = Pushed(stack, f) /\ f.op = op /\ f.via = Local /\ f.object = o
          /\ f.before = w /\ f.step = "edit" /\ f.at = 1
    BY <1>1, CallIsCall
  <1>5. f.via \notin Slots /\ w # NULL
    BY <1>4 DEF FreeingAssumption
  <1>6. valid' \in [Objects -> BOOLEAN] /\ \A x \in Objects : valid'[x] => valid[x]
    BY <1>0, <1>1 DEF TypeInv
  <1>7. CallOK(f)'
    <2>1. StepOf(f)'
      BY <1>4 DEF StepOf
    <2>2. PointerOf(f)'
      BY <1>1, <1>3, <1>4 DEF PointerOf
    <2>3. UnlistedIn(f)' /\ ToldIn(f)'
      BY <1>4 DEF UnlistedIn, ToldIn
    <2> QED
      BY <2>1, <2>2, <2>3 DEF CallOK
  <1>8. TopOK(f)'
    <2>1. ASSUME op = "register"
          PROVE  /\ w # NULL /\ heap'[w] = "live"
                 /\ valid'[w] \/ w \in Constructing'
                 /\ \A g \in Frames' : g.via \in Slots => slot'[g.via] # w
      <3>1. stack \in Seq(Calls)
        BY <1>0 DEF TypeInv
      <3>2. \A g : g \in Frames' <=> g = f \/ g \in Frames
        BY <1>4, <3>1, FramesCalled
      <3>3. w \in Constructing => w \in Constructing'
        BY <3>2 DEF Constructing
      <3> QED
        BY <1>1, <1>2, <1>3, <1>5, <2>1, <3>2, <3>3
    <2> QED
      BY <1>4, <2>1 DEF TopOK
  <1>9. \A p \in Objects : ~ Holds(f, p)
    BY <1>4 DEF Holds
  <1> QED
    BY <1>1, <1>4, <1>5, <1>6, <1>7, <1>8, <1>9, CalledKeeps

LEMMA CallReferenceKeeps ==
  ASSUME Disciplined, IInv, NEW s \in Slots, NEW r \in Slots, CallReference(s, r)
  PROVE  IInv'
  <1>0. TypeInv /\ HeapInv /\ CountInv /\ DepthInv
    BY DEF IInv
  <1>1. PICK o : o = slot[s]
    OBVIOUS
  <1>2. /\ MayCall /\ MayWrite(r) /\ o # NULL /\ slot[r] = NULL
        /\ refs' = [refs EXCEPT ![o] = @ + 1] /\ slot' = [slot EXCEPT ![r] = o]
        /\ UNCHANGED <<heap, valid, observers, held, stack>>
    BY <1>1 DEF CallReference
  <1>3. o \in Objects /\ heap[o] = "live"
    BY <1>0, <1>1, <1>2 DEF TypeInv, HeapInv
  <1>4. /\ \A x \in Slots : slot'[x] = IF x = r THEN o ELSE slot[x]
        /\ \A p \in Objects : refs'[p] = IF p = o THEN refs[p] + 1 ELSE refs[p]
        /\ refs \in [Objects -> Nat]
    BY <1>0, <1>2 DEF TypeInv
  <1>5. TypeInv'
    BY <1>0, <1>2, <1>3 DEF TypeInv
  <1>6. HeapInv'
    BY <1>0, <1>2, <1>3, <1>4 DEF HeapInv
  <1>7. StackInv'
    <2>1. PICK st \in Seq(Calls) : st = stack
      BY <1>2, CalledFrom
    <2>2. \A w : Listed(w)' => Listed(w)
      BY <1>2 DEF Listed
    <2>3. \A i \in DOMAIN st : CallOK(st[i])'
      <3> TAKE i \in DOMAIN st
      <3>1. PICK c \in Calls : c = st[i]
        BY StackPicked
      <3>2. CallOK(c) /\ c.via # r
        BY <1>2, <2>1, <3>1, Beneath, SlotWaits
      <3>3. /\ heap[c.object] = "live"
            /\ c.step = "construct" => \A x \in Slots : slot[x] # c.object
        BY <3>2 DEF CallOK, PointerOf
      <3>4. c.step = "construct" => \A x \in Slots : slot'[x] # c.object
        BY <1>1, <1>4, <3>3
      <3>5. CallOK(c)'
        BY <1>0, <1>2, <1>4, <2>2, <3>2, <3>3, <3>4, CallKept
      <3> QED
        BY <3>1, <3>5
    <2>4. StackOK(st)'
      BY <1>2, <2>1, <2>3, CalledFrom, StackSame
    <2>5. ASSUME st # <<>> PROVE TopOK(st[1])'
      <3>1. 1 \in DOMAIN st /\ st[1].step \in {"construct", "handle"}
        BY <1>2, <2>1, <2>5, StackPicked, CalledFrom
      <3>2. PICK c : c = st[1]
        OBVIOUS
      <3>3. c.step # "finish" /\ c.op # "register"
        BY <1>2, <2>1, <3>1, <3>2, Beneath
      <3>4. TopOK(c)'
        BY <3>3 DEF TopOK
      <3> QED
        BY <3>2, <3>4
    <2>6. stack' = st
      BY <1>2, <2>1
    <2> QED
      BY <2>4, <2>5, <2>6 DEF StackInv
  <1>8. CountInv'
    <2>1. ASSUME NEW p \in Objects
          PROVE  /\ heap'[p] = "live" =>
                      /\ refs'[p] > 0
                      /\ refs'[p] = Cardinality(SlotsOf(slot', p)) + Cardinality(CallsOf(stack', p))
                 /\ heap'[p] # "live" => refs'[p] \in {0, 1}
      <3>1. Cardinality(SlotsOf(slot', p))
              = Cardinality(SlotsOf(slot, p)) + (IF o = p THEN 1 ELSE 0)
        <4>1. slot[r] # p
          BY <1>2 DEF FreeingAssumption
        <4>2. Cardinality(SlotsOf(slot, p)) \in Nat
          BY SlotsCounted
        <4>3. PICK new : new = slot'
          OBVIOUS
        <4>4. new[r] = o /\ \A x \in Slots \ {r} : new[x] = slot[x]
          BY <1>4, <4>3
        <4>5. Cardinality(SlotsOf(new, p))
                = Cardinality(SlotsOf(slot, p)) + (IF new[r] = p THEN 1 ELSE 0)
                                                - (IF slot[r] = p THEN 1 ELSE 0)
          BY <4>4, SlotWritten
        <4> QED
          BY <4>1, <4>2, <4>3, <4>4, <4>5
      <3>2. CallsOf(stack', p) = CallsOf(stack, p)
        BY <1>2
      <3>3. /\ heap[p] = "live" =>
                 /\ refs[p] > 0
                 /\ refs[p] = Cardinality(SlotsOf(slot, p)) + Cardinality(CallsOf(stack, p))
            /\ heap[p] # "live" => refs[p] \in {0, 1}
        BY <1>0 DEF CountInv
      <3>4. /\ Cardinality(SlotsOf(slot, p)) \in Nat /\ Cardinality(CallsOf(stack, p)) \in Nat
            /\ refs[p] \in Nat
        BY <1>0, <1>4, SlotsCounted, CallsCounted DEF TypeInv
      <3> QED
        BY <1>2, <1>3, <1>4, <3>1, <3>2, <3>3, <3>4
    <2> QED
      BY <2>1 DEF CountInv
  <1>9. DepthInv'
    BY <1>0, <1>2 DEF DepthInv
  <1> QED
    BY <1>5, <1>6, <1>7, <1>8, <1>9 DEF IInv

-----------------------------------------------------------------------------
(* createInstance goes on when the constructor returns.  The object under  *)
(* construction is in no other call, and in no slot.                       *)
LEMMA UnderConstruction ==
  ASSUME IInv, NEW st \in Seq(Calls), NEW f \in Calls, Split(st, f), f.step = "construct",
         f.op = "create"
  PROVE  /\ f.via \in Slots /\ f.object \in Objects /\ heap[f.object] = "live"
         /\ f.object # NULL /\ slot[f.via] = f.before /\ \A s \in Slots : slot[s] # f.object
         /\ \A i \in DOMAIN st : st[i].object # f.object /\ st[i].via # f.via
         /\ f.before # NULL => ~ Listed(f.before)
         /\ st # <<>> => st[1].step # "finish"
  <1>1. StepOf(f) /\ PointerOf(f) /\ UnlistedIn(f)
    BY DEF Split, CallOK
  <1>2. f.via \in Slots /\ f.object \in Objects /\ f.object # NULL
    BY <1>1, CallTypes DEF StepOf, FreeingAssumption
  <1>3. \A i \in DOMAIN st : st[i].object # f.object /\ st[i].via # f.via
    <2> TAKE i \in DOMAIN st
    <2>1. Inside(f, st[i])
      BY DEF Split
    <2> QED
      BY <1>2, <2>1 DEF Inside
  <1>4. st # <<>> => st[1].step # "finish"
    BY DEF Split, Directly
  <1> QED
    BY <1>1, <1>2, <1>3, <1>4 DEF PointerOf, UnlistedIn

LEMMA ConstructFailsKeeps ==
  ASSUME Disciplined, IInv, ConstructFails
  PROVE  IInv'
  <1>0. TypeInv /\ HeapInv /\ CountInv
    BY DEF IInv
  <1>1. PICK st \in Seq(Calls), f \in Calls :
          Split(st, f) /\ f.op = "create" /\ f.step = "construct"
    BY AtTop DEF ConstructFails
  <1>2. PICK o : o = f.object
    OBVIOUS
  <1>3. /\ ~ Listed(o) /\ heap' = [heap EXCEPT ![o] = "deleted"] /\ stack' = st
        /\ UNCHANGED <<valid, refs, observers, held, slot>>
    BY <1>1, <1>2 DEF ConstructFails, MayLeave, Return, Split, Disciplined, CallerRules
  <1>4. /\ o \in Objects /\ heap[o] = "live"
        /\ \A s \in Slots : slot[s] # o
        /\ \A i \in DOMAIN st : st[i].object # o
        /\ st # <<>> => st[1].step # "finish"
    BY <1>1, <1>2, UnderConstruction
  <1>5. \A p \in Objects : heap'[p] = IF p = o THEN "deleted" ELSE heap[p]
    BY <1>0, <1>3 DEF TypeInv
  <1>6. TypeInv'
    BY <1>0, <1>3 DEF TypeInv
  <1>7. HeapInv'
    <2>1. \A s \in Slots : slot[s] # NULL => heap'[slot[s]] = "live"
      BY <1>0, <1>4, <1>5 DEF HeapInv, TypeInv
    <2>2. ASSUME NEW p \in Objects, heap'[p] = "live", NEW w \in Elements(observers[p])
          PROVE  heap'[w] = "live"
      <3>1. p # o /\ heap[p] = "live"
        BY <1>5, <2>2
      <3>2. heap[w] = "live" /\ w # o
        BY <1>0, <1>3, <2>2, <3>1 DEF HeapInv, Listed
      <3>3. w \in Objects
        BY <1>0, <2>2, LenProperties, ElementOfSeq DEF TypeInv, Elements
      <3> QED
        BY <1>5, <3>2, <3>3
    <2>3. \A p \in Objects : heap'[p] = "free" => observers[p] = <<>>
      BY <1>0, <1>5 DEF HeapInv
    <2> QED
      BY <1>3, <2>1, <2>2, <2>3 DEF HeapInv
  <1>8. StackInv'
    <2>1. \A w : Listed(w)' => Listed(w)
      BY <1>3, <1>5 DEF Listed
    <2>2. \A i \in DOMAIN st : CallOK(st[i])'
      <3> TAKE i \in DOMAIN st
      <3>1. PICK c \in Calls : c = st[i]
        BY StackPicked
      <3>2. CallOK(c) /\ c.object \in Objects /\ c.object # o
        BY <1>1, <1>4, <3>1, Waiting, CallTypes
      <3>3. /\ heap'[c.object] = "live"
            /\ c.step = "construct" => \A x \in Slots : slot'[x] # c.object
        BY <1>3, <1>5, <3>2 DEF CallOK, PointerOf
      <3>4. CallOK(c)'
        BY <1>0, <1>3, <2>1, <3>2, <3>3, CallKept
      <3> QED
        BY <3>1, <3>4
    <2>3. StackOK(st)'
      BY <1>1, <1>3, <2>2, StackSame DEF Split
    <2> QED
      BY <1>1, <1>3, <1>4, <2>3, StackReturned
  <1>9. CountInv'
    <2>1. ASSUME NEW p \in Objects
          PROVE  /\ heap'[p] = "live" =>
                      /\ refs'[p] > 0
                      /\ refs'[p] = Cardinality(SlotsOf(slot', p)) + Cardinality(CallsOf(stack', p))
                 /\ heap'[p] # "live" => refs'[p] \in {0, 1}
      <3>1. Cardinality(CallsOf(stack, p))
              = Cardinality(CallsOf(st, p)) + (IF p = o THEN 1 ELSE 0)
        <4>1. Holds(f, p) <=> p = o
          BY <1>1, <1>2 DEF Holds
        <4> QED
          BY <1>1, <4>1, CallsPushed DEF Split
      <3>2. CASE p = o
        <4>1. \A i \in DOMAIN st : ~ Holds(st[i], o)
          BY <1>4 DEF Holds
        <4>2. Cardinality(CallsOf(st, o)) = 0 /\ Cardinality(SlotsOf(slot, o)) = 0
          BY <1>4, <4>1, CallsHeld, SlotsCounted
        <4>3. refs[o] = 1
          BY <1>0, <1>4, <3>1, <3>2, <4>2 DEF CountInv
        <4> QED
          BY <1>3, <1>4, <1>5, <3>2, <4>3
      <3>3. CASE p # o
        <4>1. Cardinality(CallsOf(stack', p)) = Cardinality(CallsOf(stack, p))
          BY <1>3, <3>1, <3>3, CallsCounted
        <4> QED
          BY <1>0, <1>3, <1>5, <3>3, <4>1 DEF CountInv
      <3> QED
        BY <3>2, <3>3
    <2> QED
      BY <2>1 DEF CountInv
  <1>10. DepthInv'
    BY <1>1, <1>3, DepthReturned
  <1> QED
    BY <1>6, <1>7, <1>8, <1>9, <1>10 DEF IInv

(* The constructor is done.  What the caller's pointer held is released    *)
(* inside the call: it is in no list, and no slot and no call but this one *)
(* gets at it through the pointer.                                         *)
LEMMA ConstructKeeps ==
  ASSUME IInv, Construct
  PROVE  IInv'
  <1>0. TypeInv /\ HeapInv /\ CountInv /\ DepthInv
    BY DEF IInv
  <1>1. PICK st \in Seq(Calls), f \in Calls :
          Split(st, f) /\ f.op = "create" /\ f.step = "construct"
    BY AtTop DEF Construct
  <1>2. PICK o : o = f.object
    OBVIOUS
  <1>3. PICK old : old = f.before
    OBVIOUS
  <1>4. PICK g \in Calls : /\ g = [f EXCEPT !.step = "finish"] /\ g.step = "finish"
                           /\ SameButStep(f, g) /\ g.at = f.at
    BY StepTo
  <1>5. g.op = "create" /\ g.via = f.via /\ g.object = o /\ g.before = old
    BY <1>1, <1>2, <1>3, <1>4 DEF SameButStep
  <1>6. /\ f.via \in Slots /\ o \in Objects /\ heap[o] = "live" /\ o # NULL
        /\ slot[f.via] = old /\ \A s \in Slots : slot[s] # o
        /\ \A i \in DOMAIN st : st[i].object # o /\ st[i].via # f.via
        /\ old # NULL => ~ Listed(old)
        /\ st # <<>> => st[1].step # "finish"
    BY <1>1, <1>2, <1>3, UnderConstruction
  <1>7. /\ slot' = [slot EXCEPT ![f.via] = o]
        /\ UNCHANGED <<heap, refs, observers, held>>
        /\ old = NULL => stack' = Pushed(st, g) /\ valid' = valid
        /\ old # NULL =>
             /\ valid' = [valid EXCEPT ![old] = FALSE]
             /\ stack' = Pushed(Pushed(st, g), Call("release", Local, old, NULL, "lock"))
    <2>1. At("create", "construct") /\ Top = f /\ Tail(stack) = st /\ slot[Top.via] = old
      BY <1>1, <1>6 DEF Construct, Split
    <2> QED
      BY <1>2, <1>4, <2>1 DEF Construct, BeginRelease, Pushed
  <1>8. \A s \in Slots : slot'[s] = IF s = f.via THEN o ELSE slot[s]
    BY <1>0, <1>6, <1>7 DEF TypeInv
  <1>9. old # NULL => old \in Objects /\ heap[old] = "live" /\ old # o
    BY <1>0, <1>6 DEF TypeInv, HeapInv
  <1>10. valid' \in [Objects -> BOOLEAN] /\ \A w \in Objects : valid'[w] => valid[w]
    BY <1>0, <1>7 DEF TypeInv
  <1>11. HeapInv'
    BY <1>0, <1>6, <1>7, <1>8 DEF HeapInv
  <1>12. PICK u \in Seq(Calls) : u = Pushed(st, g)
    BY PushCall
  <1>13. StackOK(u)'
    <2>1. \A w : Listed(w)' => Listed(w)
      BY <1>7 DEF Listed
    <2>2. \A i \in DOMAIN st : CallOK(st[i])'
      <3> TAKE i \in DOMAIN st
      <3>1. PICK c \in Calls : c = st[i]
        BY StackPicked
      <3>2. CallOK(c) /\ c.object # o /\ c.via # f.via
        BY <1>1, <1>6, <3>1, Waiting
      <3>3. /\ heap[c.object] = "live"
            /\ c.step = "construct" => \A x \in Slots : slot'[x] # c.object
        BY <1>8, <3>2 DEF CallOK, PointerOf
      <3>4. CallOK(c)'
        BY <1>0, <1>7, <1>8, <1>10, <2>1, <3>2, <3>3, CallKept
      <3> QED
        BY <3>1, <3>4
    <2>3. StackOK(st)'
      BY <1>1, <1>7, <2>2, StackSame DEF Split
    <2>4. CallOK(g)'
      <3>1. StepOf(g)'
        BY <1>1, <1>4, <1>5, <1>6 DEF Split, CallOK, StepOf
      <3>2. PointerOf(g)'
        BY <1>4, <1>5, <1>6, <1>7, <1>8 DEF PointerOf
      <3>3. UnlistedIn(g)' /\ ToldIn(g)'
        BY <1>4, <1>5 DEF UnlistedIn, ToldIn
      <3> QED
        BY <3>1, <3>2, <3>3 DEF CallOK
    <2>5. \A i \in DOMAIN st : Inside(g, st[i])'
      <3> TAKE i \in DOMAIN st
      <3>1. Inside(f, st[i]) /\ st[i].object # o /\ st[i].via # f.via
        BY <1>1, <1>6 DEF Split
      <3>2. PICK c : c = st[i]
        OBVIOUS
      <3>3. Inside(g, c)'
        BY <1>1, <1>2, <1>4, <1>5, <1>7, <3>1, <3>2 DEF Inside
      <3> QED
        BY <3>2, <3>3
    <2>6. st # <<>> => Directly(g, st[1])
      BY <1>6 DEF Directly
    <2> QED
      BY <1>12, <2>3, <2>4, <2>5, <2>6, StackPushed
  <1>14. CASE old = NULL
    <2>1. stack' = u /\ u \in Seq(Calls)
      BY <1>7, <1>12, <1>14
    <2>2. TypeInv'
      BY <1>0, <1>6, <1>7, <1>10, <2>1 DEF TypeInv
    <2>3. StackInv'
      <3>1. u[1] = g
        BY <1>12, PushCall
      <3>2. TopOK(g)'
        BY <1>5, <1>14 DEF TopOK
      <3> QED
        BY <1>13, <2>1, <3>1, <3>2 DEF StackInv
    <2>4. CountInv'
      <3>1. ASSUME NEW p \in Objects
            PROVE  Cardinality(SlotsOf(slot', p)) + Cardinality(CallsOf(stack', p))
                     = Cardinality(SlotsOf(slot, p)) + Cardinality(CallsOf(stack, p))
        <4>1. Cardinality(SlotsOf(slot', p))
                = Cardinality(SlotsOf(slot, p)) + (IF o = p THEN 1 ELSE 0)
                                                - (IF slot[f.via] = p THEN 1 ELSE 0)
          <5>1. PICK v \in Slots : v = f.via
            BY <1>6
          <5>2. PICK new : new = slot'
            OBVIOUS
          <5>3. new[v] = o /\ \A s \in Slots \ {v} : new[s] = slot[s]
            BY <1>8, <5>1, <5>2
          <5>4. Cardinality(SlotsOf(new, p))
                  = Cardinality(SlotsOf(slot, p)) + (IF new[v] = p THEN 1 ELSE 0)
                                                  - (IF slot[v] = p THEN 1 ELSE 0)
            BY <5>3, SlotWritten
          <5> QED
            BY <5>1, <5>2, <5>3, <5>4
        <4>2. slot[f.via] # p
          BY <1>6, <1>14 DEF FreeingAssumption
        <4>3. Cardinality(CallsOf(stack, p))
                = Cardinality(CallsOf(st, p)) + (IF o = p THEN 1 ELSE 0)
          <5>1. Holds(f, p) <=> o = p
            BY <1>1, <1>2 DEF Holds
          <5> QED
            BY <1>1, <5>1, CallsPushed DEF Split
        <4>4. Cardinality(CallsOf(u, p)) = Cardinality(CallsOf(st, p)) + 0
          <5>1. ~ Holds(g, p)
            BY <1>4, <1>5 DEF Holds
          <5> QED
            BY <1>12, <5>1, CallsPushed
        <4>5. /\ Cardinality(SlotsOf(slot, p)) \in Nat /\ Cardinality(CallsOf(st, p)) \in Nat
          BY SlotsCounted, CallsCounted
        <4> QED
          BY <1>7, <2>1, <4>1, <4>2, <4>3, <4>4, <4>5
      <3> QED
        BY <1>7, <3>1, CountSame
    <2>5. DepthInv'
      BY <1>1, <1>7, <1>14, DepthTopped
    <2> QED
      BY <1>11, <2>2, <2>3, <2>4, <2>5 DEF IInv
  <1>15. CASE old # NULL
    <2>1. PICK r \in Calls :
            /\ r = Call("release", Local, old, NULL, "lock")
            /\ r.op = "release" /\ r.via = Local /\ r.object = old
            /\ r.before = NULL /\ r.step = "lock" /\ r.at = 1
      BY <1>9, <1>15, CallIsCall
    <2>2. stack' = Pushed(u, r) /\ valid' = [valid EXCEPT ![old] = FALSE]
      BY <1>7, <1>12, <1>15, <2>1
    <2>3. TypeInv'
      <3>1. stack' \in Seq(Calls)
        BY <2>2, PushCall
      <3> QED
        BY <1>0, <1>6, <1>7, <1>10, <3>1 DEF TypeInv
    <2>4. r.via \notin Slots
      BY <2>1 DEF FreeingAssumption
    <2>5. StackInv'
      <3>1. CallOK(r)'
        <4>1. StepOf(r)' /\ ToldIn(r)'
          BY <2>1 DEF StepOf, ToldIn
        <4>2. PointerOf(r)'
          BY <1>7, <1>9, <1>15, <2>1, <2>4 DEF PointerOf
        <4>3. ~ Listed(old)'
          BY <1>6, <1>7, <1>15 DEF Listed
        <4>4. ~ valid'[old]
          BY <1>0, <1>9, <1>15, <2>2 DEF TypeInv
        <4>5. UnlistedIn(r)'
          BY <2>1, <4>3, <4>4 DEF UnlistedIn
        <4> QED
          BY <4>1, <4>2, <4>5 DEF CallOK
      <3>2. TopOK(r)'
        BY <2>1 DEF TopOK
      <3>3. ASSUME NEW i \in DOMAIN u PROVE Inside(r, u[i])'
        <4>1. /\ DOMAIN u = 1..Len(st) + 1 /\ Len(st) \in Nat /\ u[1] = g
              /\ DOMAIN st = 1..Len(st) /\ \A j \in 2..Len(st) + 1 : u[j] = st[j - 1]
          BY ONLY st \in Seq(Calls), g \in Calls, <1>12, PushCall
        <4>2. CASE i = 1
          <5>1. Inside(r, g)'
            BY <1>4, <2>1, <2>4 DEF Inside
          <5> QED
            BY <4>1, <4>2, <5>1
        <4>3. CASE i # 1
          <5>1. i - 1 \in DOMAIN st /\ u[i] = st[i - 1]
            BY <4>1, <4>3
          <5>2. PICK c \in Calls : c = u[i]
            BY StackPicked
          <5>3. CallOK(c) /\ c.step \in {"construct", "handle", "finish"}
            BY <1>1, <5>1, <5>2, Waiting
          <5>4. c.step = "construct" => old # c.object
            BY <1>6, <5>3 DEF CallOK, PointerOf
          <5>5. Inside(r, c)'
            BY <2>1, <2>4, <5>3, <5>4 DEF Inside
          <5> QED
            BY <5>2, <5>5
        <4> QED
          BY <4>2, <4>3
      <3>4. Directly(r, u[1])
        <4>1. u[1] = g
          BY <1>12, PushCall
        <4> QED
          BY <1>5, <2>1, <4>1 DEF Directly
      <3> QED
        BY <1>13, <2>2, <3>1, <3>2, <3>3, <3>4, StackToppedBy
    <2>6. CountInv'
      <3>1. ASSUME NEW p \in Objects
            PROVE  Cardinality(SlotsOf(slot', p)) + Cardinality(CallsOf(stack', p))
                     = Cardinality(SlotsOf(slot, p)) + Cardinality(CallsOf(stack, p))
        <4>1. Cardinality(SlotsOf(slot', p))
                = Cardinality(SlotsOf(slot, p)) + (IF o = p THEN 1 ELSE 0)
                                                - (IF slot[f.via] = p THEN 1 ELSE 0)
          <5>1. PICK v \in Slots : v = f.via
            BY <1>6
          <5>2. PICK new : new = slot'
            OBVIOUS
          <5>3. new[v] = o /\ \A s \in Slots \ {v} : new[s] = slot[s]
            BY <1>8, <5>1, <5>2
          <5>4. Cardinality(SlotsOf(new, p))
                  = Cardinality(SlotsOf(slot, p)) + (IF new[v] = p THEN 1 ELSE 0)
                                                  - (IF slot[v] = p THEN 1 ELSE 0)
            BY <5>3, SlotWritten
          <5> QED
            BY <5>1, <5>2, <5>3, <5>4
        <4>2. slot[f.via] = p <=> old = p
          BY <1>6
        <4>3. Cardinality(CallsOf(stack, p))
                = Cardinality(CallsOf(st, p)) + (IF o = p THEN 1 ELSE 0)
          <5>1. Holds(f, p) <=> o = p
            BY <1>1, <1>2 DEF Holds
          <5> QED
            BY <1>1, <5>1, CallsPushed DEF Split
        <4>4. Cardinality(CallsOf(u, p)) = Cardinality(CallsOf(st, p)) + 0
          <5>1. ~ Holds(g, p)
            BY <1>4, <1>5 DEF Holds
          <5> QED
            BY <1>12, <5>1, CallsPushed
        <4>5. Cardinality(CallsOf(stack', p))
                = Cardinality(CallsOf(u, p)) + (IF old = p THEN 1 ELSE 0)
          <5>1. Holds(r, p) <=> old = p
            BY <2>1 DEF Holds
          <5> QED
            BY <2>2, <5>1, CallsPushed
        <4>6. /\ Cardinality(SlotsOf(slot, p)) \in Nat /\ Cardinality(CallsOf(st, p)) \in Nat
          BY SlotsCounted, CallsCounted
        <4>7. CASE old = p
          <5>1. Cardinality(SlotsOf(slot', p))
                  = Cardinality(SlotsOf(slot, p)) + (IF o = p THEN 1 ELSE 0) - 1
            BY <4>1, <4>2, <4>7
          <5>2. Cardinality(CallsOf(stack', p)) = Cardinality(CallsOf(st, p)) + 1
            BY <4>4, <4>5, <4>6, <4>7
          <5> QED
            BY <4>3, <4>6, <5>1, <5>2
        <4>8. CASE old # p
          <5>1. Cardinality(SlotsOf(slot', p))
                  = Cardinality(SlotsOf(slot, p)) + (IF o = p THEN 1 ELSE 0)
            BY <4>1, <4>2, <4>6, <4>8
          <5>2. Cardinality(CallsOf(stack', p)) = Cardinality(CallsOf(st, p))
            BY <4>4, <4>5, <4>6, <4>8
          <5> QED
            BY <4>3, <4>6, <5>1, <5>2
        <4> QED
          BY <4>7, <4>8
      <3> QED
        BY <1>7, <3>1, CountSame
    <2>7. DepthInv'
      <3>0. Len(u) = Len(st) + 1 /\ u[1] = g
        BY <1>12, PushCall
      <3>1. /\ Len(stack) = Len(st) + 1 /\ Len(st) \in Nat
            /\ \A j \in 2..Len(st) + 1 : stack[j] = st[j - 1]
        <4>1. stack = Pushed(st, f)
          BY <1>1 DEF Split
        <4> QED
          BY ONLY st \in Seq(Calls), f \in Calls, <4>1, PushCall
      <3>2. Len(stack') = Len(u) + 1 /\ \A j \in 2..Len(u) + 1 : stack'[j] = u[j - 1]
        BY <2>2, PushCall
      <3>3. Len(stack) <= MaxDepth
        <4> SUFFICES ASSUME Len(stack) = MaxDepth + 1, stack[2].step = "finish" PROVE FALSE
          BY <1>0 DEF DepthInv
        <4>1. stack[2] = st[1] /\ st # <<>>
          BY <3>1 DEF FreeingAssumption
        <4> QED
          BY <1>6, <4>1
      <3>4. stack'[2] = g /\ Len(stack') <= MaxDepth + 1
        BY <3>0, <3>1, <3>2, <3>3 DEF FreeingAssumption
      <3> QED
        BY <1>4, <3>0, <3>1, <3>2, <3>4 DEF DepthInv, FreeingAssumption
    <2> QED
      BY <1>11, <2>3, <2>5, <2>6, <2>7 DEF IInv
  <1> QED
    BY <1>14, <1>15

(* The new object becomes valid: no call below releases it or has it among *)
(* the observers it tells.                                                 *)
LEMMA FinishKeeps ==
  ASSUME IInv, Finish
  PROVE  IInv'
  <1>0. TypeInv /\ HeapInv
    BY DEF IInv
  <1>1. PICK st \in Seq(Calls), f \in Calls :
          Split(st, f) /\ f.op = "create" /\ f.step = "finish"
    BY AtTop DEF Finish
  <1>2. PICK o \in Objects : o = f.object
    BY CallTypes
  <1>3. slot[f.via] = o
    BY <1>1, <1>2 DEF Split, CallOK, PointerOf
  <1>4. /\ valid' = [valid EXCEPT ![o] = TRUE] /\ stack' = st
        /\ UNCHANGED <<heap, refs, observers, held, slot>>
    <2>1. Top = f /\ Tail(stack) = st
      BY <1>1 DEF Split
    <2> QED
      BY <1>3, <2>1 DEF Finish, Return
  <1>5. valid' \in [Objects -> BOOLEAN] /\ \A w \in Objects \ {o} : valid'[w] = valid[w]
    BY <1>0, <1>4 DEF TypeInv
  <1>6. TypeInv'
    BY <1>0, <1>4, <1>5 DEF TypeInv
  <1>7. HeapInv'
    BY <1>0, <1>4 DEF HeapInv
  <1>8. StackInv'
    <2>1. \A i \in DOMAIN st : CallOK(st[i])'
      <3> TAKE i \in DOMAIN st
      <3>1. PICK c \in Calls : c = st[i]
        BY Waiting
      <3>2. /\ CallOK(c) /\ Inside(f, c) /\ c.object \in Objects
            /\ c.step \in {"construct", "handle", "finish"}
            /\ c.step = "handle" <=> c.op = "release"
        BY <1>1, <3>1, Waiting, CallTypes
      <3>3. c.op = "release" => c.object # o /\ o \notin Elements(observers[c.object])
        BY <1>1, <1>2, <3>2 DEF Inside
      <3>4. StepOf(c)' /\ PointerOf(c)'
        BY <1>4, <3>2 DEF CallOK, StepOf, PointerOf
      <3>5. UnlistedIn(c)'
        <4>1. UnlistedIn(c)
          BY <3>2 DEF CallOK
        <4>2. c.op = "release" => valid'[c.object] = valid[c.object]
          BY <1>5, <3>2, <3>3
        <4> QED
          BY <1>4, <4>1, <4>2 DEF UnlistedIn, Listed
      <3>6. ToldIn(c)'
        <4>1. CASE c.op = "release"
          <5>1. ToldIn(c)
            BY <3>2 DEF CallOK
          <5>2. \A i2 \in DOMAIN observers[c.object] :
                  /\ observers[c.object][i2] \in Objects
                  /\ observers[c.object][i2] # o
            BY <1>0, <3>2, <3>3, <4>1, LenProperties, ElementOfSeq DEF TypeInv, Elements
          <5>3. \A i2 \in DOMAIN observers[c.object] :
                  valid'[observers[c.object][i2]] = valid[observers[c.object][i2]]
            BY <1>5, <5>2
          <5> QED
            BY <1>4, <5>1, <5>3 DEF ToldIn
        <4>2. CASE c.op # "release"
          BY <3>2, <4>2 DEF ToldIn
        <4> QED
          BY <4>1, <4>2
      <3>7. CallOK(c)'
        BY <3>4, <3>5, <3>6 DEF CallOK
      <3> QED
        BY <3>1, <3>7
    <2>2. StackOK(st)'
      BY <1>1, <1>4, <2>1, StackSame DEF Split
    <2>3. st # <<>> => st[1].step # "finish"
      BY <1>1 DEF Split, Directly
    <2> QED
      BY <1>1, <1>4, <2>2, <2>3, StackReturned
  <1>9. CountInv'
    <2>1. \A p \in Objects : ~ Holds(f, p)
      BY <1>1 DEF Holds
    <2> QED
      BY <1>1, <1>4, <2>1, CountReturned
  <1>10. DepthInv'
    BY <1>1, <1>4, DepthReturned
  <1> QED
    BY <1>6, <1>7, <1>8, <1>9, <1>10 DEF IInv

-----------------------------------------------------------------------------
(* What the last step of a release does.                                   *)
LEMMA DropEffect ==
  ASSUME Disciplined, IInv, NEW st \in Seq(Calls), NEW f \in Calls, Split(st, f),
         f.op = "release", f.step = "drop", Drop
  PROVE  /\ f.object \in Objects /\ heap[f.object] = "live" /\ ~ Listed(f.object)
         /\ f.via \notin Slots => f.via = Local
         /\ f.via \in Slots => slot[f.via] = f.object
         /\ stack' = st /\ UNCHANGED <<valid, observers, held>>
         /\ refs' = [refs EXCEPT ![f.object] = @ - 1]
         /\ heap' = IF refs[f.object] - 1 < 1
                    THEN [heap EXCEPT ![f.object] = "deleted"] ELSE heap
         /\ slot' = IF f.via \in Slots THEN [slot EXCEPT ![f.via] = NULL] ELSE slot
  <1>1. /\ f.object \in Objects /\ f.via \in Slots \cup {Local}
    BY CallTypes
  <1>2. /\ heap[f.object] = "live" /\ ~ Listed(f.object)
        /\ f.via \in Slots => slot[f.via] = f.object
    BY DEF Split, CallOK, PointerOf, UnlistedIn
  <1>3. Top = f /\ Tail(stack) = st
    BY DEF Split
  <1>4. Pointed = f.object
    BY <1>1, <1>2, <1>3 DEF Pointed
  <1>5. "ForgetReleased" \in Rules
    BY DEF Disciplined, CallerRules
  <1> QED
    BY <1>1, <1>2, <1>3, <1>4, <1>5 DEF Drop, Let, Return

LEMMA DropCounts ==
  ASSUME Disciplined, IInv, NEW st \in Seq(Calls), NEW f \in Calls, Split(st, f),
         f.op = "release", f.step = "drop", Drop, NEW p \in Objects
  PROVE  Cardinality(SlotsOf(slot, p)) + Cardinality(CallsOf(stack, p))
           = Cardinality(SlotsOf(slot', p)) + Cardinality(CallsOf(st, p))
             + (IF p = f.object THEN 1 ELSE 0)
  <1>1. PICK o \in Objects : o = f.object
    BY CallTypes
  <1>2. PICK v : v = f.via
    OBVIOUS
  <1>3. /\ v \notin Slots => v = Local
        /\ v \in Slots => slot[v] = o
        /\ slot' = IF v \in Slots THEN [slot EXCEPT ![v] = NULL] ELSE slot
    BY <1>1, <1>2, DropEffect
  <1>4. Cardinality(CallsOf(stack, p))
          = Cardinality(CallsOf(st, p)) + (IF Holds(f, p) THEN 1 ELSE 0)
    BY CallsPushed DEF Split
  <1>5. /\ Cardinality(SlotsOf(slot, p)) \in Nat /\ Cardinality(CallsOf(st, p)) \in Nat
    BY SlotsCounted, CallsCounted
  <1>6. PICK new : new = slot'
    OBVIOUS
  <1>7. CASE v \in Slots
    <2>1. new[v] = NULL /\ \A s \in Slots \ {v} : new[s] = slot[s]
      BY <1>3, <1>6, <1>7 DEF IInv, TypeInv
    <2>2. Cardinality(SlotsOf(new, p))
            = Cardinality(SlotsOf(slot, p)) + (IF new[v] = p THEN 1 ELSE 0)
                                            - (IF slot[v] = p THEN 1 ELSE 0)
      BY <1>7, <2>1, SlotWritten
    <2>3. ~ Holds(f, p)
      BY <1>2, <1>7 DEF Holds, FreeingAssumption
    <2>4. new[v] # p /\ (slot[v] = p <=> p = o)
      BY <1>3, <1>7, <2>1 DEF FreeingAssumption
    <2>5. CASE p = o
      BY <1>1, <1>4, <1>5, <1>6, <2>2, <2>3, <2>4, <2>5
    <2>6. CASE p # o
      BY <1>1, <1>4, <1>5, <1>6, <2>2, <2>3, <2>4, <2>6
    <2> QED
      BY <2>5, <2>6
  <1>8. CASE v \notin Slots
    <2>1. slot' = slot /\ (Holds(f, p) <=> p = o)
      BY <1>1, <1>2, <1>3, <1>8 DEF Holds
    <2> QED
      BY <1>1, <1>4, <1>5, <2>1
  <1> QED
    BY <1>7, <1>8

(* An object that is deleted has no slot and no call left.                 *)
LEMMA DropDeletes ==
  ASSUME Disciplined, IInv, NEW st \in Seq(Calls), NEW f \in Calls, Split(st, f),
         f.op = "release", f.step = "drop", Drop
  PROVE  LET o == f.object
         IN  /\ refs[o] \in Nat \ {0}
             /\ refs[o] - 1 = Cardinality(SlotsOf(slot', o)) + Cardinality(CallsOf(st, o))
             /\ refs[o] - 1 < 1 =>
                  /\ refs[o] = 1 /\ \A s \in Slots : slot'[s] # o
                  /\ \A i \in DOMAIN st : ~ Holds(st[i], o)
  <1>1. PICK o \in Objects : o = f.object
    BY CallTypes
  <1>2. heap[o] = "live"
    BY <1>1, DropEffect
  <1>3. /\ refs[o] \in Nat /\ refs[o] > 0
        /\ refs[o] = Cardinality(SlotsOf(slot, o)) + Cardinality(CallsOf(stack, o))
    BY <1>2 DEF IInv, TypeInv, CountInv
  <1>4. PICK a : a = Cardinality(SlotsOf(slot', o))
    OBVIOUS
  <1>5. PICK b : b = Cardinality(CallsOf(st, o))
    OBVIOUS
  <1>6. a \in Nat /\ b \in Nat
    <2>1. PICK new : new = slot'
      OBVIOUS
    <2>2. a = Cardinality(SlotsOf(new, o))
      BY <1>4, <2>1
    <2> QED
      BY <1>5, <2>2, SlotsCounted, CallsCounted
  <1>7. refs[o] = a + b + 1
    BY <1>1, <1>3, <1>4, <1>5, DropCounts
  <1>8. ASSUME refs[o] - 1 < 1
        PROVE  /\ refs[o] = 1 /\ \A s \in Slots : slot'[s] # o
               /\ \A i \in DOMAIN st : ~ Holds(st[i], o)
    <2>1. refs[o] = 1 /\ a = 0 /\ b = 0
      BY <1>6, <1>7, <1>8
    <2>2. \A s \in Slots : slot'[s] # o
      <3>1. PICK new : new = slot'
        OBVIOUS
      <3>2. Cardinality(SlotsOf(new, o)) = 0
        BY <1>4, <2>1, <3>1
      <3>3. \A s \in Slots : new[s] # o
        BY <3>2, SlotsCounted
      <3> QED
        BY <3>1, <3>3
    <2>3. \A i \in DOMAIN st : ~ Holds(st[i], o)
      <3> SUFFICES ASSUME \E i \in DOMAIN st : Holds(st[i], o) PROVE FALSE
        OBVIOUS
      <3>1. Cardinality(CallsOf(st, o)) > 0
        BY CallsHeld
      <3> QED
        BY <1>5, <2>1, <3>1
    <2> QED
      BY <2>1, <2>2, <2>3
  <1>9. refs[o] - 1 = a + b
    BY <1>6, <1>7
  <1> QED
    BY <1>1, <1>3, <1>4, <1>5, <1>8, <1>9

(* A call that waits has its object in a slot of its own, or is counted.   *)
LEMMA DropSpares ==
  ASSUME Disciplined, IInv, NEW st \in Seq(Calls), NEW f \in Calls, Split(st, f),
         f.op = "release", f.step = "drop", Drop, refs[f.object] - 1 < 1,
         NEW i \in DOMAIN st
  PROVE  st[i].object # f.object
  <1>1. PICK c \in Calls : c = st[i]
    BY Waiting
  <1>2. /\ CallOK(c) /\ Inside(f, c) /\ c.step \in {"construct", "handle", "finish"}
        /\ c.step = "handle" <=> c.op = "release"
    BY <1>1, Waiting
  <1>3. /\ \A s \in Slots : slot'[s] # f.object
        /\ ~ Holds(c, f.object)
    BY <1>1, DropDeletes
  <1> SUFFICES ASSUME c.object = f.object PROVE FALSE
    BY <1>1
  <1>4. c.step # "construct"
    BY <1>2 DEF Inside
  <1>5. c.via \in Slots
    <2>1. CASE c.step = "finish"
      <3>1. c.op \in {"create", "release"} /\ c.op # "release"
        BY <1>1, <1>2, <2>1, Waiting
      <3> QED
        BY <1>2, <3>1 DEF CallOK, StepOf
    <2>2. CASE c.step = "handle"
      <3>1. c.via # Local
        BY <1>2, <1>3, <2>2 DEF Holds
      <3> QED
        BY <3>1, CallTypes
    <2> QED
      BY <1>2, <1>4, <2>1, <2>2
  <1>6. slot[c.via] = c.object
    BY <1>2, <1>4, <1>5 DEF CallOK, PointerOf
  <1>7. slot'[c.via] = slot[c.via]
    <2>1. f.via \in Slots => f.via # c.via
      BY <1>2 DEF Inside
    <2>2. slot' = IF f.via \in Slots THEN [slot EXCEPT ![f.via] = NULL] ELSE slot
      BY DropEffect
    <2>3. slot \in [Slots -> Objects \cup {NULL}]
      BY DEF IInv, TypeInv
    <2> QED
      BY <1>5, <2>1, <2>2, <2>3
  <1> QED
    BY <1>3, <1>5, <1>6, <1>7

LEMMA DropKeeps ==
  ASSUME Disciplined, IInv, Drop
  PROVE  IInv'
  <1>0. TypeInv /\ HeapInv /\ CountInv
    BY DEF IInv
  <1>1. PICK st \in Seq(Calls), f \in Calls :
          Split(st, f) /\ f.op = "release" /\ f.step = "drop"
    <2>1. At("release", "drop")
      BY DEF Drop, Let
    <2> QED
      BY <2>1, AtTop
  <1>2. PICK o : o = f.object
    OBVIOUS
  <1>3. PICK go \in BOOLEAN : go <=> refs[o] - 1 < 1
    OBVIOUS
  <1>4. /\ o \in Objects /\ heap[o] = "live" /\ ~ Listed(o)
        /\ stack' = st /\ UNCHANGED <<valid, observers, held>>
        /\ refs' = [refs EXCEPT ![o] = @ - 1]
        /\ heap' = IF go THEN [heap EXCEPT ![o] = "deleted"] ELSE heap
        /\ slot' = IF f.via \in Slots THEN [slot EXCEPT ![f.via] = NULL] ELSE slot
    BY <1>1, <1>2, <1>3, DropEffect
  <1>5. /\ refs[o] \in Nat \ {0}
        /\ refs[o] - 1 = Cardinality(SlotsOf(slot', o)) + Cardinality(CallsOf(st, o))
    BY <1>1, <1>2, DropDeletes
  <1>6. go => refs[o] = 1 /\ \A s \in Slots : slot'[s] # o
    BY <1>1, <1>2, <1>3, DropDeletes
  <1>7. go => \A i \in DOMAIN st : st[i].object # o
    BY <1>1, <1>2, <1>3, DropSpares
  <1>8. /\ \A p \in Objects : heap'[p] = IF go /\ p = o THEN "deleted" ELSE heap[p]
        /\ \A p \in Objects : refs'[p] = IF p = o THEN refs[p] - 1 ELSE refs[p]
        /\ \A s \in Slots : slot'[s] = IF s = f.via THEN NULL ELSE slot[s]
    BY <1>0, <1>4 DEF TypeInv
  <1>9. TypeInv'
    <2>1. heap' \in [Objects -> {"free", "live", "deleted"}]
      BY <1>0, <1>4 DEF TypeInv
    <2>2. refs' \in [Objects -> Nat]
      BY <1>0, <1>4, <1>5 DEF TypeInv
    <2>3. slot' \in [Slots -> Objects \cup {NULL}]
      BY <1>0, <1>4 DEF TypeInv
    <2> QED
      BY <1>0, <1>4, <2>1, <2>2, <2>3 DEF TypeInv
  <1>10. HeapInv'
    <2>1. \A s \in Slots : slot'[s] # NULL => heap'[slot'[s]] = "live"
      <3> SUFFICES ASSUME NEW s \in Slots, slot'[s] # NULL PROVE heap'[slot'[s]] = "live"
        OBVIOUS
      <3>1. slot'[s] = slot[s]
        BY <1>8
      <3>2. slot[s] \in Objects /\ heap[slot[s]] = "live"
        BY <1>0, <3>1 DEF HeapInv, TypeInv
      <3>3. ~ (go /\ slot[s] = o)
        BY <1>6, <3>1
      <3> QED
        BY <1>8, <3>1, <3>2, <3>3
    <2>2. ASSUME NEW p \in Objects, heap'[p] = "live", NEW w \in Elements(observers[p])
          PROVE  heap'[w] = "live"
      <3>1. heap[p] = "live"
        BY <1>8, <2>2
      <3>2. heap[w] = "live" /\ w # o
        BY <1>0, <1>4, <2>2, <3>1 DEF HeapInv, Listed
      <3>3. w \in Objects
        BY <1>0, <2>2, LenProperties, ElementOfSeq DEF TypeInv, Elements
      <3> QED
        BY <1>8, <3>2, <3>3
    <2>3. \A p \in Objects : heap'[p] = "free" => observers[p] = <<>>
      BY <1>0, <1>8 DEF HeapInv
    <2> QED
      BY <1>4, <2>1, <2>2, <2>3 DEF HeapInv
  <1>11. StackInv'
    <2>1. \A w : Listed(w)' => Listed(w)
      BY <1>4, <1>8 DEF Listed
    <2>2. \A i \in DOMAIN st : CallOK(st[i])'
      <3> TAKE i \in DOMAIN st
      <3>1. PICK c \in Calls : c = st[i]
        BY StackPicked
      <3>2. /\ CallOK(c) /\ Inside(f, c) /\ c.object \in Objects /\ c.object # NULL
            /\ ~ (go /\ c.object = o)
        BY <1>1, <1>7, <3>1, Waiting, CallTypes
      <3>3. heap'[c.object] = "live"
        BY <1>8, <3>2 DEF CallOK, PointerOf
      <3>4. c.step = "construct" => \A x \in Slots : slot'[x] # c.object
        BY <1>8, <3>2 DEF CallOK, PointerOf
      <3>5. c.via \in Slots => slot'[c.via] = slot[c.via]
        BY <1>8, <3>2 DEF Inside
      <3>6. CallOK(c)'
        BY <1>0, <1>4, <2>1, <3>2, <3>3, <3>4, <3>5, CallKept
      <3> QED
        BY <3>1, <3>6
    <2>3. StackOK(st)'
      BY <1>1, <1>4, <2>2, StackSame DEF Split
    <2>4. ASSUME st # <<>>, st[1].step = "finish"
          PROVE  heap'[st[1].before] = "deleted" \/ \E s \in Slots : slot'[s] = st[1].before
      <3>1. f.via = Local /\ st[1].before = o
        BY <1>1, <1>2, <2>4 DEF Split, Directly
      <3>2. CASE go
        BY <1>4, <1>8, <3>1, <3>2
      <3>3. CASE ~ go
        <4>1. \A i \in DOMAIN st : ~ Holds(st[i], o)
          <5> SUFFICES ASSUME NEW i \in DOMAIN st, Holds(st[i], o) PROVE FALSE
            OBVIOUS
          <5>1. PICK c : c = st[i]
            OBVIOUS
          <5>2. /\ CallOK(c) /\ Inside(f, c)
                /\ c.step = "handle" <=> c.op = "release"
            BY <1>1, <5>1, Waiting
          <5>3. c.object = o /\ (c.step = "construct" \/ c.op = "release")
            BY <5>1 DEF Holds
          <5>4. c.step # "construct"
            BY <1>1, <1>2, <5>2, <5>3 DEF Inside
          <5>5. held[o]
            BY <5>2, <5>3, <5>4 DEF CallOK, ToldIn
          <5>6. ~ held[o]
            BY <1>1, <1>2 DEF Split, CallOK, ToldIn
          <5> QED
            BY <5>5, <5>6
        <4>2. Cardinality(CallsOf(st, o)) = 0
          BY <4>1, CallsHeld
        <4>3. PICK new : new = slot'
          OBVIOUS
        <4>4. Cardinality(SlotsOf(new, o)) > 0
          <5>1. Cardinality(SlotsOf(new, o)) \in Nat
            BY SlotsCounted
          <5>2. refs[o] - 1 = Cardinality(SlotsOf(new, o)) + Cardinality(CallsOf(st, o))
            BY <1>5, <4>3
          <5> QED
            BY <1>3, <1>5, <3>3, <4>2, <5>1, <5>2
        <4>5. \E s \in Slots : new[s] = o
          BY <4>4, SlotsCounted
        <4> QED
          BY <3>1, <4>3, <4>5
      <3> QED
        BY <3>2, <3>3
    <2> QED
      BY <1>1, <1>4, <2>3, <2>4, StackReturned
  <1>12. CountInv'
    <2>1. ASSUME NEW p \in Objects
          PROVE  /\ heap'[p] = "live" =>
                      /\ refs'[p] > 0
                      /\ refs'[p] = Cardinality(SlotsOf(slot', p)) + Cardinality(CallsOf(stack', p))
                 /\ heap'[p] # "live" => refs'[p] \in {0, 1}
      <3>1. CASE p = o
        <4>1. refs'[p] = refs[o] - 1
          BY <1>4, <1>8, <3>1
        <4>2. heap'[p] = IF go THEN "deleted" ELSE "live"
          BY <1>4, <1>8, <3>1
        <4>3. ~ go => refs'[p] > 0
          BY <1>3, <1>5, <4>1
        <4>4. go => refs'[p] = 0
          BY <1>6, <4>1
        <4> QED
          BY <1>4, <1>5, <3>1, <4>1, <4>2, <4>3, <4>4
      <3>2. CASE p # o
        <4>1. heap'[p] = heap[p] /\ refs'[p] = refs[p]
          BY <1>8, <3>2
        <4>2. Cardinality(SlotsOf(slot, p)) + Cardinality(CallsOf(stack, p))
                = Cardinality(SlotsOf(slot', p)) + Cardinality(CallsOf(stack', p))
          <5>1. PICK new : new = slot'
            OBVIOUS
          <5>2. Cardinality(SlotsOf(slot, p)) + Cardinality(CallsOf(stack, p))
                  = Cardinality(SlotsOf(new, p)) + Cardinality(CallsOf(st, p)) + 0
            BY <1>1, <1>2, <3>2, <5>1, DropCounts
          <5>3. Cardinality(SlotsOf(new, p)) \in Nat /\ Cardinality(CallsOf(st, p)) \in Nat
            BY SlotsCounted, CallsCounted
          <5> QED
            BY <1>4, <5>1, <5>2, <5>3
        <4> QED
          BY <1>0, <4>1, <4>2 DEF CountInv
      <3> QED
        BY <3>1, <3>2
    <2> QED
      BY <2>1 DEF CountInv
  <1>13. DepthInv'
    BY <1>1, <1>4, DepthReturned
  <1> QED
    BY <1>9, <1>10, <1>11, <1>12, <1>13 DEF IInv

-----------------------------------------------------------------------------
LEMMA InitHolds ==
  ASSUME Init
  PROVE  IInv
  <1>1. TypeInv
    BY DEF Init, TypeInv
  <1>2. HeapInv
    BY DEF Init, HeapInv
  <1>3. StackInv
    BY DEF Init, StackInv, StackOK
  <1>4. CountInv
    BY DEF Init, CountInv
  <1>5. DepthInv
    BY DEF Init, DepthInv, FreeingAssumption
  <1> QED
    BY <1>1, <1>2, <1>3, <1>4, <1>5 DEF IInv

LEMMA NextKeeps ==
  ASSUME Disciplined, IInv, [Next]_vars
  PROVE  IInv'
  <1>1. CASE Begin
    <2>1. ASSUME NEW s \in Slots, CallCreate(s) PROVE IInv'
      BY <2>1, CallCreateKeeps
    <2>2. ASSUME NEW s \in Slots, CallRelease(s) PROVE IInv'
      BY <2>2, CallReleaseKeeps
    <2>3. ASSUME NEW s \in Slots, NEW r \in Slots, CallReference(s, r) PROVE IInv'
      BY <2>3, CallReferenceKeeps
    <2>4. ASSUME NEW o \in Objects, NEW w \in Objects, NEW op \in {"register", "unregister"},
                 CallEdit(op, o, w)
          PROVE  IInv'
      BY <2>4, CallEditKeeps
    <2> QED
      BY <1>1, <2>1, <2>2, <2>3, <2>4 DEF Begin
  <1>2. CASE Step
    BY <1>2, ConstructFailsKeeps, ConstructKeeps, FinishKeeps, LockKeeps, TellKeeps, HandledKeeps,
       UnlockKeeps, DropKeeps, RegisterKeeps, UnregisterKeeps DEF Step
  <1>3. CASE UNCHANGED vars
    <2>1. UNCHANGED <<heap, valid, refs, observers, held, slot, stack>>
      BY <1>3 DEF vars
    <2>2. TypeInv' /\ HeapInv' /\ CountInv' /\ DepthInv'
      BY <2>1 DEF IInv, TypeInv, HeapInv, CountInv, DepthInv
    <2>3. StackInv'
      <3>1. PICK st : st = stack
        OBVIOUS
      <3>2. \A f : CallOK(f) => CallOK(f)'
        BY <2>1 DEF CallOK, StepOf, PointerOf, UnlistedIn, ToldIn, Listed
      <3>3. \A f, g : Inside(f, g) => Inside(f, g)'
        BY <2>1 DEF Inside
      <3>4. \A f : TopOK(f) => TopOK(f)'
        BY <2>1 DEF TopOK, Constructing, Frames
      <3>5. StackOK(st)' /\ (st # <<>> => TopOK(st[1])')
        BY <3>1, <3>2, <3>3, <3>4 DEF IInv, StackInv, StackOK
      <3>6. stack' = st
        BY <2>1, <3>1
      <3> QED
        BY <3>5, <3>6 DEF StackInv
    <2> QED
      BY <2>2, <2>3 DEF IInv
  <1> QED
    BY <1>1, <1>2, <1>3 DEF Next

LEMMA Invariance == ASSUME Disciplined PROVE Spec => []IInv
  <1>1. Init => IInv
    BY InitHolds
  <1>2. IInv /\ [Next]_vars => IInv'
    BY NextKeeps
  <1> QED
    BY <1>1, <1>2, PTL DEF Spec

-----------------------------------------------------------------------------
(* Counts stay below the number of slots and of calls.                     *)
LEMMA CountsAreBounded ==
  ASSUME IInv, NEW o \in Objects
  PROVE  refs[o] \in 0..Cardinality(Slots) + MaxDepth
  <1>1. refs[o] \in Nat /\ stack \in Seq(Calls)
    BY DEF IInv, TypeInv
  <1>2. Cardinality(Slots) \in Nat /\ MaxDepth \in Nat \ {0}
    BY FS_CardinalityType DEF FreeingAssumption
  <1>3. CASE heap[o] # "live"
    <2>1. refs[o] \in {0, 1}
      BY <1>3 DEF IInv, CountInv
    <2> QED
      BY <1>2, <2>1
  <1>4. CASE heap[o] = "live"
    <2>1. PICK S : S = SlotsOf(slot, o)
      OBVIOUS
    <2>2. PICK C : C = CallsOf(stack, o)
      OBVIOUS
    <2>3. refs[o] = Cardinality(S) + Cardinality(C)
      BY <1>4, <2>1, <2>2 DEF IInv, CountInv
    <2>4. Cardinality(S) \in Nat /\ Cardinality(C) \in Nat
      BY <1>1, <2>1, <2>2, SlotsCounted, CallsCounted
    <2>5. Cardinality(S) <= Cardinality(Slots)
      <3>1. S \in SUBSET Slots
        BY <2>1 DEF SlotsOf
      <3> QED
        BY <3>1, FS_Subset DEF FreeingAssumption
    <2>6. Cardinality(C) <= MaxDepth
      <3>1. Len(stack) \in Nat /\ DOMAIN stack = 1..Len(stack)
        BY <1>1, LenProperties
      <3>2. PICK B : B = IF Len(stack) <= MaxDepth THEN 1..MaxDepth ELSE (1..MaxDepth + 1) \ {2}
        OBVIOUS
      <3>3. IsFiniteSet(B) /\ Cardinality(B) = MaxDepth
        <4>1. CASE Len(stack) <= MaxDepth
          BY <1>2, <3>2, <4>1, FS_Interval
        <4>2. CASE ~ Len(stack) <= MaxDepth
          <5>1. PICK D : D = 1..MaxDepth + 1
            OBVIOUS
          <5>2. IsFiniteSet(D) /\ Cardinality(D) = MaxDepth + 1 /\ 2 \in D
            BY <1>2, <5>1, FS_Interval
          <5>3. IsFiniteSet(D \ {2}) /\ Cardinality(D \ {2}) = Cardinality(D) - 1
            BY <5>2, FS_RemoveElement
          <5> QED
            BY <1>2, <3>2, <4>2, <5>1, <5>2, <5>3
        <4> QED
          BY <4>1, <4>2
      <3>4. C \in SUBSET B
        <4>1. CASE Len(stack) <= MaxDepth
          BY <1>2, <2>2, <3>1, <3>2, <4>1 DEF CallsOf
        <4>2. CASE ~ Len(stack) <= MaxDepth
          <5>1. Len(stack) = MaxDepth + 1 /\ stack[2].step = "finish"
            BY <4>2 DEF IInv, DepthInv
          <5>2. 2 \in DOMAIN stack
            BY <1>2, <3>1, <5>1
          <5>3. CallOK(stack[2]) /\ stack[2] \in Calls
            BY <1>1, <5>2, StackPicked DEF IInv, StackInv, StackOK
          <5>4. stack[2].op # "release"
            BY <5>1, <5>3 DEF CallOK, StepOf
          <5>5. 2 \notin C
            BY <2>2, <5>1, <5>4 DEF CallsOf, Holds
          <5> QED
            BY <2>2, <3>1, <3>2, <4>2, <5>1, <5>5 DEF CallsOf
        <4> QED
          BY <4>1, <4>2
      <3> QED
        BY <3>3, <3>4, FS_Subset
    <2> QED
      BY <1>2, <2>3, <2>4, <2>5, <2>6
  <1> QED
    BY <1>3, <1>4

(* TTEnvironment.cpp:176-182, 202-223.  Whatever constructors and handlers *)
(* call, a call that goes on finds its object, what its pointer holds and  *)
(* the observers that it has not told yet; and no slot dangles.            *)
THEOREM NoUseOfFreedHolds == Disciplined => (Spec => []NoUseOfFreed)
  <1> SUFFICES ASSUME Disciplined PROVE Spec => []NoUseOfFreed
    OBVIOUS
  <1>1. ASSUME IInv PROVE NoUseOfFreed
    <2>1. ASSUME NEW f \in Frames, NEW o \in Touches(f) PROVE o # NULL /\ heap[o] = "live"
      <3>1. PICK i \in DOMAIN stack : f = stack[i]
        BY DEF Frames
      <3>2. f \in Calls /\ CallOK(f)
        BY <1>1, <3>1, StackPicked DEF IInv, TypeInv, StackInv, StackOK
      <3>3. /\ f.object \in Objects /\ f.via \in Slots \cup {Local}
            /\ f.op \in {"create", "release", "register", "unregister"}
        BY <3>2, CallTypes
      <3>4. heap[f.object] = "live" /\ f.object # NULL
        BY <3>2, <3>3 DEF CallOK, PointerOf, FreeingAssumption
      <3>5. CASE o = f.object
        BY <3>4, <3>5
      <3>6. CASE f.op \in {"create", "release"} /\ f.via # Local /\ f.step # "construct"
                 /\ o = slot[f.via]
        <4>1. f.via \in Slots /\ (f.op = "create" => f.step = "finish")
          BY <3>2, <3>3, <3>6 DEF CallOK, StepOf
        <4>2. slot[f.via] = f.object
          BY <3>2, <3>6, <4>1 DEF CallOK, PointerOf
        <4> QED
          BY <3>4, <3>6, <4>2
      <3>7. CASE /\ f.step \in {"tell", "handle"}
                 /\ \E k \in f.at..Len(observers[f.object]) : o = observers[f.object][k]
        <4>1. PICK k \in f.at..Len(observers[f.object]) : o = observers[f.object][k]
          BY <3>7
        <4>2. observers[f.object] \in Seq(Objects)
          BY <1>1, <3>3 DEF IInv, TypeInv
        <4>3. f.at \in Nat /\ f.at > 0
          BY <3>2, CallTypes DEF CallOK, StepOf
        <4>4. k \in DOMAIN observers[f.object]
          BY <4>2, <4>3, LenProperties
        <4>5. o \in Objects /\ o \in Elements(observers[f.object])
          BY <4>1, <4>2, <4>4, LenProperties, ElementOfSeq DEF Elements
        <4> QED
          BY <1>1, <3>3, <3>4, <4>5 DEF IInv, HeapInv, FreeingAssumption
      <3> QED
        BY <2>1, <3>5, <3>6, <3>7 DEF Touches
    <2>2. \A s \in Slots : slot[s] # NULL => heap[slot[s]] = "live"
      BY <1>1 DEF IInv, HeapInv
    <2> QED
      BY <2>1, <2>2 DEF NoUseOfFreed
  <1> QED
    BY <1>1, Invariance, PTL

(* TTEnvironment.cpp:177, 217-221.  The count of a living object is the    *)
(* number of slots and calls that have it, and it is not zero: nothing     *)
(* leaks, also where createInstance replaces what a pointer held.          *)
THEOREM NothingLeaksHolds == Disciplined => (Spec => []NothingLeaks)
  <1> SUFFICES ASSUME Disciplined PROVE Spec => []NothingLeaks
    OBVIOUS
  <1>1. ASSUME IInv PROVE NothingLeaks
    <2>1. TypeOK
      <3>1. TypeInv
        BY <1>1 DEF IInv
      <3>2. \A o \in Objects : refs[o] \in 0..Cardinality(Slots) + MaxDepth
        BY <1>1, CountsAreBounded
      <3>3. refs \in [Objects -> 0..Cardinality(Slots) + MaxDepth]
        BY <3>1, <3>2 DEF TypeInv
      <3> QED
        BY <3>1, <3>3 DEF TypeInv, TypeOK
    <2>2. \A o \in Objects : heap[o] = "live" =>
            /\ refs[o] > 0
            /\ refs[o] = Cardinality({s \in Slots : slot[s] = o})
                         + Cardinality({i \in DOMAIN stack : Holds(stack[i], o)})
      BY <1>1 DEF IInv, CountInv, SlotsOf, CallsOf
    <2> QED
      BY <2>1, <2>2 DEF NothingLeaks, Holds
  <1> QED
    BY <1>1, Invariance, PTL

-----------------------------------------------------------------------------
(* createInstance returns in two places.                                   *)
LEMMA CreateReturns ==
  ASSUME IInv, Next, stack # <<>>, Top.op = "create", stack' = Tail(stack)
  PROVE  ConstructFails \/ Finish
  <1>1. PICK st \in Seq(Calls), f \in Calls : Split(st, f)
    BY Opened
  <1>2. stack = Pushed(st, f) /\ Top = f /\ stack' = st /\ Tail(stack) = st /\ stack \in Seq(Calls)
    BY <1>1 DEF Split, IInv, TypeInv
  <1>3. Len(st) \in Nat /\ Len(stack) = Len(st) + 1
    BY <1>2, PushCall
  <1>4. ASSUME NEW g \in Calls PROVE stack' # Pushed(stack, g) /\ stack' # Pushed(st, g)
    <2>1. Len(Pushed(stack, g)) = Len(stack) + 1 /\ Len(Pushed(st, g)) = Len(st) + 1
      BY <1>2, PushCall
    <2> QED
      BY <1>2, <1>3, <2>1
  <1>5. ASSUME Begin PROVE FALSE
    <2>1. \A s \in Slots : slot[s] \in Objects \cup {NULL}
      BY DEF IInv, TypeInv
    <2>2. ASSUME NEW s \in Slots, CallCreate(s) PROVE FALSE
      <3>1. PICK o \in Objects : stack' = Pushed(stack, Call("create", s, o, slot[s], "construct"))
        BY <2>2 DEF CallCreate, Pushed
      <3>2. Call("create", s, o, slot[s], "construct") \in Calls
        BY <2>1, CallIsCall
      <3> QED
        BY <1>4, <3>1, <3>2
    <2>3. ASSUME NEW s \in Slots, CallRelease(s) PROVE FALSE
      <3>1. slot[s] # NULL /\ stack' = Pushed(stack, Call("release", s, slot[s], NULL, "lock"))
        BY <2>3 DEF CallRelease, BeginRelease, Pushed
      <3>2. Call("release", s, slot[s], NULL, "lock") \in Calls
        BY <2>1, <3>1, CallIsCall
      <3> QED
        BY <1>4, <3>1, <3>2
    <2>4. ASSUME NEW s \in Slots, NEW r \in Slots, CallReference(s, r) PROVE FALSE
      <3>1. stack' = stack
        BY <2>4 DEF CallReference
      <3>2. Len(stack) = Len(st)
        <4>1. stack = st
          BY <1>2, <3>1
        <4> QED
          BY <4>1
      <3> QED
        BY <1>3, <3>2
    <2>5. ASSUME NEW o \in Objects, NEW w \in Objects, NEW op \in {"register", "unregister"},
                 CallEdit(op, o, w)
          PROVE  FALSE
      <3>1. stack' = Pushed(stack, Call(op, Local, o, w, "edit"))
        BY <2>5 DEF CallEdit, Pushed
      <3>2. Call(op, Local, o, w, "edit") \in Calls
        BY CallIsCall
      <3> QED
        BY <1>4, <3>1, <3>2
    <2> QED
      BY <1>5, <2>2, <2>3, <2>4, <2>5 DEF Begin
  <1>6. ASSUME Construct PROVE FALSE
    <2> DEFINE g == [f EXCEPT !.step = "finish"]
    <2>1. g \in Calls
      <3>1. PICK h \in Calls : h = [f EXCEPT !.step = "finish"]
        BY StepTo
      <3> QED
        BY <3>1
    <2>2. slot[f.via] = NULL => stack' = Pushed(st, g)
      BY <1>2, <1>6 DEF Construct, Pushed
    <2>3. slot[f.via] # NULL =>
            stack' = Pushed(Pushed(st, g), Call("release", Local, slot[f.via], NULL, "lock"))
      BY <1>2, <1>6 DEF Construct, BeginRelease, Pushed
    <2> HIDE DEF g
    <2>4. CASE slot[f.via] = NULL
      BY <1>4, <2>1, <2>2, <2>4
    <2>5. CASE slot[f.via] # NULL
      <3>1. f.via \in Slots
        <4>1. f.op = "create" /\ CallOK(f)
          BY <1>1, <1>2 DEF Split
        <4> QED
          BY <4>1 DEF CallOK, StepOf
      <3>2. slot[f.via] \in Objects
        BY <2>5, <3>1 DEF IInv, TypeInv
      <3>3. Call("release", Local, slot[f.via], NULL, "lock") \in Calls
        BY <3>2, CallIsCall
      <3>4. PICK u \in Seq(Calls) : u = Pushed(st, g) /\ Len(u) = Len(st) + 1
        BY <2>1, PushCall
      <3>5. PICK r \in Calls : stack' = Pushed(u, r)
        BY <2>3, <2>5, <3>3, <3>4
      <3>6. Len(stack') = Len(u) + 1
        BY <3>5, PushCall
      <3> QED
        BY <1>2, <1>3, <3>4, <3>6
    <2> QED
      BY <2>4, <2>5
  <1>7. ASSUME Lock \/ Tell \/ Handled \/ Unlock \/ Drop \/ Register \/ Unregister PROVE FALSE
    BY <1>7 DEF Lock, Tell, Handled, Unlock, Drop, Let, Register, Unregister, At
  <1> QED
    BY <1>5, <1>6, <1>7 DEF Next, Step

(* TTEnvironment.cpp:173-182.  createInstance that returns with success    *)
(* has put a new and valid object into the caller's pointer, and the one   *)
(* before is gone unless another pointer has it: also when the constructor *)
(* and the observers of the old object create, release and register        *)
(* themselves.                                                             *)
THEOREM ReplacesOldHolds == Disciplined => (Spec => ReplacesOld)
  <1> DEFINE Replaced ==
        At("create", "finish") /\ stack' = Tail(stack) =>
          /\ slot'[Top.via] = Top.object
          /\ heap'[Top.object] = "live" /\ valid'[Top.object]
          /\ Top.before = NULL \/ heap'[Top.before] = "deleted"
               \/ \E s \in Slots : slot'[s] = Top.before
  <1> SUFFICES ASSUME Disciplined PROVE Spec => [][Replaced]_vars
    BY DEF ReplacesOld
  <1>1. IInv /\ [Next]_vars => [Replaced]_vars
    <2> SUFFICES ASSUME IInv, Next, At("create", "finish"), stack' = Tail(stack)
                 PROVE  /\ slot'[Top.via] = Top.object
                        /\ heap'[Top.object] = "live" /\ valid'[Top.object]
                        /\ Top.before = NULL \/ heap'[Top.before] = "deleted"
                             \/ \E s \in Slots : slot'[s] = Top.before
      OBVIOUS
    <2>1. stack # <<>> /\ Top.op = "create" /\ Top.step = "finish"
      BY DEF At
    <2>2. PICK st \in Seq(Calls), f \in Calls : Split(st, f)
      BY <2>1, Opened
    <2>3. Top = f /\ f.op = "create" /\ f.step = "finish" /\ CallOK(f) /\ TopOK(f)
      BY <2>1, <2>2 DEF Split
    <2>4. Finish
      BY <2>1, CreateReturns DEF ConstructFails, At
    <2>5. f.object \in Objects /\ heap[f.object] = "live"
      BY <2>3, CallTypes DEF CallOK, PointerOf
    <2>6. /\ UNCHANGED <<heap, slot>>
          /\ valid' = [valid EXCEPT ![slot[f.via]] = TRUE]
      BY <2>3, <2>4 DEF Finish
    <2>7. slot[f.via] = f.object
      BY <2>3 DEF CallOK, PointerOf
    <2>8. valid'[f.object]
      BY <2>5, <2>6, <2>7 DEF IInv, TypeInv
    <2>9. \/ f.before = NULL \/ heap[f.before] = "deleted"
          \/ \E s \in Slots : slot[s] = f.before
      BY <2>3 DEF TopOK
    <2> QED
      BY <2>3, <2>5, <2>6, <2>7, <2>8, <2>9
  <1> HIDE DEF Replaced
  <1> QED
    BY <1>1, Invariance, PTL DEF Spec

(* TTEnvironment.cpp:209-219.  A release that deletes an object told every *)
(* observer of it that is valid, itself and while the object was there:    *)
(* also when handlers registered, unregistered or released others.         *)
THEOREM ToldBeforeFreedHolds == Disciplined => (Spec => ToldBeforeFreed)
  <1> DEFINE Told ==
        \A o \in Objects :
          heap[o] = "live" /\ heap'[o] = "deleted" /\ Top.op = "release" =>
            /\ Top.object = o
            /\ \A i \in DOMAIN observers[o] :
                 valid[observers[o][i]] => observers[o][i] \in Top.told
  <1> SUFFICES ASSUME Disciplined PROVE Spec => [][Told]_vars
    BY DEF ToldBeforeFreed
  <1>1. IInv /\ [Next]_vars => [Told]_vars
    <2> SUFFICES ASSUME IInv, Next PROVE Told
      OBVIOUS
    <2> SUFFICES ASSUME NEW o \in Objects,
                        heap[o] = "live", heap'[o] = "deleted", Top.op = "release"
                 PROVE  /\ Top.object = o
                        /\ \A i \in DOMAIN observers[o] :
                             valid[observers[o][i]] => observers[o][i] \in Top.told
      OBVIOUS
    <2>1. CASE Drop
      <3>1. PICK st \in Seq(Calls), f \in Calls :
              Split(st, f) /\ f.op = "release" /\ f.step = "drop"
        <4>1. At("release", "drop")
          BY <2>1 DEF Drop, Let
        <4> QED
          BY <4>1, AtTop
      <3>2. Top = f /\ CallOK(f)
        BY <3>1 DEF Split
      <3>3. f.object = o
        <4>1. heap' = IF refs[f.object] - 1 < 1
                      THEN [heap EXCEPT ![f.object] = "deleted"] ELSE heap
          BY <2>1, <3>1, DropEffect
        <4> QED
          BY <4>1 DEF IInv, TypeInv
      <3> QED
        BY <3>1, <3>2, <3>3 DEF CallOK, ToldIn
    <2>2. CASE ConstructFails
      BY <2>2 DEF ConstructFails, At
    <2>3. ASSUME NEW s \in Slots, CallCreate(s) PROVE heap'[o] # "deleted"
      BY <2>3 DEF CallCreate, IInv, TypeInv
    <2>4. ASSUME Next, ~ Drop, ~ ConstructFails, \A s \in Slots : ~ CallCreate(s)
          PROVE  UNCHANGED heap
      BY <2>4 DEF Next, Begin, Step, CallRelease, CallReference, CallEdit, Construct, Finish, Lock,
                  Tell, Handled, Unlock, Register, Unregister, objectVars
    <2> QED
      BY <2>1, <2>2, <2>3, <2>4
  <1> HIDE DEF Told
  <1> QED
    BY <1>1, Invariance, PTL DEF Spec

=============================================================================

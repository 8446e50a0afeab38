------------------------ MODULE NodeDirectoryProofs ------------------------
(***************************************************************************)
(* For any addresses, any number of nodes and any nesting of the calls of  *)
(* observers: when callers keep to their rules, the directory follows the  *)
(* tree of nodes, no node is lost, freed early or announced twice, and the *)
(* directory implements the tree of addresses that it promises.            *)
(*                                                                         *)
(* The order of the proof: addresses and how they compare; the tree of     *)
(* nodes and what each change makes of it; the calls in progress; the      *)
(* inductive invariant, IInv, and every action; what IInv says; and, for   *)
(* the refinement, which addresses a removal in progress hides.            *)
(***************************************************************************)
EXTENDS NodeDirectory, SequenceTheorems, FiniteSetTheorems, WellFoundedInduction, TLAPS

-----------------------------------------------------------------------------
(* Addresses as paths: what the last slash splits, and what joins again.   *)

LEMMA Least ==
  ASSUME NEW S \in SUBSET Nat, S # {}
  PROVE  \E n \in S : \A m \in S : n <= m
  <1> DEFINE R == OpToRel(<, Nat)
  <1>1. \A m, n \in Nat : m < n => <<m, n>> \in R BY DEF OpToRel
  <1>2. IsWellFoundedOn(R, Nat) BY NatLessThanWellFounded, Zenon
  <1> HIDE DEF R
  <1>3. PICK n \in S : \A m \in S : ~ (<<m, n>> \in R) BY <1>2, WFMin
  <1>4. \A m \in S : ~ (m < n) BY <1>1, <1>3
  <1> QED BY <1>4

LEMMA Greatest ==
  ASSUME NEW N \in Nat, NEW S \in SUBSET (0..N), S # {}
  PROVE  \E n \in S : \A m \in S : n >= m
  <1> DEFINE T == {k \in 0..N : N - k \in S}
  <1>1. T \in SUBSET Nat /\ T # {}
    <2>1. PICK n \in S : TRUE OBVIOUS
    <2>2. N - n \in 0..N /\ N - (N - n) = n BY <2>1
    <2> QED BY <2>2
  <1>2. PICK k \in T : \A j \in T : k <= j BY <1>1, Least
  <1>3. \A m \in S : N - m \in T
    <2> TAKE m \in S
    <2>1. N - m \in 0..N /\ N - (N - m) = m OBVIOUS
    <2> QED BY <2>1
  <1>4. \A m \in S : k <= N - m BY <1>2, <1>3
  <1>5. N - k \in S /\ \A m \in S : N - k >= m BY <1>4
  <1> QED BY <1>5

Tokens == Words \cup {"/", ".", ":", "*"}

LEMMA TokensOfAddress ==
  ASSUME NEW a \in Address
  PROVE  /\ a \in Seq(Tokens) /\ Len(a) \in Nat /\ DOMAIN a = 1..Len(a)
         /\ \A i \in 1..Len(a) : a[i] \in Tokens
  BY DEF Address, Tokens

LEMMA LastIndexIs ==
  ASSUME NEW a \in Address, NEW t
  PROVE  LET n == LastIndex(a, t)
         IN  \/ n = 0 /\ \A i \in 1..Len(a) : a[i] # t
             \/ n \in 1..Len(a) /\ a[n] = t /\ \A i \in 1..Len(a) : i > n => a[i] # t
  <1> DEFINE I == {i \in 1..Len(a) : a[i] = t}
  <1>1. LastIndex(a, t) = IF I # {} THEN CHOOSE x \in I : \A y \in I : x >= y ELSE 0
    BY DEF LastIndex, SelectLastInSeq, Max
  <1>2. Len(a) \in Nat BY DEF Address
  <1>3. CASE I = {} BY <1>1, <1>3
  <1>4. CASE I # {}
    <2>1. I \in SUBSET (0..Len(a)) BY <1>2
    <2>2. \E n \in I : \A m \in I : n >= m BY <1>2, <1>4, <2>1, Greatest
    <2> DEFINE n == CHOOSE x \in I : \A y \in I : x >= y
    <2>3. n \in I /\ \A m \in I : n >= m BY <2>2
    <2>4. LastIndex(a, t) = n BY <1>1, <1>4
    <2> HIDE DEF n
    <2>5. \A i \in 1..Len(a) : i > n => a[i] # t BY <2>3, <1>2
    <2> QED BY <2>3, <2>4, <2>5
  <1> QED BY <1>3, <1>4

LEMMA LastIndexAt ==
  ASSUME NEW a \in Address, NEW t, NEW n \in 1..Len(a),
         a[n] = t, \A i \in 1..Len(a) : i > n => a[i] # t
  PROVE  LastIndex(a, t) = n
  <1> DEFINE m == LastIndex(a, t)
  <1>1. \/ m = 0 /\ \A i \in 1..Len(a) : a[i] # t
        \/ m \in 1..Len(a) /\ a[m] = t /\ \A i \in 1..Len(a) : i > m => a[i] # t
    BY LastIndexIs
  <1>2. Len(a) \in Nat BY DEF Address
  <1> HIDE DEF m
  <1>3. m = n BY <1>1, <1>2
  <1> QED BY <1>3 DEF m

LEMMA LastIndexNone ==
  ASSUME NEW a \in Address, NEW t, \A i \in 1..Len(a) : a[i] # t
  PROVE  LastIndex(a, t) = 0
  <1> DEFINE m == LastIndex(a, t)
  <1>1. \/ m = 0 /\ \A i \in 1..Len(a) : a[i] # t
        \/ m \in 1..Len(a) /\ a[m] = t /\ \A i \in 1..Len(a) : i > m => a[i] # t
    BY LastIndexIs
  <1> HIDE DEF m
  <1>3. m = 0 BY <1>1
  <1> QED BY <1>3 DEF m
-----------------------------------------------------------------------------
Singles == {<<w>> : w \in Words}
Instances == {None} \cup Singles

Sites == {a \in Address : a = Separator \/ IsPath(a)}
Stem(p) == IF p = Separator THEN None ELSE p
Join(p, name, instance) ==
  Stem(p) \o Separator \o WriteLevel([name |-> name, instance |-> instance])
ParentOf(a) == SplitOSCAddress(a).parent

LEMMA WordsDistinct ==
  \A w \in Words : w \in Tokens /\ w # "/" /\ w # "." /\ w # ":" /\ w # "*"
  BY OscAddressAssumption DEF Tokens

LEMMA StemIs ==
  ASSUME NEW p \in Sites
  PROVE  /\ Stem(p) \in Address /\ p \in Address
         /\ p = Separator <=> Len(Stem(p)) = 0
         /\ Len(Stem(p)) \in Nat
         /\ \A i \in 1..Len(Stem(p)) : Stem(p)[i] # ":"
         /\ p # Separator => Stem(p) = p /\ IsPath(p)
  <1>1. CASE p = Separator BY <1>1 DEF Sites, Stem, Separator, Address, None
  <1>2. CASE p # Separator
    <2>1. p \in Address /\ IsPath(p) /\ Stem(p) = p BY <1>2 DEF Sites, Stem
    <2>2. Len(p) \in Nat /\ DOMAIN p = 1..Len(p) BY <2>1, TokensOfAddress
    <2>3. Len(p) # 0 BY <2>1 DEF IsPath, Address, None
    <2>4. \A i \in 1..Len(p) : p[i] # ":" BY <2>1, <2>2, WordsDistinct DEF IsPath
    <2> QED BY <1>2, <2>1, <2>2, <2>3, <2>4
  <1> QED BY <1>1, <1>2

LEMMA JoinIs ==
  ASSUME NEW p \in Sites, NEW name \in Singles, NEW instance \in Instances
  PROVE  LET a == Join(p, name, instance)
             m == Len(Stem(p))
         IN  /\ a \in Address /\ m \in Nat
             /\ Len(a) = IF instance = None THEN m + 2 ELSE m + 4
             /\ \A i \in 1..m : a[i] = Stem(p)[i]
             /\ a[m + 1] = "/" /\ a[m + 2] = name[1]
             /\ instance # None => a[m + 3] = "." /\ a[m + 4] = instance[1]
  <1> DEFINE l == [name |-> name, instance |-> instance]
             b == Stem(p)
             m == Len(b)
             a == Join(p, name, instance)
  <1>1. b \in Seq(Tokens) /\ m \in Nat BY StemIs, TokensOfAddress
  <1>2. Separator \in Seq(Tokens) /\ Len(Separator) = 1 /\ Separator[1] = "/"
    BY DEF Separator, Tokens
  <1> DEFINE c == b \o Separator
  <1>3. c \in Seq(Tokens) /\ Len(c) = m + 1
        /\ (\A i \in 1..m : c[i] = b[i]) /\ c[m + 1] = "/"
    <2> HIDE DEF b
    <2>1. /\ c \in Seq(Tokens) /\ Len(c) = Len(b) + 1
          /\ \A i \in 1..Len(b) + 1 : c[i] = IF i <= Len(b) THEN b[i] ELSE Separator[i - Len(b)]
      BY <1>1, <1>2, ConcatProperties
    <2> QED BY <1>1, <1>2, <2>1
  <1>4. name \in Seq(Tokens) /\ Len(name) = 1
    <2>1. PICK w \in Words : name = <<w>> BY DEF Singles
    <2>2. w \in Tokens BY WordsDistinct
    <2> QED BY <2>1, <2>2
  <1>5. CASE instance = None
    <2>1. WriteLevel(l) = name \o <<>> BY <1>5 DEF WriteLevel, Prefixed, None
    <2>2. WriteLevel(l) = name BY <1>4, <2>1, ConcatEmptySeq
    <2>3. a = c \o name BY <2>2 DEF Join
    <2> HIDE DEF c, a, b
    <2>4. /\ a \in Seq(Tokens) /\ Len(a) = m + 2
          /\ \A i \in 1..m + 2 : a[i] = IF i <= m + 1 THEN c[i] ELSE name[i - (m + 1)]
      <3>1. /\ a \in Seq(Tokens) /\ Len(a) = Len(c) + Len(name)
            /\ \A i \in 1..Len(c) + Len(name) : a[i] = IF i <= Len(c) THEN c[i] ELSE name[i - Len(c)]
        BY <1>3, <1>4, <2>3, ConcatProperties
      <3>2. Len(c) = m + 1 /\ Len(name) = 1 /\ m \in Nat BY <1>1, <1>3, <1>4
      <3> HIDE DEF m
      <3> QED BY <3>1, <3>2
    <2>m. m \in Nat BY <1>1
    <2>c. (\A i \in 1..m : c[i] = b[i]) /\ c[m + 1] = "/" BY <1>3
    <2> HIDE DEF m
    <2>5. \A i \in 1..m : a[i] = b[i] BY <2>c, <2>4, <2>m
    <2>5a. a[m + 1] = "/" BY <2>c, <2>4, <2>m
    <2>5b. a[m + 2] = name[1] BY <2>m, <2>4
    <2>6. a \in Address BY <2>4 DEF Address, Tokens
    <2> QED BY <2>m, <1>5, <2>4, <2>5, <2>5a, <2>5b, <2>6 DEF a, b, m
  <1>6. CASE instance # None
    <2>1. instance \in Seq(Tokens) /\ Len(instance) = 1 /\ instance # <<>>
      <3>1. PICK w \in Words : instance = <<w>> BY <1>6 DEF Instances, Singles
      <3>2. w \in Tokens BY WordsDistinct
      <3> QED BY <3>1, <3>2
    <2>2. <<".">> \in Seq(Tokens) /\ Len(<<".">>) = 1 BY DEF Tokens
    <2> DEFINE e == <<".">> \o instance
               g == name \o e
    <2>3. e \in Seq(Tokens) /\ Len(e) = 2 /\ e[1] = "." /\ e[2] = instance[1]
      BY <2>1, <2>2, ConcatProperties
    <2> HIDE DEF e
    <2>4. g \in Seq(Tokens) /\ Len(g) = 3 /\ g[1] = name[1] /\ g[2] = e[1] /\ g[3] = e[2]
      <3>1. /\ g \in Seq(Tokens) /\ Len(g) = Len(name) + Len(e)
            /\ \A i \in 1..Len(name) + Len(e) :
                  g[i] = IF i <= Len(name) THEN name[i] ELSE e[i - Len(name)]
        BY <1>4, <2>3, ConcatProperties
      <3> HIDE DEF g
      <3>2. Len(g) = 3 /\ \A i \in 1..3 : g[i] = IF i <= 1 THEN name[i] ELSE e[i - 1]
        BY <1>4, <2>3, <3>1
      <3>3. 1 \in 1..3 /\ 2 \in 1..3 /\ 3 \in 1..3 /\ 2 - 1 = 1 /\ 3 - 1 = 2
            /\ 1 <= 1 /\ ~ (2 <= 1) /\ ~ (3 <= 1)
        OBVIOUS
      <3>4. g[1] = name[1] BY <3>2, <3>3
      <3>5. g[2] = e[2 - 1] BY <3>2, <3>3
      <3>6. g[3] = e[3 - 1] BY <3>2, <3>3
      <3> QED BY <3>1, <3>2, <3>3, <3>4, <3>5, <3>6, <1>4, <2>3
    <2>5. a = c \o g BY <1>6 DEF Join, WriteLevel, Prefixed, e
    <2> HIDE DEF g, c, a, b
    <2>6. /\ a \in Seq(Tokens) /\ Len(a) = m + 4
          /\ \A i \in 1..m + 4 : a[i] = IF i <= m + 1 THEN c[i] ELSE g[i - (m + 1)]
      <3>1. /\ a \in Seq(Tokens) /\ Len(a) = Len(c) + Len(g)
            /\ \A i \in 1..Len(c) + Len(g) : a[i] = IF i <= Len(c) THEN c[i] ELSE g[i - Len(c)]
        BY <1>3, <2>4, <2>5, ConcatProperties
      <3>2. Len(c) = m + 1 /\ Len(g) = 3 /\ m \in Nat BY <1>1, <1>3, <2>4
      <3> HIDE DEF m
      <3> QED BY <3>1, <3>2
    <2>m. m \in Nat BY <1>1
    <2>c. (\A i \in 1..m : c[i] = b[i]) /\ c[m + 1] = "/" BY <1>3
    <2> HIDE DEF m
    <2>7. \A i \in 1..m : a[i] = b[i] BY <2>m, <2>c, <2>6
    <2>8. a[m + 1] = "/" BY <2>m, <2>c, <2>6
    <2>8a. a[m + 2] = g[1] /\ a[m + 3] = g[2] /\ a[m + 4] = g[3] BY <2>m, <2>6
    <2>9. a \in Address BY <2>6 DEF Address, Tokens
    <2> QED BY <2>m, <1>6, <2>3, <2>4, <2>6, <2>7, <2>8, <2>8a, <2>9 DEF a, b, m
  <1> QED BY <1>5, <1>6

(* An address that reads like this is the joined one.                      *)
LEMMA JoinUnique ==
  ASSUME NEW p \in Sites, NEW name \in Singles, NEW instance \in Instances,
         NEW a \in Address,
         Len(a) = (IF instance = None THEN Len(Stem(p)) + 2 ELSE Len(Stem(p)) + 4),
         \A i \in 1..Len(Stem(p)) : a[i] = Stem(p)[i],
         a[Len(Stem(p)) + 1] = "/", a[Len(Stem(p)) + 2] = name[1],
         instance # None => a[Len(Stem(p)) + 3] = "." /\ a[Len(Stem(p)) + 4] = instance[1]
  PROVE  a = Join(p, name, instance)
  <1> DEFINE j == Join(p, name, instance)
             m == Len(Stem(p))
  <1>1. /\ j \in Address /\ m \in Nat
        /\ Len(j) = IF instance = None THEN m + 2 ELSE m + 4
        /\ \A i \in 1..m : j[i] = Stem(p)[i]
        /\ j[m + 1] = "/" /\ j[m + 2] = name[1]
        /\ instance # None => j[m + 3] = "." /\ j[m + 4] = instance[1]
    BY JoinIs
  <1> HIDE DEF j
  <1>2. Len(a) = Len(j) BY <1>1
  <1>3. \A i \in 1..Len(a) : a[i] = j[i]
    <2> TAKE i \in 1..Len(a)
    <2>1. \/ i \in 1..m
          \/ i = m + 1
          \/ i = m + 2
          \/ instance # None /\ i \in {m + 3, m + 4}
      BY <1>1
    <2> HIDE DEF m
    <2> QED BY <1>1, <2>1 DEF m
  <1>4. a = j BY <1>1, <1>2, <1>3, SeqEqual DEF Address
  <1> QED BY <1>4 DEF j

LEMMA NoColon ==
  ASSUME NEW p \in Sites, NEW name \in Singles, NEW instance \in Instances
  PROVE  LET a == Join(p, name, instance)
         IN  /\ \A i \in 1..Len(a) : a[i] # ":"
             /\ \A i \in 1..Len(a) : i > Len(Stem(p)) + 1 => a[i] # "/"
  <1> DEFINE a == Join(p, name, instance)
             m == Len(Stem(p))
             b == Stem(p)
  <1>1. /\ a \in Address /\ m \in Nat
        /\ Len(a) = IF instance = None THEN m + 2 ELSE m + 4
        /\ \A i \in 1..m : a[i] = b[i]
        /\ a[m + 1] = "/" /\ a[m + 2] = name[1]
        /\ instance # None => a[m + 3] = "." /\ a[m + 4] = instance[1]
    BY JoinIs
  <1>2. \A i \in 1..m : b[i] # ":" BY StemIs
  <1>3. PICK w \in Words : name = <<w>> BY DEF Singles
  <1>4. name[1] \notin {":", "/"} BY <1>3, WordsDistinct
  <1>5. instance # None => instance[1] \notin {":", "/"}
    BY WordsDistinct DEF Singles, Instances
  <1>6. m \in Nat /\ (\A i \in 1..m : a[i] # ":") BY <1>1, <1>2
  <1> HIDE DEF a, m, b
  <1>7. ASSUME NEW i \in 1..Len(a) PROVE a[i] # ":" /\ (i > m + 1 => a[i] # "/")
    <2>1. \/ i \in 1..m
          \/ i = m + 1
          \/ i = m + 2
          \/ instance # None /\ i = m + 3
          \/ instance # None /\ i = m + 4
      BY <1>1
    <2>2. CASE i \in 1..m BY <1>6, <2>2
    <2>3. CASE i = m + 1 BY <1>1, <2>3
    <2>4. CASE i = m + 2 BY <1>1, <1>4, <2>4
    <2>5. CASE instance # None /\ i = m + 3 BY <1>1, <2>5
    <2>6. CASE instance # None /\ i = m + 4 BY <1>1, <1>5, <2>6
    <2> QED BY <2>1, <2>2, <2>3, <2>4, <2>5, <2>6
  <1> QED BY <1>7 DEF a, m

LEMMA JoinSplit ==
  ASSUME NEW p \in Sites, NEW name \in Singles, NEW instance \in Instances
  PROVE  SplitOSCAddress(Join(p, name, instance))
           = [parent |-> p, name |-> name, instance |-> instance, property |-> None]
  <1> DEFINE a == Join(p, name, instance)
             m == Len(Stem(p))
             b == Stem(p)
             node == After(a, m + 1)
             dot == LastIndex(node, ".")
  <1>1. /\ a \in Address /\ m \in Nat
        /\ Len(a) = IF instance = None THEN m + 2 ELSE m + 4
        /\ \A i \in 1..m : a[i] = b[i]
        /\ a[m + 1] = "/" /\ a[m + 2] = name[1]
        /\ instance # None => a[m + 3] = "." /\ a[m + 4] = instance[1]
    BY JoinIs
  <1>2. /\ \A i \in 1..Len(a) : a[i] # ":"
        /\ \A i \in 1..Len(a) : i > m + 1 => a[i] # "/"
    BY NoColon
  <1>3. LastIndex(a, ":") = 0 BY <1>1, <1>2, LastIndexNone
  <1>4. LastIndex(a, "/") = m + 1 /\ m + 1 # 0 /\ a # Separator
    BY <1>1, <1>2, LastIndexAt DEF Separator
  <1>5. (m + 1 = 1 <=> p = Separator) /\ b \in Address /\ Len(b) = m BY <1>1, StemIs
  <1>6. m + 1 # 1 => Before(a, m + 1) = p
    <2> SUFFICES ASSUME m + 1 # 1 PROVE Before(a, m + 1) = p OBVIOUS
    <2>1. b = p BY <1>5, StemIs
    <2> HIDE DEF a, b, m
    <2>0. (m + 1) - 1 = m /\ m >= 1 BY <1>1
    <2>1a. a \in Seq(Tokens) /\ b \in Seq(Tokens) BY <1>1, <1>5 DEF Address, Tokens
    <2>2. \A i \in 1..m : a[i] \in Tokens BY <1>1, <1>5, TokensOfAddress
    <2> DEFINE c == SubSeq(a, 1, m)
    <2>3. c \in Seq(Tokens) /\ Len(c) = m /\ \A i \in 1..m : c[i] = a[i]
      BY <1>1, <2>2, SubSeqProperties, <2>0 DEF c
    <2> HIDE DEF c
    <2>4. \A i \in 1..Len(c) : c[i] = b[i] BY <1>1, <2>3
    <2>5. c = b BY <2>1a, <2>3, <2>4, <1>5, SeqEqual
    <2> QED BY <2>5, <2>1, <2>0 DEF Before, c
  <1>7. /\ node \in Address
        /\ Len(node) = Len(a) - m - 1
        /\ node[1] = a[m + 2]
        /\ instance # None => node[2] = a[m + 3] /\ node[3] = a[m + 4]
    <2> HIDE DEF a, m
    <2>1. \A i \in m + 2..Len(a) : a[i] \in Tokens BY <1>1, TokensOfAddress
    <2>2. m + 2 \in Int /\ Len(a) \in Int /\ m + 2 <= Len(a) BY <1>1
    <2>3. /\ SubSeq(a, m + 2, Len(a)) \in Seq(Tokens)
          /\ Len(SubSeq(a, m + 2, Len(a))) = IF m + 2 <= Len(a) THEN Len(a) - (m + 2) + 1 ELSE 0
          /\ \A i \in 1..Len(a) - (m + 2) + 1 : SubSeq(a, m + 2, Len(a))[i] = a[m + 2 + i - 1]
      BY <2>1, <2>2, SubSeqProperties
    <2>4. node = SubSeq(a, m + 2, Len(a)) BY <1>1 DEF After
    <2> HIDE DEF node
    <2>5. node \in Address BY <2>3, <2>4 DEF Address, Tokens
    <2>6. Len(node) = Len(a) - m - 1 /\ \A i \in 1..Len(a) - m - 1 : node[i] = a[m + i + 1]
      BY <2>2, <1>1, <2>3, <2>4
    <2>7. node[1] = a[m + 2] BY <2>2, <1>1, <2>6
    <2>8. instance # None => node[2] = a[m + 3] /\ node[3] = a[m + 4]
      BY <2>2, <1>1, <2>6
    <2> QED BY <2>5, <2>6, <2>7, <2>8
  <1>8. PICK w \in Words : name = <<w>> BY DEF Singles
  <1>9. w # "." /\ node[1] = w BY <1>1, <1>7, <1>8, WordsDistinct
  <1>10. CASE instance = None
    <2> HIDE DEF a, m, node, b
    <2>1. Len(node) = 1 BY <1>1, <1>7, <1>10
    <2>2. \A i \in 1..Len(node) : node[i] # "." BY <2>1, <1>9
    <2>3. LastIndex(node, ".") = 0 BY <1>7, <2>2, LastIndexNone
    <2>4. node = name BY <2>1, <1>7, <1>8, <1>9 DEF Address
    <2>5. SplitOSCAddress(a) = [parent |-> IF m + 1 = 1 THEN Separator ELSE Before(a, m + 1),
                                name |-> node, instance |-> None, property |-> None]
      BY <1>3, <1>4, <2>3 DEF SplitOSCAddress, node
    <2> QED BY <1>5, <1>6, <1>10, <2>4, <2>5 DEF a
  <1>11. CASE instance # None
    <2>1. PICK v \in Words : instance = <<v>> BY <1>11 DEF Singles, Instances
    <2>2. v # "." /\ instance[1] = v BY <2>1, WordsDistinct
    <2> HIDE DEF a, m, node, b
    <2>3. Len(node) = 3 /\ node[1] = w /\ node[2] = "." /\ node[3] = v
      BY <1>1, <1>7, <1>9, <1>11, <2>2
    <2>4. LastIndex(node, ".") = 2 BY <2>2, <2>3, <1>7, LastIndexAt
    <2>5. SplitOSCAddress(a) = [parent |-> IF m + 1 = 1 THEN Separator ELSE Before(a, m + 1),
                                name |-> Before(node, 2), instance |-> After(node, 2),
                                property |-> None]
      BY <1>3, <1>4, <2>4 DEF SplitOSCAddress, node
    <2>6. Before(node, 2) = name
      <3>1. \A i \in 1..1 : node[i] \in Tokens BY <2>3, <1>8, WordsDistinct
      <3> DEFINE c == SubSeq(node, 1, 1)
      <3>2. c \in Seq(Tokens) /\ Len(c) = 1 /\ c[1] = node[1] BY <3>1, SubSeqProperties
      <3> HIDE DEF c
      <3>3. c = name BY <3>2, <2>3, <1>8
      <3> QED BY <3>3 DEF Before, c
    <2>7. After(node, 2) = instance
      <3>1. \A i \in 3..3 : node[i] \in Tokens BY <2>3, <2>1, WordsDistinct
      <3> DEFINE c == SubSeq(node, 3, 3)
      <3>2. c \in Seq(Tokens) /\ Len(c) = 1 /\ c[1] = node[3] BY <3>1, SubSeqProperties
      <3> HIDE DEF c
      <3>3. c = instance BY <3>2, <2>3, <2>1
      <3> QED BY <3>3, <2>3 DEF After, c
    <2> QED BY <1>5, <1>6, <2>5, <2>6, <2>7 DEF a
  <1> QED BY <1>10, <1>11

LEMMA JoinPath ==
  ASSUME NEW p \in Sites, NEW name \in Singles, NEW instance \in Instances
  PROVE  LET a == Join(p, name, instance)
         IN  a \in Sites /\ IsPath(a) /\ a # Separator
  <1> DEFINE a == Join(p, name, instance)
             m == Len(Stem(p))
             b == Stem(p)
  <1>1. /\ a \in Address /\ m \in Nat
        /\ Len(a) = IF instance = None THEN m + 2 ELSE m + 4
        /\ \A i \in 1..m : a[i] = b[i]
        /\ a[m + 1] = "/" /\ a[m + 2] = name[1]
        /\ instance # None => a[m + 3] = "." /\ a[m + 4] = instance[1]
    BY JoinIs
  <1>2. name[1] \in Words BY DEF Singles
  <1>3. instance # None => instance[1] \in Words BY DEF Singles, Instances
  <1>4. a # None /\ a # Separator /\ DOMAIN a = 1..Len(a)
    BY <1>1, TokensOfAddress DEF None, Separator
  <1>5. b \in Address /\ Len(b) = m /\ (m = 0 \/ IsPath(b)) BY <1>1, StemIs
  <1>6. ASSUME m # 0
        PROVE  /\ b[1] = "/"
               /\ \A i \in 1..m :
                    \/ b[i] \in Words /\ i > 1 /\ b[i - 1] \in {"/", "."}
                    \/ b[i] = "/" /\ i < m /\ b[i + 1] \in Words
                    \/ b[i] = "." /\ i < m /\ b[i + 1] \in Words /\ i > 2 /\ b[i - 2] = "/"
    BY <1>5, <1>6, TokensOfAddress DEF IsPath
  <1> HIDE DEF a, b, m
  <1>7. a[1] = "/" BY <1>1, <1>6
  <1>8. ASSUME NEW i \in 1..Len(a)
        PROVE  \/ a[i] \in Words /\ i > 1 /\ a[i - 1] \in {"/", "."}
               \/ a[i] = "/" /\ i < Len(a) /\ a[i + 1] \in Words
               \/ a[i] = "." /\ i < Len(a) /\ a[i + 1] \in Words /\ i > 2 /\ a[i - 2] = "/"
    <2>1. \/ i \in 1..m
          \/ i = m + 1
          \/ i = m + 2
          \/ instance # None /\ i = m + 3
          \/ instance # None /\ i = m + 4
      BY <1>1
    <2>2. CASE i \in 1..m
      <3>0. m # 0 /\ m < Len(a) BY <1>1, <2>2
      <3>1. \/ b[i] \in Words /\ i > 1 /\ b[i - 1] \in {"/", "."}
            \/ b[i] = "/" /\ i < m /\ b[i + 1] \in Words
            \/ b[i] = "." /\ i < m /\ b[i + 1] \in Words /\ i > 2 /\ b[i - 2] = "/"
        BY <1>6, <2>2, <3>0
      <3>2. CASE b[i] \in Words /\ i > 1 /\ b[i - 1] \in {"/", "."} BY <1>1, <2>2, <3>2
      <3>3. CASE b[i] = "/" /\ i < m /\ b[i + 1] \in Words BY <1>1, <2>2, <3>0, <3>3
      <3>4. CASE b[i] = "." /\ i < m /\ b[i + 1] \in Words /\ i > 2 /\ b[i - 2] = "/"
        <4>1. i + 1 \in 1..m /\ i < Len(a) /\ i - 2 \in 1..m
          BY <1>1, <2>2, <3>0, <3>4
        <4> QED BY <1>1, <2>2, <3>4, <4>1
      <3> QED BY <3>1, <3>2, <3>3, <3>4
    <2>3. CASE i = m + 1 BY <1>1, <2>3, <1>2
    <2>4. CASE i = m + 2 BY <1>1, <2>4, <1>2
    <2>5. CASE instance # None /\ i = m + 3 BY <1>1, <2>5, <1>3
    <2>6. CASE instance # None /\ i = m + 4 BY <1>1, <2>6, <1>3
    <2> QED BY <2>1, <2>2, <2>3, <2>4, <2>5, <2>6
  <1>9. IsPath(a) BY <1>4, <1>7, <1>8 DEF IsPath
  <1> QED BY <1>1, <1>4, <1>9 DEF Sites, a

(* What lies before a level of a path is a path.                           *)
LEMMA PathBefore ==
  ASSUME NEW a \in Address, IsPath(a), NEW s \in 1..Len(a), a[s] = "/", s # 1
  PROVE  LET b == SubSeq(a, 1, s - 1)
         IN  /\ b \in Sites /\ b # Separator /\ Len(b) = s - 1
             /\ \A i \in 1..s - 1 : b[i] = a[i]
  <1> DEFINE b == SubSeq(a, 1, s - 1)
  <1>1. Len(a) \in Nat /\ DOMAIN a = 1..Len(a) /\ s - 1 \in Nat \ {0} /\ s - 1 < Len(a)
    BY TokensOfAddress
  <1>2. \A i \in 1..s - 1 : a[i] \in Tokens BY <1>1, TokensOfAddress
  <1>3. /\ b \in Address /\ Len(b) = s - 1
        /\ \A i \in 1..s - 1 : b[i] = a[i]
    BY <1>1, <1>2, SubSeqProperties DEF b, Address, Tokens
  <1>4. /\ a[1] = "/"
        /\ \A i \in 1..Len(a) :
             \/ a[i] \in Words /\ i > 1 /\ a[i - 1] \in {"/", "."}
             \/ a[i] = "/" /\ i < Len(a) /\ a[i + 1] \in Words
             \/ a[i] = "." /\ i < Len(a) /\ a[i + 1] \in Words /\ i > 2 /\ a[i - 2] = "/"
    BY <1>1 DEF IsPath
  <1> HIDE DEF b
  <1>5. DOMAIN b = 1..s - 1 /\ b # None /\ b[1] = "/"
    BY <1>1, <1>3, <1>4, TokensOfAddress DEF None
  <1>6. "/" \notin Words BY OscAddressAssumption
  <1>7. ASSUME NEW i \in 1..s - 1
        PROVE  \/ b[i] \in Words /\ i > 1 /\ b[i - 1] \in {"/", "."}
               \/ b[i] = "/" /\ i < s - 1 /\ b[i + 1] \in Words
               \/ b[i] = "." /\ i < s - 1 /\ b[i + 1] \in Words /\ i > 2 /\ b[i - 2] = "/"
    <2>1. i \in 1..Len(a) /\ (i = s - 1 => a[i + 1] \notin Words) BY <1>1, <1>6
    <2>2. \/ a[i] \in Words /\ i > 1 /\ a[i - 1] \in {"/", "."}
          \/ a[i] = "/" /\ i < Len(a) /\ a[i + 1] \in Words
          \/ a[i] = "." /\ i < Len(a) /\ a[i + 1] \in Words /\ i > 2 /\ a[i - 2] = "/"
      BY <1>4, <2>1
    <2>3. CASE a[i] \in Words /\ i > 1 /\ a[i - 1] \in {"/", "."} BY <1>1, <2>3, <1>3
    <2>4. CASE a[i] = "/" /\ i < Len(a) /\ a[i + 1] \in Words BY <2>1, <2>4, <1>1, <1>3
    <2>5. CASE a[i] = "." /\ i < Len(a) /\ a[i + 1] \in Words /\ i > 2 /\ a[i - 2] = "/"
      BY <2>1, <2>5, <1>1, <1>3
    <2> QED BY <2>2, <2>3, <2>4, <2>5
  <1>8. IsPath(b) BY <1>3, <1>5, <1>7 DEF IsPath
  <1>9. b # Separator BY <1>3, <1>6, <1>7 DEF Separator
  <1> QED BY <1>3, <1>8, <1>9 DEF Sites, b

(* A path is its parent with one more level.                               *)
LEMMA PathJoin ==
  ASSUME NEW a \in Address, IsPath(a)
  PROVE  \E p \in Sites, name \in Singles, instance \in Instances : a = Join(p, name, instance)
  <1> DEFINE s == LastIndex(a, "/")
  <1>1. Len(a) \in Nat /\ DOMAIN a = 1..Len(a) BY TokensOfAddress
  <1>2. Len(a) # 0 BY <1>1 DEF IsPath, None, Address
  <1>3. /\ a[1] = "/"
        /\ \A i \in 1..Len(a) :
             \/ a[i] \in Words /\ i > 1 /\ a[i - 1] \in {"/", "."}
             \/ a[i] = "/" /\ i < Len(a) /\ a[i + 1] \in Words
             \/ a[i] = "." /\ i < Len(a) /\ a[i + 1] \in Words /\ i > 2 /\ a[i - 2] = "/"
    BY <1>1 DEF IsPath
  <1>4. s \in 1..Len(a) /\ a[s] = "/" /\ \A i \in 1..Len(a) : i > s => a[i] # "/"
    BY LastIndexIs, <1>1, <1>2, <1>3
  <1> HIDE DEF s
  <1>5. "/" \notin Words /\ "." \notin Words BY OscAddressAssumption
  <1>6. s < Len(a) /\ a[s + 1] \in Words BY <1>3, <1>4, <1>5
  <1> DEFINE p == IF s = 1 THEN Separator ELSE SubSeq(a, 1, s - 1)
             name == <<a[s + 1]>>
  <1>7. p \in Sites /\ Len(Stem(p)) = s - 1 /\ \A i \in 1..s - 1 : a[i] = Stem(p)[i]
    <2>1. CASE s = 1 BY <2>1 DEF Sites, Stem, Separator, None, Address
    <2>2. CASE s # 1
      <3> DEFINE b == SubSeq(a, 1, s - 1)
      <3>1. /\ b \in Sites /\ b # Separator /\ Len(b) = s - 1
            /\ \A i \in 1..s - 1 : b[i] = a[i]
        BY <1>4, <2>2, PathBefore
      <3>2. p = b BY <2>2
      <3> HIDE DEF b, p
      <3> QED BY <3>1, <3>2 DEF Stem
    <2> QED BY <2>1, <2>2
  <1>8. name \in Singles /\ name[1] = a[s + 1] BY <1>6 DEF Singles
  <1> DEFINE m == Len(Stem(p))
  <1> HIDE DEF p, name
  <1>9. m = s - 1 /\ a[m + 1] = "/" /\ a[m + 2] = name[1] /\ \A i \in 1..m : a[i] = Stem(p)[i]
    BY <1>7, <1>4, <1>8
  <1>10. CASE Len(a) = s + 1
    <2>1. None \in Instances BY DEF Instances
    <2>2. Len(a) = m + 2 BY <1>4, <1>9, <1>10
    <2>3. a = Join(p, name, None) BY <1>7, <1>8, <1>9, <2>1, <2>2, JoinUnique
    <2> QED BY <1>7, <1>8, <2>1, <2>3
  <1>11. CASE Len(a) # s + 1
    <2>a. s \in Nat \ {0} /\ Len(a) \in Nat /\ s < Len(a) BY <1>1, <1>4, <1>6
    <2>1. s + 2 \in 1..Len(a) /\ s + 2 > s /\ s + 1 \in 1..Len(a) BY <2>a, <1>11
    <2>2. a[s + 2] # "/" /\ a[s + 1] \notin {"/", "."} /\ s + 2 - 1 = s + 1
      BY <1>4, <1>5, <1>6, <2>1
    <2>3. a[s + 2] = "." /\ s + 2 < Len(a) /\ a[s + 2 + 1] \in Words
      <3>1. PICK j \in 1..Len(a) : j = s + 2 BY <2>1
      <3>2. \/ a[j] \in Words /\ j > 1 /\ a[j - 1] \in {"/", "."}
            \/ a[j] = "/" /\ j < Len(a) /\ a[j + 1] \in Words
            \/ a[j] = "." /\ j < Len(a) /\ a[j + 1] \in Words /\ j > 2 /\ a[j - 2] = "/"
        BY <1>3
      <3>3. j - 1 = s + 1 /\ j + 1 = s + 2 + 1 BY <2>a, <3>1
      <3>4. a[j] # "/" /\ a[j - 1] \notin {"/", "."} BY <2>2, <3>1, <3>3
      <3>5. a[j] = "." /\ j < Len(a) /\ a[j + 1] \in Words BY <3>2, <3>4
      <3> QED BY <3>1, <3>3, <3>5
    <2>4. s + 2 + 1 = s + 3 /\ s + 3 \in 1..Len(a) /\ a[s + 3] \in Words
      BY <1>1, <1>4, <2>3
    <2>5. Len(a) = s + 3
      <3> SUFFICES ASSUME Len(a) # s + 3 PROVE FALSE OBVIOUS
      <3>1. s + 4 \in 1..Len(a) /\ s + 4 - 1 = s + 3 /\ s + 4 - 2 = s + 2 /\ s + 4 > s
        BY <2>a, <2>4
      <3>2. a[s + 4] # "/" /\ a[s + 3] \notin {"/", "."} /\ a[s + 2] # "/"
        BY <1>4, <1>5, <2>3, <2>4, <3>1
      <3>3. PICK j \in 1..Len(a) : j = s + 4 BY <3>1
      <3>4. \/ a[j] \in Words /\ j > 1 /\ a[j - 1] \in {"/", "."}
            \/ a[j] = "/" /\ j < Len(a) /\ a[j + 1] \in Words
            \/ a[j] = "." /\ j < Len(a) /\ a[j + 1] \in Words /\ j > 2 /\ a[j - 2] = "/"
        BY <1>3
      <3>5. j - 1 = s + 3 /\ j - 2 = s + 2 BY <2>a, <3>3
      <3>6. a[j] # "/" /\ a[j - 1] \notin {"/", "."} /\ a[j - 2] # "/"
        BY <3>2, <3>3, <3>5
      <3> QED BY <3>4, <3>6
    <2> DEFINE instance == <<a[s + 3]>>
    <2>6. instance \in Instances /\ instance # None /\ instance[1] = a[s + 3]
      BY <2>4 DEF Instances, Singles, None
    <2>7. Len(a) = m + 4 /\ m + 3 = s + 2 /\ m + 4 = s + 3 BY <1>4, <1>9, <2>5
    <2> HIDE DEF instance, m
    <2>8. a[m + 3] = "." /\ a[m + 4] = instance[1] BY <2>3, <2>6, <2>7
    <2>9. a = Join(p, name, instance)
      BY <1>7, <1>8, <1>9, <2>6, <2>7, <2>8, JoinUnique DEF m
    <2> QED BY <1>7, <1>8, <2>6, <2>9
  <1> QED BY <1>10, <1>11

-----------------------------------------------------------------------------
(* A function that calls itself on one smaller argument exists.            *)
Descends(S, T, M, C, N, H, B) ==
  /\ M \in [S -> Nat] /\ C \in SUBSET S /\ N \in [C -> S]
  /\ \A x \in C : M[N[x]] < M[x]
  /\ H \in [C -> [T -> T]] /\ B \in [S -> T]

Recurs(g, S, T, C, N, H, B) ==
  /\ g \in [S -> T]
  /\ \A x \in S : g[x] = IF x \in C THEN H[x][g[N[x]]] ELSE B[x]

LEMMA Recursion ==
  ASSUME NEW S, NEW T, NEW M, NEW C, NEW N, NEW H, NEW B, Descends(S, T, M, C, N, H, B)
  PROVE  \E g : Recurs(g, S, T, C, N, H, B)
  <1>0. /\ M \in [S -> Nat] /\ C \in SUBSET S /\ N \in [C -> S]
        /\ \A x \in C : M[N[x]] < M[x]
        /\ H \in [C -> [T -> T]] /\ B \in [S -> T]
    BY DEF Descends
  <1> SUFFICES ASSUME M \in [S -> Nat], C \in SUBSET S, N \in [C -> S],
                      \A x \in C : M[N[x]] < M[x],
                      H \in [C -> [T -> T]], B \in [S -> T]
               PROVE  \E g : Recurs(g, S, T, C, N, H, B)
    BY <1>0
  <1> DEFINE Low(n) == {x \in S : M[x] < n}
             Solves(h, n) == h \in [Low(n) -> T] /\
               \A x \in Low(n) : h[x] = IF x \in C THEN H[x][h[N[x]]] ELSE B[x]
             Bad == {n \in Nat : ~ \E h \in [Low(n) -> T] : Solves(h, n)}
  <1>1. \A n \in Nat : \A x \in Low(n) : x \in C => N[x] \in Low(n) OBVIOUS
  <1>2. Bad = {}
    <2> SUFFICES ASSUME Bad # {} PROVE FALSE OBVIOUS
    <2>1. PICK n \in Nat : n \in Bad /\ \A m \in Bad : n <= m BY Least
    <2>2. n # 0
      <3> SUFFICES ASSUME n = 0 PROVE FALSE OBVIOUS
      <3>1. Low(0) = {} OBVIOUS
      <3> DEFINE h == [x \in Low(0) |-> B[x]]
      <3>2. h \in [Low(0) -> T] OBVIOUS
      <3>3. Solves(h, 0) BY <3>1
      <3> HIDE DEF h, Solves, Low
      <3> QED BY <2>1, <3>2, <3>3
    <2>3. n \in Nat /\ n - 1 \in Nat /\ n - 1 \notin Bad
      <3> HIDE DEF Bad
      <3>1. n \in Nat OBVIOUS
      <3>2. n - 1 \in Nat /\ ~ (n <= n - 1) BY <2>2, <3>1
      <3> QED BY <2>1, <3>1, <3>2
    <2>4. PICK h \in [Low(n - 1) -> T] : Solves(h, n - 1) BY <2>3
    <2> DEFINE k == [x \in Low(n) |-> IF x \in C THEN H[x][h[N[x]]] ELSE B[x]]
    <2>5. \A x \in Low(n) : x \in C => N[x] \in Low(n - 1) OBVIOUS
    <2>6. k \in [Low(n) -> T] BY <2>5, <2>4
    <2>7. \A y \in Low(n - 1) : y \in Low(n) /\ k[y] = h[y] BY <2>4
    <2>8. \A x \in Low(n) : k[x] = IF x \in C THEN H[x][k[N[x]]] ELSE B[x]
      BY <2>5, <2>7, Zenon
    <2>9. Solves(k, n) BY <2>6, <2>8, Zenon
    <2> HIDE DEF k, Solves, Low
    <2> QED BY <2>1, <2>6, <2>9
  <1>3. \A n \in Nat : \E h \in [Low(n) -> T] : Solves(h, n) BY <1>2
  <1>4. ASSUME NEW m \in Nat, NEW n \in Nat, NEW h, NEW k, Solves(h, m), Solves(k, n)
        PROVE  \A x \in Low(m) \cap Low(n) : h[x] = k[x]
    <2> DEFINE D == {M[x] : x \in {x \in Low(m) \cap Low(n) : h[x] # k[x]}}
    <2> SUFFICES ASSUME D # {} PROVE FALSE OBVIOUS
    <2>1. PICK d \in D : \A e \in D : d <= e
      <3>1. D \in SUBSET Nat OBVIOUS
      <3> HIDE DEF D
      <3> QED BY <3>1, Least
    <2>2. PICK x \in Low(m) \cap Low(n) : h[x] # k[x] /\ d = M[x] OBVIOUS
    <2>3. CASE x \in C
      <3>1. N[x] \in Low(m) \cap Low(n) /\ M[N[x]] < M[x] /\ M[x] \in Nat /\ M[N[x]] \in Nat
        BY <1>1, <2>3
      <3>2. h[N[x]] = k[N[x]]
        <4> SUFFICES ASSUME h[N[x]] # k[N[x]] PROVE FALSE OBVIOUS
        <4>1. M[N[x]] \in D BY <3>1
        <4> HIDE DEF D, Low
        <4> QED BY <2>1, <2>2, <3>1, <4>1
      <3> QED BY <2>2, <2>3, <3>2, <1>4
    <2>4. CASE x \notin C BY <2>2, <2>4, <1>4
    <2> QED BY <2>3, <2>4
  <1> DEFINE of == [n \in Nat |-> CHOOSE h : Solves(h, n)]
             g == [x \in S |-> of[M[x] + 1][x]]
  <1>5. \A n \in Nat : Solves(of[n], n)
    <2> HIDE DEF Solves
    <2> QED BY <1>3
  <1>6. \A x \in S : M[x] + 1 \in Nat /\ x \in Low(M[x] + 1) OBVIOUS
  <1>7. \A x \in S : g[x] \in T
    <2> TAKE x \in S
    <2>1. of[M[x] + 1] \in [Low(M[x] + 1) -> T] BY <1>5, <1>6, Zenon
    <2>2. g[x] = of[M[x] + 1][x] OBVIOUS
    <2> HIDE DEF of, g, Low
    <2> QED BY <1>6, <2>1, <2>2
  <1>8. ASSUME NEW x \in S PROVE g[x] = IF x \in C THEN H[x][g[N[x]]] ELSE B[x]
    <2> DEFINE h == of[M[x] + 1]
    <2>1. Solves(h, M[x] + 1) /\ g[x] = h[x] /\ x \in Low(M[x] + 1)
      BY <1>5, <1>6, Zenon
    <2>2. CASE x \notin C BY <2>1, <2>2, Zenon
    <2>3. CASE x \in C
      <3> DEFINE y == N[x]
                 k == of[M[y] + 1]
      <3>1. y \in S /\ y \in Low(M[x] + 1) BY <1>1, <2>1, <2>3, <1>6, Zenon
      <3>2. Solves(k, M[y] + 1) /\ g[y] = k[y] /\ y \in Low(M[y] + 1)
        BY <1>5, <1>6, <3>1, Zenon
      <3>3. h[y] = k[y]
        <4> HIDE DEF h, k, Solves, Low
        <4> QED BY <1>4, <1>6, <2>1, <3>1, <3>2
      <3>4. h[x] = H[x][h[y]] BY <2>1, <2>3, Zenon
      <3> HIDE DEF h, k, of, g
      <3> QED BY <2>1, <2>3, <3>2, <3>3, <3>4
    <2> QED BY <2>2, <2>3, Zenon
  <1> HIDE DEF of
  <1>9. g \in [S -> T] BY <1>7
  <1> HIDE DEF g
  <1> QED BY <1>8, <1>9 DEF Recurs

-----------------------------------------------------------------------------
(* Where compareOSCAddress finds the first difference.                     *)

LEMMA SlashesFinite ==
  ASSUME NEW a \in Address
  PROVE  LET I == {i \in DOMAIN a : a[i] = "/"}
         IN  IsFiniteSet(I) /\ Cardinality(I) \in Nat /\ (Cardinality(I) = 0 <=> I = {})
  <1> DEFINE I == {i \in DOMAIN a : a[i] = "/"}
  <1>1. Len(a) \in Nat /\ DOMAIN a = 1..Len(a) BY TokensOfAddress
  <1>2. IsFiniteSet(1..Len(a)) BY <1>1, FS_Interval
  <1>3. I \in SUBSET (1..Len(a)) BY <1>1
  <1> HIDE DEF I
  <1>4. IsFiniteSet(I) BY <1>2, <1>3, FS_Subset
  <1> QED BY <1>4, FS_CardinalityType, FS_EmptySet DEF I

Parts == [top : Address, rest : Address, err : BOOLEAN]

LEMMA SubAddress ==
  ASSUME NEW a \in Address, NEW m \in Nat \ {0}, NEW n \in Nat, m <= n + 1, n <= Len(a)
  PROVE  LET b == SubSeq(a, m, n)
         IN  /\ b \in Address /\ Len(b) = n - m + 1
             /\ \A i \in 1..n - m + 1 : b[i] = a[m + i - 1]
  <1>1. Len(a) \in Nat BY TokensOfAddress
  <1>2. \A i \in m..n : a[i] \in Tokens BY <1>1, TokensOfAddress
  <1>3. /\ SubSeq(a, m, n) \in Seq(Tokens)
        /\ Len(SubSeq(a, m, n)) = IF m <= n THEN n - m + 1 ELSE 0
        /\ \A i \in 1..n - m + 1 : SubSeq(a, m, n)[i] = a[m + i - 1]
    BY <1>2, SubSeqProperties
  <1>4. ~ (m <= n) => n - m + 1 = 0 OBVIOUS
  <1> QED BY <1>3, <1>4 DEF Address, Tokens

LEMMA SameAddress ==
  ASSUME NEW a \in Address, NEW b \in Address, Len(a) = Len(b),
         \A i \in 1..Len(a) : a[i] = b[i]
  PROVE  a = b
  BY SeqEqual DEF Address

LEMMA SplitWithout ==
  ASSUME NEW a \in Address, \A i \in 1..Len(a) : a[i] # "/"
  PROVE  SplitAtOSCAddress(a, 0) = [top |-> a, rest |-> None, err |-> TRUE]
  <1>1. {i \in DOMAIN a : a[i] = "/"} = {} BY TokensOfAddress
  <1>2. CountSeparator(a) = 0 BY <1>1, FS_EmptySet DEF CountSeparator
  <1> QED BY <1>2 DEF SplitAtOSCAddress

LEMMA SplitAtFirst ==
  ASSUME NEW a \in Address, NEW n \in 1..Len(a), a[n] = "/",
         \A i \in 1..Len(a) : i < n => a[i] # "/"
  PROVE  SplitAtOSCAddress(a, 0)
           = [top |-> SubSeq(a, 1, n), rest |-> SubSeq(a, n + 1, Len(a)), err |-> FALSE]
  <1>1. Len(a) \in Nat /\ DOMAIN a = 1..Len(a) BY TokensOfAddress
  <1>2. CountSeparator(a) \in Nat /\ CountSeparator(a) # 0
    BY <1>1, SlashesFinite DEF CountSeparator
  <1>3. ASSUME NEW j \in 1..Len(a), a[j] = "/"
        PROVE  CountSeparator(SubSeq(a, 1, j)) = 1 <=> j = n
    <2> DEFINE b == SubSeq(a, 1, j)
    <2>1. b \in Address /\ Len(b) = j /\ \A i \in 1..j : b[i] = a[i] BY <1>1, SubAddress
    <2> DEFINE I == {i \in DOMAIN b : b[i] = "/"}
    <2>2. IsFiniteSet(I) /\ CountSeparator(b) = Cardinality(I)
      BY <2>1, SlashesFinite DEF CountSeparator
    <2>3. I = {i \in 1..j : a[i] = "/"} BY <2>1, TokensOfAddress
    <2>4. ASSUME j = n PROVE CountSeparator(b) = 1
      <3>1. I = {n} BY <2>3, <2>4, <1>1
      <3> HIDE DEF I, b
      <3> QED BY <2>2, <3>1, FS_Singleton
    <2>5. ASSUME CountSeparator(b) = 1 PROVE j = n
      <3>1. \E x : I = {x} BY <2>2, <2>5, FS_Singleton
      <3>2. j \in I BY <2>3, <1>3
      <3>3. n <= j BY <1>1, <1>3
      <3>4. n \in I BY <2>3, <3>3
      <3> HIDE DEF I, b
      <3> QED BY <3>1, <3>2, <3>4
    <2> QED BY <2>4, <2>5
  <1>4. (CHOOSE i \in DOMAIN a : a[i] = "/" /\ CountSeparator(SubSeq(a, 1, i)) = 0 + 1) = n
    BY <1>1, <1>3
  <1>5. ~ (CountSeparator(a) <= 0) BY <1>2
  <1> QED BY <1>4, <1>5 DEF SplitAtOSCAddress, After

LEMMA FirstSlash ==
  ASSUME NEW a \in Address, ~ \A i \in 1..Len(a) : a[i] # "/"
  PROVE  \E n \in 1..Len(a) : a[n] = "/" /\ \A i \in 1..Len(a) : i < n => a[i] # "/"
  <1> DEFINE I == {i \in 1..Len(a) : a[i] = "/"}
  <1>1. I \in SUBSET Nat /\ I # {} BY TokensOfAddress
  <1>2. PICK n \in I : \A m \in I : n <= m BY <1>1, Least
  <1> QED BY <1>2, TokensOfAddress

LEMMA SplitParts ==
  ASSUME NEW a \in Address
  PROVE  LET s == SplitAtOSCAddress(a, 0)
         IN  /\ s \in Parts /\ (~ s.err => Len(s.rest) < Len(a)) /\ Len(s.rest) <= Len(a)
             /\ s.err => s.rest = None
  <1>1. Len(a) \in Nat BY TokensOfAddress
  <1>2. CASE \A i \in 1..Len(a) : a[i] # "/"
    <2>1. SplitAtOSCAddress(a, 0) = [top |-> a, rest |-> None, err |-> TRUE]
      BY <1>2, SplitWithout
    <2>2. None \in Address /\ Len(None) = 0 BY DEF None, Address
    <2> DEFINE s == SplitAtOSCAddress(a, 0)
    <2>3. s.rest = None /\ s.err BY <2>1
    <2>3a. s \in Parts
      <3>1. [top |-> a, rest |-> None, err |-> TRUE] \in Parts BY <2>2 DEF Parts
      <3> QED BY <2>1, <3>1
    <2> HIDE DEF s
    <2>4. s \in Parts /\ (~ s.err => Len(s.rest) < Len(a)) /\ Len(s.rest) <= Len(a)
      BY <1>1, <2>2, <2>3, <2>3a
    <2> QED BY <2>3, <2>4 DEF s
  <1>3. CASE ~ \A i \in 1..Len(a) : a[i] # "/"
    <2>1. PICK n \in 1..Len(a) : a[n] = "/" /\ \A i \in 1..Len(a) : i < n => a[i] # "/"
      BY <1>3, FirstSlash
    <2>2. SplitAtOSCAddress(a, 0)
            = [top |-> SubSeq(a, 1, n), rest |-> SubSeq(a, n + 1, Len(a)), err |-> FALSE]
      BY <2>1, SplitAtFirst
    <2>3. SubSeq(a, 1, n) \in Address BY <1>1, SubAddress
    <2>4. SubSeq(a, n + 1, Len(a)) \in Address /\ Len(SubSeq(a, n + 1, Len(a))) = Len(a) - (n + 1) + 1
      BY <1>1, SubAddress
    <2>5. Len(a) - (n + 1) + 1 < Len(a) BY <1>1
    <2> DEFINE s == SplitAtOSCAddress(a, 0)
    <2>6. s.rest = SubSeq(a, n + 1, Len(a)) /\ ~ s.err /\ s \in Parts
      <3> DEFINE b == SubSeq(a, 1, n)
                 c == SubSeq(a, n + 1, Len(a))
      <3>1. b \in Address /\ c \in Address /\ s = [top |-> b, rest |-> c, err |-> FALSE]
        BY <2>2, <2>3, <2>4
      <3> HIDE DEF b, c, s
      <3>2. [top |-> b, rest |-> c, err |-> FALSE] \in Parts BY <3>1 DEF Parts
      <3>3. s.rest = c /\ ~ s.err BY <3>1
      <3> QED BY <3>1, <3>2, <3>3 DEF c
    <2>7. Len(s.rest) < Len(a) /\ Len(s.rest) <= Len(a) BY <1>1, <2>4, <2>5, <2>6
    <2> QED BY <2>6, <2>7
  <1> QED BY <1>2, <1>3

LEMMA FirstDifferenceIs ==
  /\ \A a, b \in Address :
       LET s == FirstDifference[<<a, b>>]
       IN  /\ s[1] \in Parts /\ (s[1].err => s[1].rest = None)
           /\ ~ s[1].err => Len(s[1].rest) < Len(a)
           /\ s[2] \in Parts /\ (s[2].err => s[2].rest = None)
           /\ ~ s[2].err => Len(s[2].rest) < Len(b)
  /\ \A a, b \in Address :
       LET s1 == SplitAtOSCAddress(a, 0)
           s2 == SplitAtOSCAddress(b, 0)
       IN  FirstDifference[<<a, b>>] =
             IF s1.top = s2.top /\ ~ s1.err /\ ~ s2.err
             THEN FirstDifference[<<s1.rest, s2.rest>>] ELSE <<s1, s2>>
  <1> DEFINE S == Address \X Address
             Is(g) == g = [pair \in S |->
               LET s1 == SplitAtOSCAddress(pair[1], 0)
                   s2 == SplitAtOSCAddress(pair[2], 0)
               IN  IF s1.top = s2.top /\ ~ s1.err /\ ~ s2.err
                   THEN g[<<s1.rest, s2.rest>>] ELSE <<s1, s2>>]
  <1>1. FirstDifference = CHOOSE g : Is(g) BY Zenon DEF FirstDifference
  <1> DEFINE T == Parts \X Parts
             Two(x) == <<SplitAtOSCAddress(x[1], 0), SplitAtOSCAddress(x[2], 0)>>
             M == [x \in S |-> Len(x[1])]
             C == {x \in S : Two(x)[1].top = Two(x)[2].top /\ ~ Two(x)[1].err /\ ~ Two(x)[2].err}
             N == [x \in C |-> <<Two(x)[1].rest, Two(x)[2].rest>>]
             H == [x \in C |-> [t \in T |-> t]]
             B == [x \in S |-> Two(x)]
  <1>2. ASSUME NEW x \in S
        PROVE  /\ x[1] \in Address /\ x[2] \in Address
               /\ Two(x) \in T /\ Two(x)[1] = SplitAtOSCAddress(x[1], 0)
               /\ Two(x)[2] = SplitAtOSCAddress(x[2], 0)
               /\ ~ Two(x)[1].err => Len(Two(x)[1].rest) < Len(x[1])
               /\ Len(x[1]) \in Nat
    BY SplitParts, TokensOfAddress
  <1> HIDE DEF Two
  <1>3. M \in [S -> Nat] /\ C \in SUBSET S /\ B \in [S -> T] /\ H \in [C -> [T -> T]]
    BY <1>2
  <1>4. N \in [C -> S] /\ \A x \in C : M[N[x]] < M[x] BY <1>2 DEF Parts
  <1> DEFINE Rec(g) == \A x \in S : g[x] = IF x \in C THEN H[x][g[N[x]]] ELSE B[x]
  <1> HIDE DEF M, C, N, H, B
  <1>5. PICK g \in [S -> T] : Rec(g)
    <2>1. Descends(S, T, M, C, N, H, B) BY <1>4, <1>3 DEF Descends
    <2>2. PICK g : Recurs(g, S, T, C, N, H, B) BY <2>1, Recursion
    <2> QED BY <2>2 DEF Recurs
  <1>6. ASSUME NEW x \in S, NEW s1, NEW s2,
               s1 = SplitAtOSCAddress(x[1], 0), s2 = SplitAtOSCAddress(x[2], 0)
        PROVE  /\ x \in C <=> (s1.top = s2.top /\ ~ s1.err /\ ~ s2.err)
               /\ x \in C => N[x] = <<s1.rest, s2.rest>>
               /\ \A t \in T : x \in C => H[x][t] = t
               /\ B[x] = <<s1, s2>>
    BY <1>6 DEF Two, C, N, H, B
  <1> DEFINE Turn(h, x) ==
               LET s1 == SplitAtOSCAddress(x[1], 0)
                   s2 == SplitAtOSCAddress(x[2], 0)
               IN  IF s1.top = s2.top /\ ~ s1.err /\ ~ s2.err
                   THEN h[<<s1.rest, s2.rest>>] ELSE <<s1, s2>>
  <1>7. \A x \in S : g[x] = Turn(g, x)
    <2> TAKE x \in S
    <2> DEFINE s1 == SplitAtOSCAddress(x[1], 0)
               s2 == SplitAtOSCAddress(x[2], 0)
    <2>1. /\ x \in C <=> (s1.top = s2.top /\ ~ s1.err /\ ~ s2.err)
          /\ x \in C => N[x] = <<s1.rest, s2.rest>>
          /\ \A t \in T : x \in C => H[x][t] = t
          /\ B[x] = <<s1, s2>>
      BY <1>6
    <2>2. x \in C => N[x] \in S /\ g[N[x]] \in T BY <1>4, <1>5
    <2>3. g[x] = IF x \in C THEN g[N[x]] ELSE B[x] BY <1>5, <2>1, <2>2
    <2>4. g[x] = IF s1.top = s2.top /\ ~ s1.err /\ ~ s2.err
                 THEN g[<<s1.rest, s2.rest>>] ELSE <<s1, s2>>
      BY <2>1, <2>3
    <2> QED BY <2>4
  <1>8. Is(g) BY <1>5, <1>7
  <1>9. Is(FirstDifference) BY <1>1, <1>8
  <1> DEFINE f == FirstDifference
  <1>10. DOMAIN f = S /\ (\A x \in S : f[x] = Turn(f, x)) /\ f = [x \in S |-> f[x]]
    BY <1>9
  <1> DEFINE Fit(s, a) ==
               s \in Parts /\ (s.err => s.rest = None) /\ (~ s.err => Len(s.rest) < Len(a))
             Fits(x) == f[x] \in T /\ Fit(f[x][1], x[1]) /\ Fit(f[x][2], x[2])
  <1>11. \A x \in S : Fits(x)
    <2> DEFINE D == {M[x] : x \in {x \in S : ~ Fits(x)}}
    <2> SUFFICES ASSUME D # {} PROVE FALSE OBVIOUS
    <2> HIDE DEF Fits, f
    <2>2. PICK d \in D : \A e \in D : d <= e
      <3>1. D \in SUBSET Nat BY <1>3
      <3> HIDE DEF D
      <3> QED BY <3>1, Least
    <2>3. PICK x \in S : ~ Fits(x) /\ d = M[x] OBVIOUS
    <2> DEFINE s1 == SplitAtOSCAddress(x[1], 0)
               s2 == SplitAtOSCAddress(x[2], 0)
    <2>4. /\ x \in C <=> (s1.top = s2.top /\ ~ s1.err /\ ~ s2.err)
          /\ x \in C => N[x] = <<s1.rest, s2.rest>>
      BY <1>6
    <2>5. f[x] = IF s1.top = s2.top /\ ~ s1.err /\ ~ s2.err
                 THEN f[<<s1.rest, s2.rest>>] ELSE <<s1, s2>>
      BY <1>10
    <2>6. x[1] \in Address /\ x[2] \in Address BY <1>2
    <2>7. Fit(s1, x[1]) /\ Fit(s2, x[2]) BY <2>6, SplitParts
    <2>8. CASE x \in C
      <3>1. N[x] \in S /\ M[N[x]] < M[x] /\ M[x] \in Nat /\ M[N[x]] \in Nat
        BY <1>3, <1>4, <2>8
      <3>2. M[N[x]] \notin D
        <4> HIDE DEF D, S
        <4> QED BY <2>2, <2>3, <3>1
      <3>3. Fits(N[x]) BY <3>1, <3>2
      <3>4. f[x] = f[N[x]] /\ N[x][1] = s1.rest /\ N[x][2] = s2.rest
        BY <2>4, <2>5, <2>8
      <3>5. /\ Len(s1.rest) < Len(x[1]) /\ Len(s2.rest) < Len(x[2])
            /\ Len(s1.rest) \in Nat /\ Len(s2.rest) \in Nat
            /\ Len(x[1]) \in Nat /\ Len(x[2]) \in Nat
        BY <2>7, <2>4, <2>6, <2>8, TokensOfAddress DEF Parts
      <3> DEFINE y == f[x]
      <3>6. y \in T /\ Fit(y[1], s1.rest) /\ Fit(y[2], s2.rest)
        BY <3>3, <3>4 DEF Fits
      <3>7. y[1] \in Parts /\ y[2] \in Parts BY <3>6
      <3>8. /\ ~ y[1].err => Len(y[1].rest) < Len(x[1])
            /\ ~ y[2].err => Len(y[2].rest) < Len(x[2])
        <4>1. y[1].rest \in Address /\ y[2].rest \in Address BY <3>7 DEF Parts
        <4>2. Len(y[1].rest) \in Nat /\ Len(y[2].rest) \in Nat
          BY <4>1, TokensOfAddress
        <4> HIDE DEF y, s1, s2, S, T
        <4> QED BY <3>5, <3>6, <4>2, SMTT(20)
      <3>9. Fits(x) BY <3>6, <3>7, <3>8 DEF Fits
      <3> QED BY <2>3, <3>9
    <2>9. CASE x \notin C
      <3>1. f[x] = <<s1, s2>> BY <2>4, <2>5, <2>9
      <3>2. <<s1, s2>>[1] = s1 /\ <<s1, s2>>[2] = s2 /\ <<s1, s2>> \in T BY <2>7
      <3>3. Fits(x) BY <2>7, <3>1, <3>2 DEF Fits
      <3> QED BY <2>3, <3>3
    <2> QED BY <2>8, <2>9
  <1>13. ASSUME NEW a \in Address, NEW b \in Address
         PROVE  LET s1 == SplitAtOSCAddress(a, 0)
                    s2 == SplitAtOSCAddress(b, 0)
                IN  f[<<a, b>>] =
                      IF s1.top = s2.top /\ ~ s1.err /\ ~ s2.err
                      THEN f[<<s1.rest, s2.rest>>] ELSE <<s1, s2>>
    BY <1>10
  <1>14. ASSUME NEW a \in Address, NEW b \in Address
         PROVE  LET s == f[<<a, b>>]
                IN  /\ s[1] \in Parts /\ (s[1].err => s[1].rest = None)
                    /\ ~ s[1].err => Len(s[1].rest) < Len(a)
                    /\ s[2] \in Parts /\ (s[2].err => s[2].rest = None)
                    /\ ~ s[2].err => Len(s[2].rest) < Len(b)
    BY <1>11
  <1> QED BY <1>13, <1>14

-----------------------------------------------------------------------------
(* What compareOSCAddress answers.                                         *)

LEMMA CompareIs ==
  ASSUME NEW a \in Address, NEW b \in Address
  PROVE  LET s1 == FirstDifference[<<a, b>>][1]
             s2 == FirstDifference[<<a, b>>][2]
             match == LevelsMatch(LevelOf(s1.top), LevelOf(s2.top))
         IN  /\ a = b => CompareOSCAddress[<<a, b>>] = "Equal"
             /\ a # b /\ a = Separator => CompareOSCAddress[<<a, b>>] = "Upper"
             /\ a # b /\ b = Separator => CompareOSCAddress[<<a, b>>] = "Lower"
             /\ a # b /\ Separator \notin {a, b} /\ match =>
                  /\ s1.err /\ ~ s2.err => CompareOSCAddress[<<a, b>>] = "Upper"
                  /\ ~ s1.err /\ s2.err => CompareOSCAddress[<<a, b>>] = "Lower"
  <1> DEFINE S == Address \X Address
             Body(g, pair) ==
               LET x == pair[1]
                   y == pair[2]
                   s1 == FirstDifference[pair][1]
                   s2 == FirstDifference[pair][2]
               IN  CASE x = y -> "Equal"
                     [] x # y /\ x = Separator -> "Upper"
                     [] x # y /\ y = Separator -> "Lower"
                     [] OTHER ->
                          IF ~ LevelsMatch(LevelOf(s1.top), LevelOf(s2.top)) THEN "Different"
                          ELSE CASE s1.err /\ ~ s2.err -> "Upper"
                                 [] ~ s1.err /\ s2.err -> "Lower"
                                 [] OTHER -> g[<<s1.rest, s2.rest>>]
             Is(g) == g = [pair \in S |-> Body(g, pair)]
  <1>1. CompareOSCAddress = CHOOSE g : Is(g) BY Zenon DEF CompareOSCAddress
  <1> DEFINE T == {"Equal", "Upper", "Lower", "Different"}
             One(x) == FirstDifference[x][1]
             Two(x) == FirstDifference[x][2]
             M == [x \in S |-> Len(x[1]) + Len(x[2])]
             C == {x \in S : /\ x[1] # x[2] /\ x[1] # Separator /\ x[2] # Separator
                             /\ LevelsMatch(LevelOf(One(x).top), LevelOf(Two(x).top))
                             /\ One(x).err <=> Two(x).err}
             N == [x \in C |-> <<One(x).rest, Two(x).rest>>]
             H == [x \in C |-> [t \in T |-> t]]
             B == [x \in S |-> IF x[1] = x[2] THEN "Equal"
                               ELSE IF x[1] = Separator THEN "Upper"
                               ELSE IF x[2] = Separator THEN "Lower"
                               ELSE IF ~ LevelsMatch(LevelOf(One(x).top), LevelOf(Two(x).top))
                                    THEN "Different"
                               ELSE IF One(x).err THEN "Upper" ELSE "Lower"]
  <1>2. ASSUME NEW x \in S
        PROVE  /\ x = <<x[1], x[2]>> /\ x[1] \in Address /\ x[2] \in Address
               /\ Len(x[1]) \in Nat /\ Len(x[2]) \in Nat
               /\ One(x) \in Parts /\ (One(x).err => One(x).rest = None)
               /\ ~ One(x).err => Len(One(x).rest) < Len(x[1])
               /\ Two(x) \in Parts /\ (Two(x).err => Two(x).rest = None)
               /\ ~ Two(x).err => Len(Two(x).rest) < Len(x[2])
    BY FirstDifferenceIs, TokensOfAddress
  <1> HIDE DEF One, Two
  <1>3. ASSUME NEW x \in C
        PROVE  /\ N[x] \in S /\ N[x] = <<One(x).rest, Two(x).rest>> /\ M[N[x]] < M[x]
    <2>1. x \in S /\ N[x] = <<One(x).rest, Two(x).rest>> OBVIOUS
    <2>2. One(x).rest \in Address /\ Two(x).rest \in Address BY <1>2 DEF Parts
    <2>3. N[x] \in S /\ M[N[x]] = Len(One(x).rest) + Len(Two(x).rest) BY <2>1, <2>2
    <2>4. Len(One(x).rest) \in Nat /\ Len(Two(x).rest) \in Nat
      BY <2>2, TokensOfAddress
    <2>5. M[x] = Len(x[1]) + Len(x[2]) /\ x[1] # x[2] OBVIOUS
    <2>6. CASE One(x).err
      <3>1. Two(x).err BY <2>6
      <3>2. One(x).rest = None /\ Two(x).rest = None /\ Len(None) = 0
        BY <1>2, <2>6, <3>1 DEF None
      <3>3. Len(x[1]) # 0 \/ Len(x[2]) # 0 BY <1>2, SameAddress, <2>5
      <3> HIDE DEF S, M, N, C
      <3>4. Len(x[1]) \in Nat /\ Len(x[2]) \in Nat BY <1>2, <2>1
      <3>5. Len(One(x).rest) = 0 /\ Len(Two(x).rest) = 0 BY <3>2
      <3>6. 0 < Len(x[1]) + Len(x[2]) /\ Len(One(x).rest) + Len(Two(x).rest) = 0
        <4>1. \A k, l \in Nat : k # 0 \/ l # 0 => 0 < k + l OBVIOUS
        <4>2. \A k, l \in Nat : k = 0 /\ l = 0 => k + l = 0 OBVIOUS
        <4> QED BY <3>3, <3>4, <3>5, <4>1, <4>2, Zenon
      <3>7. M[N[x]] < M[x] BY <2>3, <2>5, <3>6
      <3> QED BY <2>1, <2>3, <3>7
    <2>7. CASE ~ One(x).err
      <3>1. ~ Two(x).err BY <2>7
      <3>2. /\ Len(One(x).rest) < Len(x[1]) /\ Len(Two(x).rest) < Len(x[2])
            /\ Len(x[1]) \in Nat /\ Len(x[2]) \in Nat
        BY <1>2, <2>7, <3>1
      <3> HIDE DEF S, M, N, C
      <3>3. Len(One(x).rest) + Len(Two(x).rest) < Len(x[1]) + Len(x[2])
        <4>1. \A i, j, k, l \in Nat : i < k /\ j < l => i + j < k + l OBVIOUS
        <4> QED BY <2>4, <3>2, <4>1, Zenon
      <3>7. M[N[x]] < M[x] BY <2>3, <2>5, <3>3
      <3> QED BY <2>1, <2>3, <3>7
    <2> QED BY <2>6, <2>7
  <1>4. Descends(S, T, M, C, N, H, B)
    <2>1. M \in [S -> Nat] /\ C \in SUBSET S /\ H \in [C -> [T -> T]] /\ B \in [S -> T]
      <3>1. M \in [S -> Nat]
        <4>1. \A x \in S : Len(x[1]) + Len(x[2]) \in Nat BY <1>2
        <4> QED BY <4>1
      <3>2. C \in SUBSET S /\ H \in [C -> [T -> T]] OBVIOUS
      <3>3. B \in [S -> T] OBVIOUS
      <3> QED BY <3>1, <3>2, <3>3
    <2>2. N \in [C -> S] /\ \A x \in C : M[N[x]] < M[x] BY <1>3
    <2> HIDE DEF S, T, M, C, N, H, B
    <2> QED BY <2>1, <2>2 DEF Descends
  <1>5. PICK g : Recurs(g, S, T, C, N, H, B) BY <1>4, Recursion
  <1>6. g \in [S -> T] /\ \A x \in S : g[x] = IF x \in C THEN g[<<One(x).rest, Two(x).rest>>] ELSE B[x]
    BY <1>5, <1>3 DEF Recurs, H
  <1>7. ASSUME NEW x \in S PROVE g[x] = Body(g, x)
    <2> DEFINE s1 == FirstDifference[x][1]
               s2 == FirstDifference[x][2]
               match == LevelsMatch(LevelOf(s1.top), LevelOf(s2.top))
    <2>1. s1 = One(x) /\ s2 = Two(x) /\ s1.err \in BOOLEAN /\ s2.err \in BOOLEAN
      BY <1>2 DEF One, Two, Parts
    <2>2. /\ B[x] = IF x[1] = x[2] THEN "Equal"
                    ELSE IF x[1] = Separator THEN "Upper"
                    ELSE IF x[2] = Separator THEN "Lower"
                    ELSE IF ~ match THEN "Different"
                    ELSE IF s1.err THEN "Upper" ELSE "Lower"
          /\ x \in C <=> /\ x[1] # x[2] /\ x[1] # Separator /\ x[2] # Separator
                         /\ match /\ (s1.err <=> s2.err)
      BY <2>1
    <2>3. g[x] = IF x \in C THEN g[<<s1.rest, s2.rest>>] ELSE B[x] BY <1>6, <2>1
    <2> HIDE DEF C, B, S, s1, s2, match
    <2>4. CASE x \in C BY <2>1, <2>2, <2>3, <2>4, Zenon DEF s1, s2, match
    <2>5. CASE x \notin C BY <2>1, <2>2, <2>3, <2>5, Zenon DEF s1, s2, match
    <2> QED BY <2>4, <2>5
  <1>8. Is(g) BY <1>6, <1>7
  <1>9. Is(CompareOSCAddress)
    <2> HIDE DEF Is
    <2> QED BY <1>1, <1>8
  <1>10. CompareOSCAddress[<<a, b>>] = Body(CompareOSCAddress, <<a, b>>) BY <1>9
  <1> DEFINE c == CompareOSCAddress[<<a, b>>]
             s1 == FirstDifference[<<a, b>>][1]
             s2 == FirstDifference[<<a, b>>][2]
             match == LevelsMatch(LevelOf(s1.top), LevelOf(s2.top))
  <1>11. c = CASE a = b -> "Equal"
               [] a # b /\ a = Separator -> "Upper"
               [] a # b /\ b = Separator -> "Lower"
               [] OTHER ->
                    IF ~ match THEN "Different"
                    ELSE CASE s1.err /\ ~ s2.err -> "Upper"
                           [] ~ s1.err /\ s2.err -> "Lower"
                           [] OTHER -> CompareOSCAddress[<<s1.rest, s2.rest>>]
    BY <1>10
  <1>12. s1.err \in BOOLEAN /\ s2.err \in BOOLEAN BY FirstDifferenceIs DEF Parts
  <1> HIDE DEF c, s1, s2, match
  <1>13. a = b => c = "Equal" BY <1>11
  <1>14. a # b /\ a = Separator => c = "Upper" BY <1>11, Zenon
  <1>15. a # b /\ b = Separator => c = "Lower" BY <1>11, Zenon DEF Separator
  <1>16. ASSUME a # b, Separator \notin {a, b}, match
         PROVE  /\ s1.err /\ ~ s2.err => c = "Upper"
                /\ ~ s1.err /\ s2.err => c = "Lower"
    BY <1>11, <1>12, <1>16, Zenon
  <1> QED BY <1>13, <1>14, <1>15, <1>16, Zenon DEF c, s1, s2, match

-----------------------------------------------------------------------------
(* An address below another is never Different from it.                    *)

LEMMA AddressTop ==
  ASSUME NEW a \in Address, NEW k \in 0..Len(a)
  PROVE  LET b == SubSeq(a, 1, k)
         IN  b \in Address /\ Len(b) = k /\ \A i \in 1..k : b[i] = a[i]
  <1>1. k \in Nat /\ 1 \in Nat \ {0} /\ 1 <= k + 1 /\ k <= Len(a) BY TokensOfAddress
  <1>2. /\ SubSeq(a, 1, k) \in Address /\ Len(SubSeq(a, 1, k)) = k - 1 + 1
        /\ \A i \in 1..k - 1 + 1 : SubSeq(a, 1, k)[i] = a[1 + i - 1]
    BY <1>1, SubAddress
  <1>3. k - 1 + 1 = k /\ \A i \in 1..k : 1 + i - 1 = i BY <1>1
  <1> QED BY <1>2, <1>3

(* The first address begins with the second and a slash.                   *)
Under(a, b) ==
  /\ Len(b) < Len(a) /\ a[Len(b) + 1] = "/"
  /\ \A i \in 1..Len(b) : a[i] = b[i]

LEMMA UnderIs ==
  ASSUME NEW a \in Address, NEW b \in Address
  PROVE  IsPrefix(b \o Separator, a) <=> Under(a, b)
  <1> DEFINE c == b \o Separator
             m == Len(b)
             n == Len(a)
  <1>1. m \in Nat /\ n \in Nat BY TokensOfAddress
  <1>2. Separator \in Address /\ Len(Separator) = 1 /\ Separator[1] = "/"
    BY DEF Separator, Address
  <1>3. /\ c \in Address /\ Len(c) = m + 1
        /\ (\A i \in 1..m : c[i] = b[i]) /\ c[m + 1] = "/"
    <2>1. /\ c \in Seq(Tokens) /\ Len(c) = Len(b) + Len(Separator)
          /\ \A i \in 1..Len(b) + Len(Separator) :
               c[i] = IF i <= Len(b) THEN b[i] ELSE Separator[i - Len(b)]
      BY <1>2, ConcatProperties DEF Address, Tokens
    <2> HIDE DEF c, m
    <2>2. \A i \in 1..m + 1 : c[i] = IF i <= m THEN b[i] ELSE Separator[i - m]
      BY <2>1, <1>2 DEF m
    <2>3. m + 1 \in 1..m + 1 /\ ~ (m + 1 <= m) /\ m + 1 - m = 1 /\ \A i \in 1..m : i \in 1..m + 1 /\ i <= m
      BY <1>1
    <2> QED BY <1>2, <2>1, <2>2, <2>3 DEF m, Address, Tokens
  <1> HIDE DEF c
  <1>4. SubSeq(c, 1, m + 1) = c BY <1>3, SubSeqFull DEF Address
  <1>5. ASSUME m + 1 <= n
        PROVE  SubSeq(a, 1, m + 1) = c <=> \A i \in 1..m + 1 : a[i] = c[i]
    <2> DEFINE d == SubSeq(a, 1, m + 1)
    <2>1. d \in Address /\ Len(d) = m + 1 /\ \A i \in 1..m + 1 : d[i] = a[i]
      BY <1>1, <1>5, AddressTop
    <2> HIDE DEF d, m
    <2>2. ASSUME \A i \in 1..m + 1 : a[i] = c[i] PROVE d = c
      BY <2>1, <2>2, <1>3, SameAddress
    <2> QED BY <2>1, <2>2 DEF d
  <1> HIDE DEF m
  <1>6. (\A i \in 1..m + 1 : a[i] = c[i]) <=> (a[m + 1] = "/" /\ \A i \in 1..m : a[i] = b[i])
    BY <1>1, <1>3
  <1>7. IsPrefix(c, a) <=> (m + 1 <= n /\ SubSeq(c, 1, m + 1) = SubSeq(a, 1, m + 1))
    BY <1>3 DEF IsPrefix
  <1>8. IsPrefix(c, a) <=> (m + 1 <= n /\ a[m + 1] = "/" /\ \A i \in 1..m : a[i] = b[i])
    BY <1>4, <1>5, <1>6, <1>7
  <1>9. m + 1 <= n <=> m < n BY <1>1
  <1> QED BY <1>8, <1>9 DEF Under, c, m

(* Where the first of two such addresses goes on is where they differ.     *)
Ends(t, u) ==
  /\ t \in Address /\ u \in Address /\ Len(u) = Len(t) + 1 /\ u[Len(u)] = "/"
  /\ \A i \in 1..Len(t) : t[i] # "/" /\ u[i] = t[i]

LEMMA DifferenceUnder ==
  ASSUME NEW a \in Address, NEW b \in Address, Under(a, b)
  PROVE  /\ LET s == FirstDifference[<<b, a>>]
            IN  s[1].err /\ ~ s[2].err /\ Ends(s[1].top, s[2].top)
         /\ LET s == FirstDifference[<<a, b>>]
            IN  ~ s[1].err /\ s[2].err /\ Ends(s[2].top, s[1].top)
  <1> DEFINE Good(x, y) ==
               /\ LET s == FirstDifference[<<y, x>>]
                  IN  s[1].err /\ ~ s[2].err /\ Ends(s[1].top, s[2].top)
               /\ LET s == FirstDifference[<<x, y>>]
                  IN  ~ s[1].err /\ s[2].err /\ Ends(s[2].top, s[1].top)
             Bad == {n \in Nat : \E x, y \in Address : Under(x, y) /\ Len(y) = n /\ ~ Good(x, y)}
  <1> SUFFICES ASSUME ~ Good(a, b) PROVE FALSE OBVIOUS
  <1> HIDE DEF Good
  <1>1. Len(b) \in Bad BY TokensOfAddress
  <1>2. PICK n \in Nat : n \in Bad /\ \A m \in Bad : n <= m BY <1>1, Least
  <1>3. PICK x \in Address, y \in Address : Under(x, y) /\ Len(y) = n /\ ~ Good(x, y)
    BY <1>2
  <1>4. /\ Len(x) \in Nat /\ n < Len(x) /\ x[n + 1] = "/"
        /\ \A i \in 1..n : x[i] = y[i]
    BY <1>3, TokensOfAddress DEF Under
  <1> DEFINE sx == SplitAtOSCAddress(x, 0)
             sy == SplitAtOSCAddress(y, 0)
  <1>5. /\ FirstDifference[<<x, y>>] =
             IF sx.top = sy.top /\ ~ sx.err /\ ~ sy.err
             THEN FirstDifference[<<sx.rest, sy.rest>>] ELSE <<sx, sy>>
        /\ FirstDifference[<<y, x>>] =
             IF sy.top = sx.top /\ ~ sy.err /\ ~ sx.err
             THEN FirstDifference[<<sy.rest, sx.rest>>] ELSE <<sy, sx>>
    BY FirstDifferenceIs
  <1>6. CASE \A i \in 1..n : y[i] # "/"
    <2>1. sy = [top |-> y, rest |-> None, err |-> TRUE] BY <1>3, <1>6, SplitWithout
    <2>2. n + 1 \in 1..Len(x) /\ \A i \in 1..Len(x) : i < n + 1 => x[i] # "/"
      BY <1>4, <1>6
    <2> DEFINE u == SubSeq(x, 1, n + 1)
    <2>3. sx.top = u /\ ~ sx.err BY <1>4, <2>2, SplitAtFirst
    <2>4. u \in Address /\ Len(u) = n + 1 /\ \A i \in 1..n + 1 : u[i] = x[i]
      BY <1>4, SubAddress
    <2> HIDE DEF u
    <2>5. Ends(y, u) BY <1>3, <1>4, <1>6, <2>4 DEF Ends
    <2>6. sy.top = y /\ sy.err BY <2>1
    <2> HIDE DEF sx, sy
    <2>7. FirstDifference[<<x, y>>] = <<sx, sy>> /\ FirstDifference[<<y, x>>] = <<sy, sx>>
      BY <1>5, <2>6
    <2>8. Good(x, y) BY <2>3, <2>5, <2>6, <2>7 DEF Good
    <2> QED BY <1>3, <2>8
  <1>7. CASE ~ \A i \in 1..n : y[i] # "/"
    <2>1. PICK k \in 1..n : y[k] = "/" /\ \A i \in 1..n : i < k => y[i] # "/"
      BY <1>3, <1>7, FirstSlash
    <2>2. k \in 1..Len(x) /\ x[k] = "/" /\ \A i \in 1..Len(x) : i < k => x[i] # "/"
      BY <1>4, <2>1
    <2> DEFINE rx == SubSeq(x, k + 1, Len(x))
               ry == SubSeq(y, k + 1, n)
    <2>3. SubSeq(x, 1, k) = SubSeq(y, 1, k)
      <3> DEFINE c == SubSeq(x, 1, k)
                 d == SubSeq(y, 1, k)
      <3>1. /\ SubSeq(x, 1, k) \in Address /\ Len(SubSeq(x, 1, k)) = k - 1 + 1
            /\ \A i \in 1..k - 1 + 1 : SubSeq(x, 1, k)[i] = x[1 + i - 1]
        BY <1>4, <2>1, SubAddress
      <3>2. /\ SubSeq(y, 1, k) \in Address /\ Len(SubSeq(y, 1, k)) = k - 1 + 1
            /\ \A i \in 1..k - 1 + 1 : SubSeq(y, 1, k)[i] = y[1 + i - 1]
        BY <1>3, <2>1, SubAddress
      <3>3. k - 1 + 1 = k /\ \A i \in 1..k : 1 + i - 1 = i /\ i \in 1..n BY <2>1
      <3> HIDE DEF c, d
      <3>4. c \in Address /\ d \in Address /\ Len(c) = k /\ Len(d) = k /\ \A i \in 1..k : c[i] = d[i]
        BY <1>4, <3>1, <3>2, <3>3 DEF c, d
      <3>5. c = d BY <3>4, SameAddress
      <3> QED BY <3>5 DEF c, d
    <2>4. /\ rx \in Address /\ Len(rx) = Len(x) - k /\ \A i \in 1..Len(x) - k : rx[i] = x[k + i]
          /\ ry \in Address /\ Len(ry) = n - k /\ \A i \in 1..n - k : ry[i] = y[k + i]
      <3>1. /\ rx \in Address /\ Len(rx) = Len(x) - (k + 1) + 1
            /\ \A i \in 1..Len(x) - (k + 1) + 1 : rx[i] = x[k + 1 + i - 1]
        BY <1>4, <2>2, SubAddress
      <3>2. /\ ry \in Address /\ Len(ry) = n - (k + 1) + 1
            /\ \A i \in 1..n - (k + 1) + 1 : ry[i] = y[k + 1 + i - 1]
        BY <1>3, <2>1, <1>4, SubAddress
      <3>3. /\ Len(x) - (k + 1) + 1 = Len(x) - k /\ n - (k + 1) + 1 = n - k
            /\ \A i \in Nat : k + 1 + i - 1 = k + i
        BY <1>4
      <3>4. (\A i \in 1..Len(x) - k : i \in Nat) /\ (\A i \in 1..n - k : i \in Nat)
        BY <1>4
      <3> HIDE DEF rx, ry
      <3> QED BY <3>1, <3>2, <3>3, <3>4
    <2>5. Under(rx, ry)
      <3> HIDE DEF rx, ry
      <3>1. n - k \in Nat /\ n - k < Len(x) - k /\ n - k + 1 \in 1..Len(x) - k /\ k + (n - k + 1) = n + 1
        BY <1>4, <2>1
      <3>2. rx[n - k + 1] = "/" BY <1>4, <2>4, <3>1
      <3>3. \A i \in 1..n - k : rx[i] = ry[i]
        <4>1. \A i \in 1..n - k : i \in 1..Len(x) - k /\ k + i \in 1..n
          BY <1>4, <2>1
        <4> QED BY <1>4, <2>4, <4>1
      <3> QED BY <2>4, <3>1, <3>2, <3>3 DEF Under
    <2>6. Good(rx, ry)
      <3> HIDE DEF rx, ry
      <3>1. Len(ry) \in Nat /\ ~ (n <= Len(ry)) BY <2>1, <2>4
      <3>2. Len(ry) \notin Bad BY <1>2, <3>1
      <3> QED BY <2>4, <2>5, <3>1, <3>2
    <2>7. /\ sx = [top |-> SubSeq(x, 1, k), rest |-> rx, err |-> FALSE]
          /\ sy = [top |-> SubSeq(y, 1, k), rest |-> ry, err |-> FALSE]
      BY <1>3, <2>1, <2>2, SplitAtFirst
    <2>8. sx.top = sy.top /\ ~ sx.err /\ ~ sy.err /\ sx.rest = rx /\ sy.rest = ry
      BY <2>3, <2>7
    <2> HIDE DEF sx, sy, rx, ry
    <2>9. /\ FirstDifference[<<x, y>>] = FirstDifference[<<rx, ry>>]
          /\ FirstDifference[<<y, x>>] = FirstDifference[<<ry, rx>>]
      BY <1>5, <2>8
    <2>10. Good(x, y) BY <2>6, <2>9 DEF Good
    <2> QED BY <1>3, <2>10
  <1> QED BY <1>6, <1>7

LEMMA EndsMatch ==
  ASSUME NEW t, NEW u, Ends(t, u)
  PROVE  LevelsMatch(LevelOf(t), LevelOf(u)) /\ LevelsMatch(LevelOf(u), LevelOf(t))
  <1>1. /\ t \in Address /\ u \in Address /\ Len(u) = Len(t) + 1 /\ u[Len(u)] = "/"
        /\ \A i \in 1..Len(t) : t[i] # "/" /\ u[i] = t[i]
        /\ Len(t) \in Nat
    BY TokensOfAddress DEF Ends
  <1>2. LevelOf(t) = SplitOSCAddress(t) BY <1>1 DEF None, Address, LevelOf
  <1>3. Before(u, Len(u)) = t
    <2> DEFINE c == SubSeq(u, 1, Len(t))
    <2>1. c \in Address /\ Len(c) = Len(t) - 1 + 1 /\ \A i \in 1..Len(t) - 1 + 1 : c[i] = u[1 + i - 1]
      BY <1>1, SubAddress
    <2>2. Len(t) - 1 + 1 = Len(t) /\ (\A i \in 1..Len(t) : 1 + i - 1 = i) /\ Len(t) + 1 - 1 = Len(t)
      BY <1>1
    <2> HIDE DEF c
    <2>3. Len(c) = Len(t) /\ \A i \in 1..Len(c) : c[i] = t[i] BY <1>1, <2>1, <2>2
    <2>4. c = t BY <1>1, <2>1, <2>3, SameAddress
    <2> QED BY <1>1, <2>2, <2>4 DEF Before, c
  <1>4. LevelOf(u) = SplitOSCAddress(t) BY <1>1, <1>3 DEF None, LevelOf
  <1> QED BY <1>2, <1>4 DEF LevelsMatch, Alike

AtOrBelow(a, b) == a = b \/ b = Separator \/ IsPrefix(b \o Separator, a)

(* Addresses of which one is at or below the other are not Different.      *)
LEMMA DifferentApart ==
  ASSUME NEW a \in Address, NEW b \in Address, CompareOSCAddress[<<a, b>>] = "Different"
  PROVE  ~ AtOrBelow(a, b) /\ ~ AtOrBelow(b, a)
  <1>1. a # b /\ a # Separator /\ b # Separator BY CompareIs
  <1>2. ~ Under(a, b)
    <2> SUFFICES ASSUME Under(a, b) PROVE FALSE OBVIOUS
    <2>1. LET s == FirstDifference[<<a, b>>]
          IN  ~ s[1].err /\ s[2].err /\ Ends(s[2].top, s[1].top)
      BY DifferenceUnder
    <2>2. LET s == FirstDifference[<<a, b>>]
          IN  LevelsMatch(LevelOf(s[1].top), LevelOf(s[2].top))
      BY <2>1, EndsMatch
    <2> QED BY <1>1, <2>1, <2>2, CompareIs
  <1>3. ~ Under(b, a)
    <2> SUFFICES ASSUME Under(b, a) PROVE FALSE OBVIOUS
    <2>1. LET s == FirstDifference[<<a, b>>]
          IN  s[1].err /\ ~ s[2].err /\ Ends(s[1].top, s[2].top)
      BY DifferenceUnder
    <2>2. LET s == FirstDifference[<<a, b>>]
          IN  LevelsMatch(LevelOf(s[1].top), LevelOf(s[2].top))
      BY <2>1, EndsMatch
    <2> QED BY <1>1, <2>1, <2>2, CompareIs
  <1> QED BY <1>1, <1>2, <1>3, UnderIs DEF AtOrBelow

-----------------------------------------------------------------------------
(* At or below, an order among the addresses of nodes.                     *)

LEMMA SiteAddress ==
  /\ Sites \subseteq Address /\ Separator \in Sites /\ None \notin Sites
  /\ \A a \in Address : IsPath(a) => a \in Sites
  /\ \A a \in Sites : a # Separator => IsPath(a)
  <1>1. Separator \in Address /\ None \in Address BY DEF Separator, None, Address
  <1>2. None # Separator BY DEF Separator, None
  <1>3. \A a \in Sites : a # None BY <1>2 DEF Sites, IsPath
  <1> QED BY <1>1, <1>3 DEF Sites

(* The parts of a path, and how they make the path.                        *)
LEMMA PathParts ==
  ASSUME NEW a \in Sites, a # Separator
  PROVE  LET parts == SplitOSCAddress(a)
         IN  /\ parts.parent \in Sites /\ parts.name \in Singles /\ parts.instance \in Instances
             /\ a = Join(parts.parent, parts.name, parts.instance)
             /\ parts.property = None
  <1>1. a \in Address /\ IsPath(a) BY DEF Sites
  <1>2. PICK p \in Sites, name \in Singles, instance \in Instances : a = Join(p, name, instance)
    BY <1>1, PathJoin
  <1>3. SplitOSCAddress(a) = [parent |-> p, name |-> name, instance |-> instance, property |-> None]
    BY <1>2, JoinSplit
  <1> QED BY <1>2, <1>3

LEMMA JoinParts ==
  ASSUME NEW p \in Sites, NEW name \in Singles, NEW instance \in Instances
  PROVE  LET a == Join(p, name, instance)
         IN  /\ a \in Sites /\ a \in Address /\ a # Separator /\ IsPath(a)
             /\ ParentOf(a) = p /\ SplitOSCAddress(a).name = name
             /\ SplitOSCAddress(a).instance = instance
  BY JoinSplit, JoinPath, SiteAddress DEF ParentOf

LEMMA JoinInjective ==
  ASSUME NEW p \in Sites, NEW name \in Singles, NEW instance \in Instances,
         NEW q \in Sites, NEW word \in Singles, NEW number \in Instances,
         Join(p, name, instance) = Join(q, word, number)
  PROVE  p = q /\ name = word /\ instance = number
  <1> DEFINE a == Join(p, name, instance)
             b == Join(q, word, number)
  <1>1. /\ ParentOf(a) = p /\ SplitOSCAddress(a).name = name /\ SplitOSCAddress(a).instance = instance
        /\ ParentOf(b) = q /\ SplitOSCAddress(b).name = word /\ SplitOSCAddress(b).instance = number
    BY JoinParts
  <1>2. a = b OBVIOUS
  <1> HIDE DEF a, b
  <1> QED BY <1>1, <1>2

-----------------------------------------------------------------------------
LEMMA SeparatorIs ==
  Separator \in Address /\ Len(Separator) = 1 /\ Separator[1] = "/"
  BY DEF Separator, Address

LEMMA SiteBegins ==
  ASSUME NEW a \in Sites
  PROVE  Len(a) \in Nat /\ Len(a) >= 1 /\ a[1] = "/"
  <1>1. a \in Address /\ Len(a) \in Nat BY SiteAddress, TokensOfAddress
  <1>2. CASE a = Separator BY <1>2, SeparatorIs
  <1>3. CASE a # Separator BY <1>3, SiteAddress, <1>1 DEF IsPath, None, Address
  <1> QED BY <1>2, <1>3

LEMMA AtOrBelowIs ==
  ASSUME NEW a \in Sites, NEW b \in Sites
  PROVE  AtOrBelow(a, b) <=> (a = b \/ b = Separator \/ Under(a, b))
  BY UnderIs, SiteAddress DEF AtOrBelow

(* Nothing but the root is at or above the root; an address with one more  *)
(* level is below what its parent is at or below.                          *)
LEMMA BelowRoot ==
  ASSUME NEW b \in Sites
  PROVE  AtOrBelow(Separator, b) <=> b = Separator
  <1>1. ~ Under(Separator, b) BY SeparatorIs, SiteBegins DEF Under
  <1> QED BY <1>1, AtOrBelowIs, SiteAddress

LEMMA BelowJoin ==
  ASSUME NEW p \in Sites, NEW name \in Singles, NEW instance \in Instances, NEW b \in Sites
  PROVE  AtOrBelow(Join(p, name, instance), b) <=> Join(p, name, instance) = b \/ AtOrBelow(p, b)
  <1> DEFINE a == Join(p, name, instance)
             m == Len(Stem(p))
  <1>1. /\ a \in Address /\ m \in Nat /\ Len(a) \in Nat /\ m + 2 <= Len(a)
        /\ (\A i \in 1..m : a[i] = Stem(p)[i]) /\ a[m + 1] = "/"
    BY JoinIs
  <1>2. \A i \in 1..Len(a) : i > m + 1 => a[i] # "/" BY NoColon
  <1>3. a \in Sites BY JoinParts
  <1>4. Len(b) \in Nat /\ Len(b) >= 1 BY SiteBegins
  <1>5. ASSUME b # Separator, Under(a, b) PROVE p = b \/ Under(p, b)
    <2> HIDE DEF a, m
    <2>1. /\ Len(b) < Len(a) /\ a[Len(b) + 1] = "/"
          /\ \A i \in 1..Len(b) : a[i] = b[i]
      BY <1>5 DEF Under
    <2>2. Len(b) <= m BY <1>1, <1>4, <2>1, <1>2
    <2>3. m # 0 /\ Stem(p) = p BY <1>1, <1>4, <2>2, StemIs DEF m
    <2>4. \A i \in 1..Len(b) : p[i] = b[i] BY <1>1, <1>4, <2>2, <2>1, <2>3
    <2>5. Len(p) = m /\ p \in Address /\ b \in Address BY <2>3, SiteAddress DEF m
    <2>6. CASE Len(b) = m BY <2>4, <2>5, <2>6, SameAddress
    <2>7. CASE Len(b) # m BY <1>1, <1>4, <2>2, <2>7, <2>1, <2>3, <2>4, <2>5 DEF Under
    <2> QED BY <2>6, <2>7
  <1>6. ASSUME p # Separator PROVE Under(a, p) BY <1>6, StemIs, <1>1 DEF Under
  <1>7. ASSUME Under(p, b), p # Separator PROVE Under(a, b)
    <2>1. Under(a, p) BY <1>6, <1>7
    <2>2. Len(p) \in Nat BY SiteBegins
    <2> HIDE DEF a, m
    <2>3. Len(b) + 1 \in 1..Len(p) /\ \A i \in 1..Len(b) : i \in 1..Len(p)
      BY <1>4, <1>7, <2>2 DEF Under
    <2>4. Len(b) < Len(a) BY <1>1, <1>4, <1>7, <2>1, <2>2 DEF Under
    <2> QED BY <1>7, <2>1, <2>3, <2>4 DEF Under
  <1>8. Under(p, b) => p # Separator BY SeparatorIs, <1>4 DEF Under
  <1> HIDE DEF a
  <1>9. AtOrBelow(a, b) <=> (a = b \/ b = Separator \/ Under(a, b))
    BY <1>3, AtOrBelowIs
  <1>10. AtOrBelow(p, b) <=> (p = b \/ b = Separator \/ Under(p, b)) BY AtOrBelowIs
  <1>11. AtOrBelow(a, b) <=> (a = b \/ AtOrBelow(p, b))
    BY <1>5, <1>6, <1>7, <1>8, <1>9, <1>10
  <1> QED BY <1>11 DEF a

LEMMA BelowTransitive ==
  ASSUME NEW a \in Sites, NEW b \in Sites, NEW c \in Sites, AtOrBelow(a, b), AtOrBelow(b, c)
  PROVE  AtOrBelow(a, c)
  <1>1. (a = b \/ b = Separator \/ Under(a, b)) /\ (b = c \/ c = Separator \/ Under(b, c))
    BY AtOrBelowIs
  <1>2. Len(a) \in Nat /\ Len(b) \in Nat /\ Len(c) \in Nat /\ Len(c) >= 1
    BY SiteBegins
  <1>3. Under(b, c) => b # Separator BY <1>2, SeparatorIs DEF Under
  <1>4. ASSUME Under(a, b), Under(b, c) PROVE Under(a, c) BY <1>2, <1>4 DEF Under
  <1>5. a = c \/ c = Separator \/ Under(a, c) BY <1>1, <1>3, <1>4
  <1> QED BY <1>5, AtOrBelowIs

LEMMA BelowBoth ==
  ASSUME NEW a \in Sites, NEW b \in Sites, AtOrBelow(a, b), AtOrBelow(b, a)
  PROVE  a = b
  <1>1. (a = b \/ b = Separator \/ Under(a, b)) /\ (b = a \/ a = Separator \/ Under(b, a))
    BY AtOrBelowIs
  <1>2. Len(a) \in Nat /\ Len(b) \in Nat /\ Len(a) >= 1 /\ Len(b) >= 1 BY SiteBegins
  <1>3. (Under(b, a) => b # Separator) /\ (Under(a, b) => a # Separator)
    BY <1>2, SeparatorIs DEF Under
  <1>4. ~ (Under(a, b) /\ Under(b, a)) BY <1>2 DEF Under
  <1> QED BY <1>1, <1>3, <1>4

LEMMA BelowAll ==
  /\ \A a \in Sites : AtOrBelow(a, a) /\ AtOrBelow(a, Separator)
  /\ \A p \in Sites, name \in Singles, instance \in Instances :
       LET a == Join(p, name, instance)
       IN  AtOrBelow(a, p) /\ ~ AtOrBelow(p, a)
  <1>1. \A a \in Sites : AtOrBelow(a, a) /\ AtOrBelow(a, Separator) BY DEF AtOrBelow
  <1>2. ASSUME NEW p \in Sites, NEW name \in Singles, NEW instance \in Instances,
               NEW a, a = Join(p, name, instance)
        PROVE  AtOrBelow(a, p) /\ ~ AtOrBelow(p, a)
    <2>1. a \in Sites BY <1>2, JoinParts
    <2>2. AtOrBelow(a, p) BY <1>1, <1>2, BelowJoin
    <2>3. a # p
      <3>1. Len(a) > Len(p)
        <4>0. Len(Stem(p)) \in Nat /\ (Len(a) = Len(Stem(p)) + 2 \/ Len(a) = Len(Stem(p)) + 4)
          BY <1>2, JoinIs
        <4>1. CASE p = Separator BY <4>0, <4>1, SeparatorIs
        <4>2. CASE p # Separator BY <4>2, StemIs, <4>0
        <4> QED BY <4>1, <4>2
      <3>2. Len(p) \in Nat BY SiteBegins
      <3> QED BY <3>1, <3>2
    <2> QED BY <2>1, <2>2, <2>3, BelowBoth
  <1> QED BY <1>1, <1>2

(* How deep a path is.                                                     *)
LEMMA CountJoin ==
  ASSUME NEW p \in Sites, NEW name \in Singles, NEW instance \in Instances, p # Separator
  PROVE  CountSeparator(Join(p, name, instance)) = CountSeparator(p) + 1
  <1> DEFINE a == Join(p, name, instance)
             m == Len(p)
             I == {i \in DOMAIN p : p[i] = "/"}
             J == {i \in DOMAIN a : a[i] = "/"}
  <1>1. Stem(p) = p /\ p \in Address BY StemIs
  <1>2. /\ a \in Address /\ m \in Nat
        /\ Len(a) = (IF instance = None THEN m + 2 ELSE m + 4)
        /\ (\A i \in 1..m : a[i] = p[i]) /\ a[m + 1] = "/"
    BY <1>1, JoinIs
  <1>3. \A i \in 1..Len(a) : i > m + 1 => a[i] # "/" BY <1>1, NoColon
  <1>4. DOMAIN p = 1..m /\ DOMAIN a = 1..Len(a) BY <1>1, <1>2, TokensOfAddress
  <1>5. J = I \cup {m + 1} /\ m + 1 \notin I
    <2> HIDE DEF a, m
    <2>1. m + 1 \in 1..Len(a) /\ m + 1 \notin 1..m BY <1>2
    <2>2. \A i \in 1..Len(a) : i \in 1..m \/ i = m + 1 \/ i > m + 1 BY <1>2
    <2>3. \A i \in 1..m : i \in 1..Len(a) BY <1>2
    <2>4. \A i \in J : i \in I \cup {m + 1} BY <1>2, <1>3, <1>4, <2>2
    <2>5. \A i \in I \cup {m + 1} : i \in J BY <1>2, <1>4, <2>1, <2>3
    <2> HIDE DEF J
    <2> QED BY <1>4, <2>1, <2>4, <2>5
  <1>6. IsFiniteSet(I) /\ Cardinality(I) = CountSeparator(p)
    BY <1>1, SlashesFinite DEF CountSeparator
  <1>7. Cardinality(J) = CountSeparator(a) BY DEF CountSeparator
  <1> HIDE DEF I, J, a
  <1>8. Cardinality(J) = Cardinality(I) + 1 BY <1>5, <1>6, FS_AddElement
  <1> QED BY <1>6, <1>7, <1>8 DEF a

LEMMA CountPositive ==
  ASSUME NEW a \in Sites
  PROVE  CountSeparator(a) \in Nat /\ CountSeparator(a) >= 1
  <1>1. a \in Address /\ 1 \in DOMAIN a /\ a[1] = "/"
    BY SiteBegins, SiteAddress, TokensOfAddress
  <1>2. 1 \in {i \in DOMAIN a : a[i] = "/"} BY <1>1
  <1>3. CountSeparator(a) \in Nat /\ CountSeparator(a) # 0
    BY <1>1, <1>2, SlashesFinite DEF CountSeparator
  <1> QED BY <1>3

-----------------------------------------------------------------------------
(* The address that getOscAddress writes.                                  *)

ChildKeys == Singles \X Instances
Tables == UNION {[S -> Nat] : S \in SUBSET ChildKeys}
NodeType ==
  [name : Singles \cup {Separator}, instance : Instances, parent : Nat,
   children : Tables, live : BOOLEAN, created : Nat, destroyed : Nat]

NodesTyped(ns) ==
  /\ ns \in Seq(NodeType)
  /\ \A n \in DOMAIN ns :
       /\ ns[n].parent # 0 => ns[n].parent \in DOMAIN ns /\ ns[n].name \in Singles
       /\ \A k \in DOMAIN ns[n].children : ns[n].children[k] \in DOMAIN ns

Ranked(ns) ==
  \E D \in [DOMAIN ns -> Nat] :
    \A n \in DOMAIN ns : ns[n].parent # 0 => D[ns[n].parent] < D[n]

LEMMA JoinStem ==
  ASSUME NEW p \in Sites, NEW name \in Singles, NEW instance \in Instances, NEW stem,
         stem = IF p = Separator THEN None ELSE p
  PROVE  stem \o Separator \o WriteLevel([name |-> name, instance |-> instance])
           = Join(p, name, instance)
  BY DEF Join, Stem

LEMMA NoneAddress ==
  None \in Address
  BY DEF None, Address

LEMMA LevelAddress ==
  ASSUME NEW t \in Address, NEW name \in Singles, NEW instance \in Instances
  PROVE  t \o Separator \o WriteLevel([name |-> name, instance |-> instance]) \in Address
  <1>1. name \in Seq(Tokens)
    <2>1. PICK w \in Words : name = <<w>> BY DEF Singles
    <2>2. w \in Tokens BY WordsDistinct
    <2> QED BY <2>1, <2>2
  <1>2. instance \in Seq(Tokens)
    <2>1. CASE instance = None BY <2>1 DEF None
    <2>2. CASE instance # None
      <3>1. PICK w \in Words : instance = <<w>> BY <2>2 DEF Instances, Singles
      <3>2. w \in Tokens BY WordsDistinct
      <3> QED BY <3>1, <3>2
    <2> QED BY <2>1, <2>2
  <1>3. t \in Seq(Tokens) BY DEF Address, Tokens
  <1>4. Separator \in Seq(Tokens) /\ <<".">> \in Seq(Tokens)
    BY DEF Separator, Tokens
  <1> DEFINE tail == IF instance = None THEN None ELSE <<".">> \o instance
  <1>5. tail \in Seq(Tokens) BY <1>2, <1>4
  <1>6. WriteLevel([name |-> name, instance |-> instance]) = name \o tail
    BY DEF WriteLevel, Prefixed
  <1> HIDE DEF tail
  <1>9. name \o tail \in Seq(Tokens) BY <1>1, <1>5, ConcatProperties
  <1>7. WriteLevel([name |-> name, instance |-> instance]) \in Seq(Tokens)
    BY <1>6, <1>9, Zenon
  <1>8. t \o Separator \o WriteLevel([name |-> name, instance |-> instance]) \in Seq(Tokens)
    BY <1>3, <1>4, <1>7
  <1> QED BY <1>8 DEF Address, Tokens

(* The address of a node: the root's, or one level below its parent's.     *)
LEMMA TextIs ==
  ASSUME NEW ns, NodesTyped(ns), Ranked(ns)
  PROVE  \A n \in DOMAIN ns :
           /\ OscAddressIn(ns, n) \in Sites
           /\ ns[n].parent = 0 => OscAddressIn(ns, n) = Separator
           /\ ns[n].parent # 0 =>
                OscAddressIn(ns, n)
                  = Join(OscAddressIn(ns, ns[n].parent), ns[n].name, ns[n].instance)
  <1> DEFINE S == DOMAIN ns
             Level2(m) == WriteLevel([name |-> ns[m].name, instance |-> ns[m].instance])
             Is(g) == g = [m \in DOMAIN ns |->
               LET p == ns[m].parent
               IN  IF p = 0 THEN Separator
                   ELSE (IF ns[p].parent = 0 THEN None ELSE g[p]) \o Separator
                        \o WriteLevel([name |-> ns[m].name, instance |-> ns[m].instance])]
  <1>1. \A n : OscAddressIn(ns, n) = (CHOOSE g : Is(g))[n] BY Zenon DEF OscAddressIn
  <1>2. PICK M \in [S -> Nat] : \A n \in S : ns[n].parent # 0 => M[ns[n].parent] < M[n]
    BY DEF Ranked
  <1>3. \A n \in S : ns[n] \in NodeType BY DEF NodesTyped
  <1>4. \A n \in S : ns[n].parent # 0 => ns[n].parent \in S /\ ns[n].name \in Singles
                                         /\ ns[n].instance \in Instances
    BY <1>3 DEF NodesTyped, NodeType
  <1> DEFINE C == {n \in S : ns[n].parent # 0}
             N == [n \in C |-> ns[n].parent]
             P(n, t) == (IF ns[ns[n].parent].parent = 0 THEN None ELSE t) \o Separator
                        \o WriteLevel([name |-> ns[n].name, instance |-> ns[n].instance])
             T == Address
             H == [n \in C |-> [t \in T |-> P(n, t)]]
             B == [n \in S |-> Separator]
  <1>5. \A n \in C : \A t \in T : P(n, t) \in T
    <2> TAKE n \in C
    <2> TAKE t \in T
    <2> QED BY <1>4, LevelAddress, SiteAddress, NoneAddress
  <1>6. M \in [S -> Nat] /\ C \in SUBSET S /\ B \in [S -> T] /\ H \in [C -> [T -> T]]
    BY <1>2, <1>5, SeparatorIs
  <1>7. N \in [C -> S] /\ \A x \in C : M[N[x]] < M[x] BY <1>2, <1>4
  <1> DEFINE Rec(g) == \A x \in S : g[x] = IF x \in C THEN H[x][g[N[x]]] ELSE B[x]
  <1>8. PICK g \in [S -> T] : Rec(g)
    <2> HIDE DEF S, T, C, N, H, B, Is, Rec
    <2>1. Descends(S, T, M, C, N, H, B) BY <1>6, <1>7 DEF Descends
    <2>2. PICK g : Recurs(g, S, T, C, N, H, B) BY <2>1, Recursion
    <2> QED BY <2>2 DEF Recurs, Rec
  <1> DEFINE Turn(h, x) == IF ns[x].parent = 0 THEN Separator ELSE P(x, h[ns[x].parent])
  <1>9. \A x \in S : g[x] = Turn(g, x)
    <2> TAKE x \in S
    <2>1. CASE ns[x].parent = 0 BY <1>8, <2>1, Zenon
    <2>2. CASE ns[x].parent # 0
      <3>1. x \in C /\ N[x] = ns[x].parent /\ g[N[x]] \in T
        BY <1>4, <1>8, <2>2, Zenon
      <3>2. H[x][g[N[x]]] = P(x, g[N[x]]) BY <3>1
      <3> HIDE DEF P, H, C, N
      <3> QED BY <1>8, <2>2, <3>1, <3>2
    <2> QED BY <2>1, <2>2
  <1>10. Is(g)
    <2>1. g = [x \in S |-> Turn(g, x)] BY <1>8, <1>9
    <2> QED BY <2>1, Zenon
  <1> DEFINE f == CHOOSE h : Is(h)
  <1>11. Is(f) BY <1>10
  <1>12. \A x \in S : f[x] = Turn(f, x) BY <1>11 DEF P
  <1> HIDE DEF f, Is
  <1> DEFINE Fits(x) == f[x] \in Sites /\ (f[x] = Separator <=> ns[x].parent = 0)
  <1>13. ASSUME NEW x \in S, ns[x].parent # 0, Fits(ns[x].parent)
         PROVE  f[x] = Join(f[ns[x].parent], ns[x].name, ns[x].instance)
    <2> DEFINE p == ns[x].parent
    <2>1. f[x] = P(x, f[p]) BY <1>12, <1>13
    <2>2. (IF ns[p].parent = 0 THEN None ELSE f[p]) = IF f[p] = Separator THEN None ELSE f[p]
      BY <1>13
    <2>3. ns[x].parent \in S /\ ns[x].name \in Singles /\ ns[x].instance \in Instances
      BY <1>4, <1>13
    <2>4. f[p] \in Sites BY <1>13
    <2> DEFINE stem == IF ns[p].parent = 0 THEN None ELSE f[p]
    <2>5. stem = IF f[p] = Separator THEN None ELSE f[p] BY <2>2
    <2>6. f[x] = stem \o Separator
                 \o WriteLevel([name |-> ns[x].name, instance |-> ns[x].instance])
      BY <2>1
    <2> HIDE DEF stem, p
    <2>7. stem \o Separator \o WriteLevel([name |-> ns[x].name, instance |-> ns[x].instance])
            = Join(f[p], ns[x].name, ns[x].instance)
      BY <2>3, <2>4, <2>5, JoinStem
    <2> QED BY <2>6, <2>7 DEF p
  <1>14. \A x \in S : Fits(x)
    <2> DEFINE D == {M[x] : x \in {x \in S : ~ Fits(x)}}
    <2> SUFFICES ASSUME D # {} PROVE FALSE OBVIOUS
    <2> HIDE DEF Fits, Turn
    <2>2. PICK d \in D : \A e \in D : d <= e BY <1>2, Least
    <2>3. PICK x \in S : ~ Fits(x) /\ d = M[x] OBVIOUS
    <2>4. CASE ns[x].parent = 0 BY <1>12, <2>4, <2>3, SiteAddress DEF Turn, Fits
    <2>5. CASE ns[x].parent # 0
      <3> DEFINE p == ns[x].parent
      <3>1. p \in S /\ M[p] < M[x] /\ M[x] \in Nat /\ M[p] \in Nat
        BY <1>2, <1>4, <2>5
      <3>2. M[p] \notin D
        <4> HIDE DEF D, S, p
        <4> QED BY <2>2, <2>3, <3>1
      <3>3. Fits(p) BY <3>1, <3>2
      <3>4. f[x] = Join(f[p], ns[x].name, ns[x].instance) BY <1>13, <2>5, <3>3
      <3>5. Fits(x) BY <1>4, <2>5, <3>3, <3>4, JoinParts DEF Fits
      <3> QED BY <2>3, <3>5
    <2> QED BY <2>4, <2>5
  <1>15. \A x \in S : ns[x].parent = 0 => f[x] = Separator BY <1>12
  <1>16. \A n \in S : OscAddressIn(ns, n) = f[n] BY <1>1 DEF f
  <1> HIDE DEF f
  <1>17. ASSUME NEW n \in S, ns[n].parent # 0
         PROVE  OscAddressIn(ns, n)
                  = Join(OscAddressIn(ns, ns[n].parent), ns[n].name, ns[n].instance)
    BY <1>4, <1>14, <1>17, <1>13, <1>16
  <1> QED BY <1>14, <1>15, <1>16, <1>17

(* The addresses stay where neither a node nor what is above it changes.   *)
LEMMA SameText ==
  ASSUME NEW ns, NodesTyped(ns), Ranked(ns), NEW ms, NodesTyped(ms), Ranked(ms),
         NEW L, L \subseteq DOMAIN ns, L \subseteq DOMAIN ms,
         \A n \in L :
           /\ ms[n].parent = ns[n].parent
           /\ ns[n].parent # 0 => ns[n].parent \in L /\ ms[n].name = ns[n].name
                                  /\ ms[n].instance = ns[n].instance
  PROVE  \A n \in L : OscAddressIn(ms, n) = OscAddressIn(ns, n)
  <1> DEFINE Fits(n) == OscAddressIn(ms, n) = OscAddressIn(ns, n)
  <1>1. PICK M \in [DOMAIN ns -> Nat] : \A n \in DOMAIN ns : ns[n].parent # 0 => M[ns[n].parent] < M[n]
    BY DEF Ranked
  <1> DEFINE D == {M[x] : x \in {x \in L : ~ Fits(x)}}
  <1> SUFFICES ASSUME D # {} PROVE FALSE OBVIOUS
  <1> HIDE DEF Fits
  <1>2. PICK d \in D : \A e \in D : d <= e
    <2>1. D \in SUBSET Nat BY <1>1
    <2> HIDE DEF D
    <2> QED BY <2>1, Least
  <1>3. PICK n \in L : ~ Fits(n) /\ d = M[n] OBVIOUS
  <1>4. CASE ns[n].parent = 0 BY <1>4, TextIs, <1>3 DEF Fits
  <1>5. CASE ns[n].parent # 0
    <2> DEFINE p == ns[n].parent
    <2>1. p \in L /\ M[p] < M[n] /\ M[n] \in Nat /\ M[p] \in Nat BY <1>1, <1>5
    <2>2. M[p] \notin D
      <3> HIDE DEF D, p
      <3> QED BY <1>2, <1>3, <2>1
    <2>3. Fits(p) BY <2>1, <2>2
    <2>4. /\ OscAddressIn(ns, n) = Join(OscAddressIn(ns, p), ns[n].name, ns[n].instance)
          /\ OscAddressIn(ms, n) = Join(OscAddressIn(ms, p), ns[n].name, ns[n].instance)
      BY <1>5, TextIs
    <2> QED BY <1>3, <2>3, <2>4 DEF Fits
  <1> QED BY <1>4, <1>5

-----------------------------------------------------------------------------
(* The tables of children, and the instance that is free in one.           *)

(* Tables: an entry put in and one taken out.                              *)
LEMMA TableIs ==
  ASSUME NEW t
  PROVE  /\ t \in Tables => DOMAIN t \subseteq ChildKeys /\ \A k \in DOMAIN t : t[k] \in Nat
         /\ \A S \in SUBSET ChildKeys : t \in [S -> Nat] => t \in Tables
  BY DEF Tables

LEMMA EmptyTableIs ==
  EmptyTable \in Tables /\ DOMAIN EmptyTable = {}
  <1>1. EmptyTable = [x \in {} |-> 0] BY DEF EmptyTable
  <1>2. EmptyTable \in [{} -> Nat] BY <1>1
  <1> QED BY <1>2, TableIs

LEMMA TablePut ==
  ASSUME NEW t, NEW k, NEW n
  PROVE  /\ DOMAIN With(t, k, n) = DOMAIN t \cup {k}
         /\ \A x \in DOMAIN t : With(t, k, n)[x] = t[x]
         /\ k \notin DOMAIN t => With(t, k, n)[k] = n
         /\ t \in Tables /\ k \in ChildKeys /\ n \in Nat => With(t, k, n) \in Tables
  <1> DEFINE r == With(t, k, n)
             S == DOMAIN t \cup {k}
  <1>1. /\ DOMAIN r = S
        /\ \A x \in DOMAIN t : r[x] = t[x]
        /\ k \notin DOMAIN t => r[k] = n
        /\ r = [x \in S |-> r[x]]
    BY DEF With
  <1> HIDE DEF r
  <1>2. ASSUME t \in Tables, k \in ChildKeys, n \in Nat PROVE r \in Tables
    BY <1>1, <1>2, TableIs
  <1> QED BY <1>1, <1>2 DEF r

LEMMA TableCut ==
  ASSUME NEW t, NEW k
  PROVE  /\ DOMAIN Without(t, k) = DOMAIN t \ {k}
         /\ \A x \in DOMAIN t : x # k => Without(t, k)[x] = t[x]
         /\ t \in Tables => Without(t, k) \in Tables
  <1> DEFINE r == Without(t, k)
             S == DOMAIN t \ {k}
  <1>1. /\ DOMAIN r = S
        /\ \A x \in S : r[x] = t[x]
        /\ r = [x \in S |-> r[x]]
    BY DEF Without, Pick
  <1> HIDE DEF r
  <1>2. ASSUME t \in Tables PROVE r \in Tables BY <1>1, <1>2, TableIs
  <1> QED BY <1>1, <1>2 DEF r

LEMMA Intervals ==
  ASSUME NEW m \in Nat \ {0}, NEW n \in Nat, m <= n
  PROVE  IsFiniteSet(1..n) /\ IsFiniteSet(2..m) /\ Cardinality(2..m) < Cardinality(1..n)
  <1>1. IsFiniteSet(1..n) /\ Cardinality(1..n) = n BY FS_Interval
  <1>2. IsFiniteSet(2..m) /\ Cardinality(2..m) = m - 1 BY FS_Interval
  <1> QED BY <1>1, <1>2

(* Whatever a table maps to other nodes, there is a number left.           *)
LEMMA FreeInstance ==
  ASSUME NEW ns, NEW p, NEW name \in Singles, Len(ns) \in Nat \ {0},
         Len(ns) <= Len(Numerals),
         DOMAIN ns[p].children \subseteq ChildKeys,
         \A k \in DOMAIN ns[p].children : ns[p].children[k] \in 2..Len(ns),
         \A k, l \in DOMAIN ns[p].children :
           ns[p].children[k] = ns[p].children[l] => k = l
  PROVE  LET instance == GenerateInstance(ns, p, name)
         IN  /\ instance \in Singles /\ instance \in Instances
             /\ instance \in {<<Numerals[i]>> : i \in DOMAIN Numerals}
             /\ <<name, instance>> \notin DOMAIN ns[p].children
  <1> DEFINE t == ns[p].children
             N == DOMAIN Numerals
             free == {i \in N : <<name, <<Numerals[i]>>>> \notin DOMAIN t}
             f == [i \in N |-> t[<<name, <<Numerals[i]>>>>]]
  <1>1. Numerals \in Seq(Words) /\ IsInjective(Numerals) BY NodeDirectoryAssumption
  <1>2. N = 1..Len(Numerals) /\ Len(Numerals) \in Nat /\ \A i \in N : Numerals[i] \in Words
    BY <1>1, LenProperties, ElementOfSeq
  <1>3. \A i, j \in N : Numerals[i] = Numerals[j] => i = j BY <1>1 DEF IsInjective
  <1>4. free # {}
    <2> SUFFICES ASSUME free = {} PROVE FALSE OBVIOUS
    <2>1. \A i \in N : <<name, <<Numerals[i]>>>> \in DOMAIN t OBVIOUS
    <2> DEFINE T == 2..Len(ns)
    <2>2. f \in [N -> T] BY <2>1
    <2>3. N = 1..Len(Numerals) BY <1>2
    <2> DEFINE n == Len(Numerals)
               m == Len(ns)
    <2>4. IsFiniteSet(N) /\ IsFiniteSet(T) /\ Cardinality(T) < Cardinality(N)
      BY <1>2, <2>3, Intervals DEF m, n
    <2>5. PICK i \in N, j \in N : i # j /\ f[i] = f[j]
      <3> HIDE DEF N, T, f
      <3> QED BY <2>2, <2>3, <2>4, FS_PigeonHole
    <2>6. <<name, <<Numerals[i]>>>> = <<name, <<Numerals[j]>>>> BY <2>1, <2>5
    <2>7. Numerals[i] = Numerals[j] BY <2>6
    <2> QED BY <1>3, <2>5, <2>7
  <1>5. Min(free) \in free
    <2>1. free \in SUBSET Nat BY <1>2
    <2> HIDE DEF free
    <2>2. \E x \in free : \A y \in free : x <= y BY <1>4, <2>1, Least
    <2> QED BY <2>2 DEF Min
  <1>6. GenerateInstance(ns, p, name) = <<Numerals[Min(free)]>>
    BY DEF GenerateInstance
  <1> DEFINE m == Min(free)
  <1>7. m \in N /\ <<name, <<Numerals[m]>>>> \notin DOMAIN t BY <1>5
  <1>8. GenerateInstance(ns, p, name) = <<Numerals[m]>> BY <1>6
  <1> HIDE DEF m, free, f
  <1> QED BY <1>2, <1>7, <1>8 DEF Singles, Instances

-----------------------------------------------------------------------------
(* mergeOSCAddress, lists and stacks.                                      *)

(* mergeOSCAddress without a property adds one level.                      *)
LEMMA SuffixAddress ==
  ASSUME NEW name \in Singles, NEW instance \in Instances
  PROVE  /\ name \in Seq(Tokens)
         /\ Prefixed(<<".">>, instance) \in Seq(Tokens)
  <1>1. name \in Seq(Tokens)
    <2>1. PICK w \in Words : name = <<w>> BY DEF Singles
    <2>2. w \in Tokens BY WordsDistinct
    <2> QED BY <2>1, <2>2
  <1>2. instance \in Seq(Tokens)
    <2>1. CASE instance = None BY <2>1 DEF None
    <2>2. CASE instance # None
      <3>1. PICK w \in Words : instance = <<w>> BY <2>2 DEF Instances, Singles
      <3>2. w \in Tokens BY WordsDistinct
      <3> QED BY <3>1, <3>2
    <2> QED BY <2>1, <2>2
  <1>3. <<".">> \in Seq(Tokens) /\ None \in Seq(Tokens) BY DEF Tokens, None
  <1>4. <<".">> \o instance \in Seq(Tokens) BY <1>2, <1>3, ConcatProperties
  <1> QED BY <1>1, <1>3, <1>4 DEF Prefixed

LEMMA Associative ==
  ASSUME NEW a \in Seq(Tokens), NEW b \in Seq(Tokens), NEW c \in Seq(Tokens)
  PROVE  (a \o b) \o c = a \o (b \o c)
  BY ConcatAssociative

LEMMA MergeIsJoin ==
  ASSUME NEW p \in Sites, NEW name \in Singles, NEW instance \in Instances
  PROVE  MergeOSCAddress(p, name, instance, None) = Join(p, name, instance)
  <1> DEFINE z == Prefixed(<<".">>, instance)
  <1>1. name \in Seq(Tokens) /\ z \in Seq(Tokens) BY SuffixAddress
  <1>2. p \in Seq(Tokens) /\ Separator \in Seq(Tokens) /\ None \in Seq(Tokens)
    BY SiteAddress DEF Address, Tokens, Separator, None
  <1>3. name # Separator /\ name # None
    BY WordsDistinct DEF Singles, Separator, None
  <1>4. WriteLevel([name |-> name, instance |-> instance]) = name \o z
    BY DEF WriteLevel
  <1>5. Prefixed(<<":">>, None) = None BY DEF Prefixed
  <1>6. Prefixed(IF name = Separator \/ p = Separator THEN None ELSE Separator, name)
          = IF p = Separator THEN name ELSE Separator \o name
    BY <1>1, ConcatEmptySeq, <1>3 DEF None, Prefixed
  <1> DEFINE y == IF p = Separator THEN name ELSE Separator \o name
  <1>7. MergeOSCAddress(p, name, instance, None) = p \o y \o z \o None
    BY <1>5, <1>6 DEF MergeOSCAddress
  <1>8. Join(p, name, instance) = (IF p = Separator THEN None ELSE p) \o Separator \o (name \o z)
    BY <1>4 DEF Join, Stem
  <1> HIDE DEF z
  <1>9. CASE p = Separator
    <2>1. y = name BY <1>9
    <2> HIDE DEF y
    <2>2. Separator \o name \in Seq(Tokens) /\ Separator \o name \o z \in Seq(Tokens)
      BY <1>1, <1>2, ConcatProperties
    <2>3. p \o y \o z \o None = Separator \o name \o z
      BY <1>9, <2>1, <2>2, ConcatEmptySeq DEF None
    <2>4. None \o Separator = Separator BY <1>2, ConcatEmptySeq DEF None
    <2>5. Join(p, name, instance) = Separator \o (name \o z) BY <1>8, <1>9, <2>4
    <2>6. Separator \o (name \o z) = Separator \o name \o z
      BY <1>1, <1>2, Associative, Zenon
    <2> QED BY <1>7, <2>3, <2>5, <2>6
  <1>10. CASE p # Separator
    <2>1. y = Separator \o name BY <1>10
    <2> HIDE DEF y
    <2>2. Separator \o name \in Seq(Tokens) BY <1>1, <1>2, ConcatProperties
    <2>3. p \o Separator \in Seq(Tokens) /\ p \o (Separator \o name) \in Seq(Tokens)
      BY <1>1, <1>2, <2>2, ConcatProperties
    <2>4. p \o (Separator \o name) \o z \in Seq(Tokens)
      BY <1>1, <2>3, ConcatProperties
    <2>5. p \o y \o z \o None = p \o (Separator \o name) \o z
      BY <2>1, <2>4, ConcatEmptySeq DEF None
    <2>6. p \o (Separator \o name) = p \o Separator \o name
      BY <1>1, <1>2, Associative, Zenon
    <2>7. p \o Separator \o (name \o z) = p \o Separator \o name \o z
      BY <1>1, <2>3, Associative, Zenon
    <2>8. Join(p, name, instance) = p \o Separator \o (name \o z) BY <1>8, <1>10
    <2> QED BY <1>7, <2>5, <2>6, <2>7, <2>8
  <1> QED BY <1>9, <1>10

(* What RemoveFirst leaves of a list of several.                           *)
LEMMA ListRemoved ==
  ASSUME NEW S, NEW s \in Seq(S), NEW w, w \in Range(s), Len(s) # 1
  PROVE  RemoveFirst(s, w) \in Seq(S) \ {<<>>}
  <1> DEFINE n == Len(s)
             I == {i \in 1..n : s[i] = w}
             at == SelectInSeq(s, LAMBDA v : v = w)
  <1>1. n \in Nat /\ DOMAIN s = 1..n /\ \A i \in 1..n : s[i] \in S
    BY LenProperties, ElementOfSeq
  <1>2. PICK i \in 1..n : s[i] = w BY <1>1 DEF Range
  <1>3. at = Min(I) BY <1>2 DEF SelectInSeq
  <1>4. at \in 1..n
    <2>1. I \in SUBSET Nat /\ I # {} BY <1>1, <1>2
    <2>2. \E x \in I : \A y \in I : x <= y BY <2>1, Least
    <2>3. Min(I) \in I BY <2>2 DEF Min
    <2> QED BY <1>3, <2>3
  <1>5. RemoveFirst(s, w) = SubSeq(s, 1, at - 1) \o SubSeq(s, at + 1, n)
    BY <1>2 DEF RemoveFirst, RemoveAt
  <1> HIDE DEF at, I
  <1> DEFINE x == SubSeq(s, 1, at - 1)
             y == SubSeq(s, at + 1, n)
  <1>6. x \in Seq(S) /\ Len(x) = IF 1 <= at - 1 THEN at - 1 - 1 + 1 ELSE 0
    BY <1>1, <1>4, SubSeqProperties
  <1>7. y \in Seq(S) /\ Len(y) = IF at + 1 <= n THEN n - (at + 1) + 1 ELSE 0
    BY <1>1, <1>4, SubSeqProperties
  <1> HIDE DEF x, y
  <1>8. x \o y \in Seq(S) /\ Len(x \o y) = Len(x) + Len(y)
    BY <1>6, <1>7, ConcatProperties
  <1>9. Len(x \o y) # 0
    <2>1. n # 1 OBVIOUS
    <2> HIDE DEF n
    <2>2. Len(x) = at - 1 /\ Len(y) = n - at BY <1>1, <1>4, <1>6, <1>7
    <2>3. at - 1 + (n - at) # 0 BY <1>1, <1>4, <2>1
    <2> QED BY <1>8, <2>2, <2>3
  <1>10. x \o y # <<>> BY <1>8, <1>9, EmptySeq
  <1> QED BY <1>5, <1>8, <1>10 DEF x, y

(* The calls in progress as a stack.                                       *)
Pushed(s, x) == <<x>> \o s

LEMMA Push ==
  ASSUME NEW S, NEW s \in Seq(S), NEW x \in S
  PROVE  LET r == Pushed(s, x)
         IN  /\ r \in Seq(S) /\ r # <<>> /\ Len(r) = Len(s) + 1 /\ Len(s) \in Nat
             /\ DOMAIN s = 1..Len(s) /\ DOMAIN r = 1..Len(s) + 1 /\ r[1] = x
             /\ \A i \in 1..Len(s) : r[i + 1] = s[i]
             /\ Range(r) = {x} \cup Range(s)
  <1>1. <<x>> \in Seq(S) /\ Len(<<x>>) = 1 /\ <<x>>[1] = x OBVIOUS
  <1> DEFINE r == <<x>> \o s
  <1>2. /\ r \in Seq(S) /\ Len(r) = 1 + Len(s)
        /\ \A i \in 1..1 + Len(s) : r[i] = IF i <= 1 THEN <<x>>[i] ELSE s[i - 1]
    BY <1>1, ConcatProperties
  <1>3. Len(s) \in Nat /\ DOMAIN s = 1..Len(s) BY LenProperties
  <1>4. DOMAIN r = 1..Len(s) + 1 BY <1>2, <1>3, LenProperties
  <1> HIDE DEF r
  <1>5. r # <<>> BY <1>2, <1>3
  <1>6. r[1] = x BY <1>1, <1>2, <1>3
  <1>7. \A i \in 1..Len(s) : r[i + 1] = s[i] BY <1>2, <1>3
  <1>10. Range(r) = {x} \cup Range(s)
    <2>1. \A i \in 1..Len(s) : i + 1 \in 1..Len(s) + 1 BY <1>3
    <2>2. \A i \in 1..Len(s) + 1 : i = 1 \/ (i - 1 \in 1..Len(s) /\ r[i] = s[i - 1])
      BY <1>2, <1>3
    <2>3. 1 \in 1..Len(s) + 1 BY <1>3
    <2> QED BY <1>3, <1>4, <1>6, <1>7, <2>1, <2>2, <2>3 DEF Range
  <1> QED BY <1>2, <1>3, <1>4, <1>5, <1>6, <1>7, <1>10 DEF r, Pushed

LEMMA PushTop ==
  ASSUME NEW S, NEW s \in Seq(S), NEW x \in S
  PROVE  Head(Pushed(s, x)) = x /\ Tail(Pushed(s, x)) = s
  <1> DEFINE r == Pushed(s, x)
  <1>1. /\ r \in Seq(S) /\ r # <<>> /\ Len(r) = Len(s) + 1 /\ Len(s) \in Nat
        /\ r[1] = x /\ \A i \in 1..Len(s) : r[i + 1] = s[i]
    BY Push
  <1> HIDE DEF r
  <1>2. Head(r) = r[1] BY <1>1
  <1>3. Tail(r) = s
    <2>1. /\ Tail(r) \in Seq(S) /\ Len(Tail(r)) = Len(r) - 1
          /\ \A i \in 1..Len(Tail(r)) : Tail(r)[i] = r[i + 1]
      BY <1>1, HeadTailProperties
    <2> DEFINE u == Tail(r)
    <2>2. u \in Seq(S) /\ Len(u) = Len(s) /\ \A i \in 1..Len(s) : u[i] = s[i]
      BY <1>1, <2>1
    <2> HIDE DEF u
    <2>3. u = s BY <2>2, SeqEqual
    <2> QED BY <2>3 DEF u
  <1> QED BY <1>1, <1>2, <1>3 DEF r

LEMMA PushedAs ==
  ASSUME NEW S, NEW s \in Seq(S), NEW u \in Seq(S), NEW x \in S,
         Len(s) = Len(u) + 1, s[1] = x, \A i \in 1..Len(u) : s[i + 1] = u[i]
  PROVE  s = Pushed(u, x)
  <1> DEFINE r == Pushed(u, x)
  <1>1. /\ r \in Seq(S) /\ Len(r) = Len(u) + 1 /\ Len(u) \in Nat /\ r[1] = x
        /\ \A i \in 1..Len(u) : r[i + 1] = u[i]
    BY Push
  <1> HIDE DEF r
  <1>2. \A i \in 1..Len(s) : s[i] = r[i]
    <2> TAKE i \in 1..Len(s)
    <2>1. CASE i = 1 BY <1>1, <2>1
    <2>2. CASE i # 1
      <3>1. i - 1 \in 1..Len(u) /\ (i - 1) + 1 = i BY <1>1, <2>2
      <3> QED BY <1>1, <3>1
    <2> QED BY <2>1, <2>2
  <1>3. s = r BY <1>1, <1>2, SeqEqual
  <1> QED BY <1>3 DEF r

LEMMA Pop ==
  ASSUME NEW S, NEW s \in Seq(S), s # <<>>
  PROVE  /\ Tail(s) \in Seq(S) /\ Len(s) \in Nat \ {0}
         /\ DOMAIN s = 1..Len(s) /\ Head(s) = s[1] /\ Head(s) \in S
         /\ Len(Tail(s)) = Len(s) - 1 /\ DOMAIN Tail(s) = 1..Len(s) - 1
         /\ \A i \in 1..Len(s) - 1 : Tail(s)[i] = s[i + 1]
         /\ s = Pushed(Tail(s), Head(s))
         /\ Range(s) = {Head(s)} \cup Range(Tail(s))
  <1>1. Len(s) \in Nat \ {0} /\ DOMAIN s = 1..Len(s) /\ Head(s) = s[1]
    BY EmptySeq, LenProperties
  <1>2. PICK u \in Seq(S) : /\ u = Tail(s) /\ Len(u) = Len(s) - 1
                            /\ \A i \in 1..Len(u) : u[i] = s[i + 1]
    BY HeadTailProperties
  <1>3. PICK x \in S : x = Head(s) /\ x = s[1] BY <1>1, HeadTailProperties
  <1>4. s = Pushed(u, x)
    <2>1. Len(u) \in Nat BY LenProperties
    <2>2. Len(s) = Len(u) + 1 /\ s[1] = x /\ \A i \in 1..Len(u) : s[i + 1] = u[i]
      BY <1>1, <1>2, <1>3
    <2> QED BY <2>2, PushedAs
  <1>5. Range(s) = {x} \cup Range(u) BY <1>4, Push
  <1>6. DOMAIN u = 1..Len(s) - 1 /\ Len(u) = Len(s) - 1 BY <1>2, LenProperties
  <1>7. \A i \in 1..Len(s) - 1 : u[i] = s[i + 1] BY <1>2, <1>6
  <1> QED BY <1>1, <1>2, <1>3, <1>4, <1>5, <1>6, <1>7

-----------------------------------------------------------------------------
(* The tree of nodes.                                                      *)

Linked(ns) == {n \in DOMAIN ns : ns[n].live /\ ns[n].created = 1}
Pending(ns) == {n \in DOMAIN ns : ns[n].live /\ ns[n].created = 0}
HandedIn(d) == {d[a] : a \in DOMAIN d}

(* A node is in the table of its parent; what a table has is its node's.   *)
Held(ns, n) ==
  LET p == ns[n].parent
  IN  /\ p \in Linked(ns)
      /\ ChildKey(ns, n) \in DOMAIN ns[p].children
      /\ ns[p].children[ChildKey(ns, n)] = n

Holds(ns, p, k) ==
  LET c == ns[p].children[k]
  IN  c \in Linked(ns) \ {Root} /\ ns[c].parent = p /\ ChildKey(ns, c) = k

TreeOK(ns) ==
  /\ NodesTyped(ns) /\ Ranked(ns)
  /\ Root \in Linked(ns) /\ ns[Root].parent = 0
  /\ \A n \in DOMAIN ns :
       /\ ns[n].created \in {0, 1}
       /\ n # Root => ns[n].name \in Singles
       /\ ns[n].created = 0 => ns[n].live /\ DOMAIN ns[n].children = {}
       /\ ns[n].parent # 0 => ns[ns[n].parent].created = 1
       /\ n \in Linked(ns) \ {Root} => Held(ns, n)
  /\ \A p \in DOMAIN ns : \A k \in DOMAIN ns[p].children : Holds(ns, p, k)

LEMMA NodeIs ==
  ASSUME NEW r \in NodeType
  PROVE  /\ r.name \in Singles \cup {Separator} /\ r.instance \in Instances
         /\ r.parent \in Nat /\ r.children \in Tables /\ r.live \in BOOLEAN
         /\ r.created \in Nat /\ r.destroyed \in Nat
         /\ DOMAIN r.children \subseteq ChildKeys
  BY TableIs DEF NodeType

LEMMA TreeIs ==
  ASSUME NEW ns, TreeOK(ns)
  PROVE  /\ ns \in Seq(NodeType) /\ Len(ns) \in Nat \ {0} /\ DOMAIN ns = 1..Len(ns)
         /\ \A n \in DOMAIN ns :
              /\ ns[n] \in NodeType
              /\ ns[n].instance \in Instances /\ ns[n].live \in BOOLEAN
              /\ ns[n].parent \in Nat
              /\ ns[n].parent # 0 => ns[n].parent \in DOMAIN ns
              /\ ns[n].created \in {0, 1}
              /\ n # Root => ns[n].name \in Singles /\ ChildKey(ns, n) \in ChildKeys
              /\ DOMAIN ns[n].children \subseteq ChildKeys
         /\ Linked(ns) \subseteq DOMAIN ns /\ Root \in Linked(ns)
         /\ \A n \in Linked(ns) \ {Root} : Held(ns, n) /\ ns[n].parent # 0
         /\ \A p \in DOMAIN ns : \A k \in DOMAIN ns[p].children : Holds(ns, p, k)
         /\ Pending(ns) \subseteq DOMAIN ns /\ Pending(ns) \cap Linked(ns) = {}
         /\ \A n \in Pending(ns) : DOMAIN ns[n].children = {} /\ n # Root
  <1>1. ns \in Seq(NodeType) BY DEF TreeOK, NodesTyped
  <1>2. Len(ns) \in Nat /\ DOMAIN ns = 1..Len(ns) /\ \A n \in DOMAIN ns : ns[n] \in NodeType
    BY <1>1, LenProperties, ElementOfSeq
  <1>3. Root \in Linked(ns) /\ Root \in DOMAIN ns BY DEF TreeOK, Linked
  <1>4. Len(ns) # 0 BY <1>2, <1>3 DEF Root
  <1>5. \A n \in DOMAIN ns :
          /\ ns[n].created \in {0, 1}
          /\ n # Root => ns[n].name \in Singles
          /\ ns[n].created = 0 => ns[n].live /\ DOMAIN ns[n].children = {}
          /\ n \in Linked(ns) \ {Root} => Held(ns, n)
          /\ ns[n].parent # 0 => ns[n].parent \in DOMAIN ns
    BY DEF TreeOK, NodesTyped
  <1>6. \A p \in DOMAIN ns : \A k \in DOMAIN ns[p].children : Holds(ns, p, k)
    BY DEF TreeOK
  <1>7. ASSUME NEW n \in DOMAIN ns
        PROVE  /\ ns[n].instance \in Instances /\ ns[n].live \in BOOLEAN
               /\ ns[n].parent \in Nat
               /\ DOMAIN ns[n].children \subseteq ChildKeys
               /\ n # Root => ChildKey(ns, n) \in ChildKeys
    BY <1>2, NodeIs, <1>5 DEF ChildKey, ChildKeys
  <1>8. Linked(ns) \subseteq DOMAIN ns /\ Pending(ns) \subseteq DOMAIN ns
        /\ Pending(ns) \cap Linked(ns) = {}
    BY DEF Linked, Pending
  <1>9. \A n \in Linked(ns) \ {Root} : Held(ns, n) /\ ns[n].parent # 0
    <2> TAKE n \in Linked(ns) \ {Root}
    <2>1. Held(ns, n) BY <1>5, <1>8
    <2>2. ns[n].parent \in 1..Len(ns) BY <1>2, <1>8, <2>1 DEF Held
    <2>3. ns[n].parent # 0 BY <1>2, <2>2
    <2> QED BY <2>1, <2>3
  <1>10. \A n \in Pending(ns) : DOMAIN ns[n].children = {} /\ n # Root
    BY <1>3, <1>5, <1>8 DEF Pending
  <1> QED BY <1>1, <1>2, <1>3, <1>4, <1>5, <1>6, <1>7, <1>8, <1>9, <1>10

(* The addresses of the nodes of the tree.                                 *)
LEMMA AdrIs ==
  ASSUME NEW ns, TreeOK(ns), NEW n \in Linked(ns)
  PROVE  /\ OscAddressIn(ns, n) \in Sites
         /\ OscAddressIn(ns, n) = Separator <=> n = Root
         /\ n # Root =>
              LET p == ns[n].parent
              IN  /\ p \in Linked(ns) /\ n \in DOMAIN ns
                  /\ OscAddressIn(ns, p) \in Sites
                  /\ ns[n].name \in Singles /\ ns[n].instance \in Instances
                  /\ OscAddressIn(ns, n)
                       = Join(OscAddressIn(ns, p), ns[n].name, ns[n].instance)
                  /\ ParentOf(OscAddressIn(ns, n)) = OscAddressIn(ns, p)
                  /\ SplitOSCAddress(OscAddressIn(ns, n)).name = ns[n].name
                  /\ SplitOSCAddress(OscAddressIn(ns, n)).instance = ns[n].instance
  <1>1. n \in DOMAIN ns /\ ns[n].instance \in Instances BY TreeIs
  <1>2. NodesTyped(ns) /\ Ranked(ns) /\ ns[Root].parent = 0 BY DEF TreeOK
  <1>3. OscAddressIn(ns, n) \in Sites BY <1>1, <1>2, TextIs
  <1>4. CASE n = Root BY <1>1, <1>2, <1>3, <1>4, TextIs
  <1>5. CASE n # Root
    <2> DEFINE p == ns[n].parent
    <2>1. ns[n].name \in Singles /\ p # 0 /\ p \in Linked(ns) /\ p \in DOMAIN ns
      BY <1>1, <1>5, TreeIs DEF Held
    <2>2. OscAddressIn(ns, p) \in Sites BY <1>2, <2>1, TextIs
    <2>3. OscAddressIn(ns, n) = Join(OscAddressIn(ns, p), ns[n].name, ns[n].instance)
      BY <1>1, <1>2, <2>1, TextIs
    <2> QED BY <1>1, <1>3, <1>5, <2>1, <2>2, <2>3, JoinParts
  <1> QED BY <1>4, <1>5

LEMMA AdrInjective ==
  ASSUME NEW ns, TreeOK(ns)
  PROVE  \A m, n \in Linked(ns) : OscAddressIn(ns, m) = OscAddressIn(ns, n) => m = n
  <1> DEFINE Fits(n) == \A m \in Linked(ns) : OscAddressIn(ns, m) = OscAddressIn(ns, n) => m = n
  <1>1. PICK M \in [DOMAIN ns -> Nat] : \A n \in DOMAIN ns : ns[n].parent # 0 => M[ns[n].parent] < M[n]
    BY DEF TreeOK, Ranked
  <1>2. Linked(ns) \subseteq DOMAIN ns BY TreeIs
  <1> DEFINE D == {M[x] : x \in {x \in Linked(ns) : ~ Fits(x)}}
  <1> SUFFICES ASSUME D # {} PROVE FALSE OBVIOUS
  <1> HIDE DEF Fits
  <1>3. PICK d \in D : \A e \in D : d <= e BY <1>1, <1>2, Least
  <1>4. PICK n \in Linked(ns) : ~ Fits(n) /\ d = M[n] OBVIOUS
  <1>5. PICK m \in Linked(ns) : OscAddressIn(ns, m) = OscAddressIn(ns, n) /\ m # n
    BY <1>4 DEF Fits
  <1>6. m # Root /\ n # Root BY <1>5, AdrIs
  <1> DEFINE p == ns[n].parent
             q == ns[m].parent
  <1>7. /\ p \in Linked(ns) /\ q \in Linked(ns)
        /\ OscAddressIn(ns, p) \in Sites /\ OscAddressIn(ns, q) \in Sites
        /\ ns[n].name \in Singles /\ ns[n].instance \in Instances
        /\ ns[m].name \in Singles /\ ns[m].instance \in Instances
        /\ OscAddressIn(ns, n) = Join(OscAddressIn(ns, p), ns[n].name, ns[n].instance)
        /\ OscAddressIn(ns, m) = Join(OscAddressIn(ns, q), ns[m].name, ns[m].instance)
    BY <1>6, AdrIs
  <1>8. /\ OscAddressIn(ns, p) = OscAddressIn(ns, q)
        /\ ns[n].name = ns[m].name /\ ns[n].instance = ns[m].instance
    BY <1>5, <1>7, JoinInjective
  <1>9. Fits(p)
    <2>1. M[p] < M[n] /\ M[n] \in Nat /\ M[p] \in Nat
      BY <1>1, <1>2, <1>6, <1>7, TreeIs
    <2>2. M[p] \notin D
      <3> HIDE DEF D, p
      <3> QED BY <1>3, <1>4, <2>1
    <2> QED BY <1>7, <2>2
  <1>10. p = q BY <1>7, <1>8, <1>9 DEF Fits
  <1>11. Held(ns, m) /\ Held(ns, n) BY <1>6, TreeIs
  <1> QED BY <1>5, <1>8, <1>10, <1>11 DEF Held, ChildKey

LEMMA SameAdr ==
  ASSUME NEW ns, TreeOK(ns), NEW ms, NodesTyped(ms), Ranked(ms), Linked(ns) \subseteq DOMAIN ms,
         \A n \in Linked(ns) : /\ ms[n].parent = ns[n].parent /\ ms[n].name = ns[n].name
                               /\ ms[n].instance = ns[n].instance
  PROVE  \A n \in Linked(ns) : OscAddressIn(ms, n) = OscAddressIn(ns, n)
  <1> DEFINE L == Linked(ns)
  <1>1. NodesTyped(ns) /\ Ranked(ns) /\ ns[Root].parent = 0 BY DEF TreeOK
  <1>2. L \subseteq DOMAIN ns BY TreeIs
  <1>3. \A n \in L :
          /\ ms[n].parent = ns[n].parent
          /\ ns[n].parent # 0 => ns[n].parent \in L /\ ms[n].name = ns[n].name
                                 /\ ms[n].instance = ns[n].instance
    BY <1>1, TreeIs DEF Held
  <1> HIDE DEF L
  <1>4. \A n \in L : OscAddressIn(ms, n) = OscAddressIn(ns, n)
    BY <1>1, <1>2, <1>3, SameText DEF L
  <1> QED BY <1>4 DEF L

-----------------------------------------------------------------------------
(* What single changes make of the tree.                                   *)

LEMMA Altered ==
  ASSUME NEW S, NEW s \in Seq(S), NEW n \in DOMAIN s, NEW x \in S
  PROVE  LET r == [s EXCEPT ![n] = x]
         IN  /\ r \in Seq(S) /\ DOMAIN r = DOMAIN s /\ r[n] = x
             /\ \A i \in DOMAIN s : i # n => r[i] = s[i]
  <1>1. DOMAIN s = 1..Len(s) BY LenProperties
  <1> QED BY <1>1, ExceptSeq

(* What a change of one field makes of a node.                             *)
LEMMA NodeFields ==
  ASSUME NEW q \in NodeType
  PROVE  /\ \A x \in Nat :
              LET r == [q EXCEPT !.destroyed = x]
              IN  /\ r \in NodeType /\ r.destroyed = x
                  /\ r.name = q.name /\ r.instance = q.instance /\ r.parent = q.parent
                  /\ r.children = q.children /\ r.live = q.live /\ r.created = q.created
         /\ \A x \in Nat :
              LET r == [q EXCEPT !.created = x]
              IN  /\ r \in NodeType /\ r.created = x
                  /\ r.name = q.name /\ r.instance = q.instance /\ r.parent = q.parent
                  /\ r.children = q.children /\ r.live = q.live /\ r.destroyed = q.destroyed
         /\ \A x \in Nat :
              LET r == [q EXCEPT !.parent = x]
              IN  /\ r \in NodeType /\ r.parent = x
                  /\ r.name = q.name /\ r.instance = q.instance /\ r.created = q.created
                  /\ r.children = q.children /\ r.live = q.live /\ r.destroyed = q.destroyed
         /\ \A x \in Tables :
              LET r == [q EXCEPT !.children = x]
              IN  /\ r \in NodeType /\ r.children = x
                  /\ r.name = q.name /\ r.instance = q.instance /\ r.created = q.created
                  /\ r.parent = q.parent /\ r.live = q.live /\ r.destroyed = q.destroyed
         /\ LET r == [q EXCEPT !.live = FALSE]
            IN  /\ r \in NodeType /\ r.live = FALSE
                /\ r.name = q.name /\ r.instance = q.instance /\ r.created = q.created
                /\ r.parent = q.parent /\ r.children = q.children /\ r.destroyed = q.destroyed
         /\ \A x \in Singles :
              LET r == [q EXCEPT !.name = x]
              IN  /\ r \in NodeType /\ r.name = x
                  /\ r.parent = q.parent /\ r.instance = q.instance /\ r.created = q.created
                  /\ r.children = q.children /\ r.live = q.live /\ r.destroyed = q.destroyed
         /\ \A x \in Instances :
              LET r == [q EXCEPT !.instance = x]
              IN  /\ r \in NodeType /\ r.instance = x
                  /\ r.parent = q.parent /\ r.name = q.name /\ r.created = q.created
                  /\ r.children = q.children /\ r.live = q.live /\ r.destroyed = q.destroyed
  <1>1. \A x \in Nat : [q EXCEPT !.destroyed = x] \in NodeType BY DEF NodeType
  <1>2. \A x \in Nat : [q EXCEPT !.created = x] \in NodeType BY DEF NodeType
  <1>3. \A x \in Nat : [q EXCEPT !.parent = x] \in NodeType BY DEF NodeType
  <1>4. \A x \in Tables : [q EXCEPT !.children = x] \in NodeType BY DEF NodeType
  <1>5. [q EXCEPT !.live = FALSE] \in NodeType BY DEF NodeType
  <1>6. \A x \in Singles : [q EXCEPT !.name = x] \in NodeType BY DEF NodeType
  <1>7. \A x \in Instances : [q EXCEPT !.instance = x] \in NodeType BY DEF NodeType
  <1> QED BY <1>1, <1>2, <1>3, <1>4, <1>5, <1>6, <1>7 DEF NodeType

(* The fields of a node that the tree consists of.                         *)
SameNode(r, s) ==
  /\ r.name = s.name /\ r.instance = s.instance /\ r.parent = s.parent
  /\ r.children = s.children /\ r.live = s.live /\ r.created = s.created

LEMMA SameTree ==
  ASSUME NEW ns, TreeOK(ns), NEW ms \in Seq(NodeType), DOMAIN ms = DOMAIN ns,
         \A n \in DOMAIN ns : SameNode(ms[n], ns[n])
  PROVE  /\ TreeOK(ms) /\ Linked(ms) = Linked(ns) /\ Pending(ms) = Pending(ns)
         /\ \A n \in Linked(ns) : OscAddressIn(ms, n) = OscAddressIn(ns, n)
  <1>1. Linked(ms) = Linked(ns) /\ Pending(ms) = Pending(ns)
    BY DEF SameNode, Linked, Pending
  <1>2. \A n \in DOMAIN ns : ChildKey(ms, n) = ChildKey(ns, n)
    BY DEF SameNode, ChildKey
  <1>3. NodesTyped(ns) /\ Ranked(ns) BY DEF TreeOK
  <1>4. NodesTyped(ms) BY <1>3 DEF NodesTyped, SameNode
  <1>5. Ranked(ms) BY <1>3 DEF Ranked, SameNode
  <1>6. Linked(ns) \subseteq DOMAIN ns /\ Root \in Linked(ns) BY TreeIs
  <1>7. ASSUME NEW n \in DOMAIN ns
        PROVE  /\ ms[n].created \in {0, 1}
               /\ n # Root => ms[n].name \in Singles
               /\ ms[n].created = 0 => ms[n].live /\ DOMAIN ms[n].children = {}
               /\ ms[n].parent # 0 => ms[ms[n].parent].created = 1
    BY <1>3 DEF TreeOK, NodesTyped, SameNode
  <1>8. ASSUME NEW n \in Linked(ns) \ {Root} PROVE Held(ms, n)
    BY <1>6, TreeIs, <1>1, <1>2 DEF Held, SameNode
  <1>9. ASSUME NEW p \in DOMAIN ns, NEW k \in DOMAIN ns[p].children
        PROVE  Holds(ms, p, k)
    BY <1>6, <1>1, <1>2 DEF TreeOK, Holds, SameNode
  <1>10. ms[Root].parent = 0 BY <1>6 DEF TreeOK, SameNode
  <1>11. \A p \in DOMAIN ns : ms[p].children = ns[p].children BY DEF SameNode
  <1>12. TreeOK(ms) BY <1>1, <1>7, <1>8, <1>9, <1>11, <1>4, <1>5, <1>6, <1>10 DEF TreeOK
  <1>13. \A n \in Linked(ns) : OscAddressIn(ms, n) = OscAddressIn(ns, n)
    BY <1>6, <1>4, <1>5, SameAdr DEF SameNode
  <1> QED BY <1>1, <1>12, <1>13

(* A destruction is announced.                                             *)
AnnouncedIn(ns, ms, n) ==
  /\ TreeOK(ms) /\ Linked(ms) = Linked(ns) /\ Pending(ms) = Pending(ns)
  /\ \A i \in Linked(ns) : OscAddressIn(ms, i) = OscAddressIn(ns, i)
  /\ DOMAIN ms = DOMAIN ns /\ Len(ms) = Len(ns)
  /\ \A i \in DOMAIN ns :
       /\ SameNode(ms[i], ns[i])
       /\ ms[i].destroyed = IF i = n THEN ns[i].destroyed + 1 ELSE ns[i].destroyed

LEMMA AnnouncedNodes ==
  ASSUME NEW ns, TreeOK(ns), NEW n \in DOMAIN ns
  PROVE  AnnouncedIn(ns, [ns EXCEPT ![n].destroyed = @ + 1], n)
  <1> DEFINE ms == [ns EXCEPT ![n].destroyed = @ + 1]
             r == [ns[n] EXCEPT !.destroyed = @ + 1]
  <1>1. ns \in Seq(NodeType) /\ \A i \in DOMAIN ns : ns[i] \in NodeType BY TreeIs
  <1>2. r \in NodeType /\ SameNode(r, ns[n]) /\ r.destroyed = ns[n].destroyed + 1
    <2>1. ns[n] \in NodeType /\ ns[n].destroyed + 1 \in Nat BY <1>1, NodeIs
    <2>2. PICK q \in NodeType, x \in Nat : q = ns[n] /\ x = ns[n].destroyed + 1
      BY <2>1
    <2>3. r = [q EXCEPT !.destroyed = x] BY <2>2
    <2> HIDE DEF r
    <2>4. /\ r \in NodeType /\ r.destroyed = x
          /\ r.name = q.name /\ r.instance = q.instance /\ r.parent = q.parent
          /\ r.children = q.children /\ r.live = q.live /\ r.created = q.created
      BY <2>3, NodeFields, Zenon
    <2> QED BY <2>2, <2>4 DEF SameNode
  <1>3. ms = [ns EXCEPT ![n] = r] OBVIOUS
  <1> HIDE DEF r, ms
  <1>4. /\ ms \in Seq(NodeType) /\ DOMAIN ms = DOMAIN ns /\ ms[n] = r
        /\ \A i \in DOMAIN ns : i # n => ms[i] = ns[i]
    BY <1>1, <1>2, <1>3, Altered
  <1>5. \A i \in DOMAIN ns : SameNode(ms[i], ns[i]) BY <1>2, <1>4 DEF SameNode
  <1>6. Len(ms) = Len(ns) BY <1>1, <1>4, LenProperties
  <1>7. /\ TreeOK(ms) /\ Linked(ms) = Linked(ns) /\ Pending(ms) = Pending(ns)
        /\ \A i \in Linked(ns) : OscAddressIn(ms, i) = OscAddressIn(ns, i)
    BY <1>4, <1>5, SameTree
  <1>8. \A i \in DOMAIN ns :
          ms[i].destroyed = IF i = n THEN ns[i].destroyed + 1 ELSE ns[i].destroyed
    BY <1>2, <1>4
  <1>9. AnnouncedIn(ns, ms, n) BY <1>4, <1>5, <1>6, <1>7, <1>8 DEF AnnouncedIn
  <1> QED BY <1>9 DEF ms

(* A new node, not in the tree yet.                                        *)
Added(ns, ms, name, instance, parent) ==
  LET new == Len(ns) + 1
  IN  /\ TreeOK(ms) /\ Linked(ms) = Linked(ns) /\ Pending(ms) = Pending(ns) \cup {new}
      /\ \A i \in Linked(ns) : OscAddressIn(ms, i) = OscAddressIn(ns, i)
      /\ DOMAIN ms = DOMAIN ns \cup {new} /\ new \notin DOMAIN ns /\ Len(ms) = new
      /\ \A i \in DOMAIN ns : ms[i] = ns[i]
      /\ ms[new].name = name /\ ms[new].instance = instance /\ ms[new].parent = parent
      /\ DOMAIN ms[new].children = {} /\ ms[new].live /\ ms[new].destroyed = 0

LEMMA NewNode ==
  ASSUME NEW ns, TreeOK(ns), NEW name \in Singles, NEW instance \in Instances,
         NEW parent, parent = 0 \/ parent \in Linked(ns)
  PROVE  Added(ns, Append(ns, Node(name, instance, parent)), name, instance, parent)
  <1> DEFINE r == Node(name, instance, parent)
             new == Len(ns) + 1
             ms == Append(ns, r)
  <1>1. /\ ns \in Seq(NodeType) /\ Len(ns) \in Nat \ {0} /\ DOMAIN ns = 1..Len(ns)
        /\ \A i \in DOMAIN ns : ns[i] \in NodeType
        /\ Linked(ns) \subseteq DOMAIN ns /\ Root \in Linked(ns)
    BY TreeIs
  <1>2. parent \in Nat BY <1>1
  <1>3. /\ r \in NodeType /\ r.name = name /\ r.instance = instance /\ r.parent = parent
        /\ r.children = EmptyTable /\ r.live = TRUE /\ r.created = 0 /\ r.destroyed = 0
    BY <1>2, EmptyTableIs DEF Node, NodeType
  <1> HIDE DEF r, ms
  <1>4. /\ ms \in Seq(NodeType) /\ Len(ms) = new /\ ms[new] = r
        /\ \A i \in 1..Len(ns) : ms[i] = ns[i]
    BY <1>1, <1>3, AppendProperties DEF ms
  <1>5. DOMAIN ms = DOMAIN ns \cup {new} /\ new \notin DOMAIN ns /\ DOMAIN ms = 1..Len(ms)
    BY <1>1, <1>4, LenProperties
  <1>6. \A i \in DOMAIN ns : ms[i] = ns[i] BY <1>1, <1>4
  <1> HIDE DEF new
  <1>7. Linked(ms) = Linked(ns) /\ Pending(ms) = Pending(ns) \cup {new}
    BY <1>5, <1>6, <1>3, <1>4 DEF Linked, Pending
  <1>8. DOMAIN ms[new].children = {} BY <1>3, <1>4, EmptyTableIs
  <1>9. NodesTyped(ns) /\ Ranked(ns) BY DEF TreeOK
  <1>10. \A i \in DOMAIN ns : ns[i].parent # 0 => ns[i].parent \in DOMAIN ns
    BY <1>9 DEF NodesTyped
  <1>11. NodesTyped(ms) BY <1>1, <1>3, <1>4, <1>5, <1>8, <1>6, <1>9 DEF NodesTyped
  <1>12. Ranked(ms)
    <2>1. PICK D \in [DOMAIN ns -> Nat] :
            \A n \in DOMAIN ns : ns[n].parent # 0 => D[ns[n].parent] < D[n]
      BY <1>9 DEF Ranked
    <2> DEFINE E == [i \in DOMAIN ms |-> IF i = new THEN IF parent = 0 THEN 0 ELSE D[parent] + 1
                                         ELSE D[i]]
    <2>2. E \in [DOMAIN ms -> Nat] BY <1>1, <1>5
    <2>3. ASSUME NEW i \in DOMAIN ms, ms[i].parent # 0 PROVE E[ms[i].parent] < E[i]
      BY <1>1, <1>3, <1>4, <1>5, <2>3, <1>6, <1>10, <2>1
    <2> HIDE DEF E
    <2> QED BY <2>2, <2>3 DEF Ranked
  <1>13. ASSUME NEW n \in DOMAIN ms
         PROVE  /\ ms[n].created \in {0, 1}
                /\ n # Root => ms[n].name \in Singles
                /\ ms[n].created = 0 => ms[n].live /\ DOMAIN ms[n].children = {}
                /\ ms[n].parent # 0 => ms[ms[n].parent].created = 1
    BY <1>1, <1>3, <1>4, <1>6, <1>8, <1>5, <1>10 DEF Linked, TreeOK
  <1>14. \A n \in DOMAIN ns : ChildKey(ms, n) = ChildKey(ns, n) BY <1>6 DEF ChildKey
  <1>15. \A n \in Linked(ns) \ {Root} : Held(ms, n)
    <2> TAKE n \in Linked(ns) \ {Root}
    <2>1. Held(ns, n) /\ n \in DOMAIN ns BY <1>1, TreeIs
    <2>2. ns[n].parent \in DOMAIN ns BY <1>1, <2>1 DEF Held
    <2> QED BY <1>6, <1>7, <1>14, <2>1, <2>2 DEF Held
  <1>16. ASSUME NEW p \in DOMAIN ms, NEW k \in DOMAIN ms[p].children
         PROVE  Holds(ms, p, k)
    BY <1>5, <1>6, <1>8, <1>1, <1>7, <1>14 DEF TreeOK, Holds
  <1>17. ms[Root].parent = 0 BY <1>1, <1>6 DEF TreeOK
  <1>18. TreeOK(ms)
    BY <1>1, <1>7, <1>11, <1>12, <1>13, <1>15, <1>16, <1>17 DEF TreeOK
  <1>19. \A i \in Linked(ns) : OscAddressIn(ms, i) = OscAddressIn(ns, i)
    BY <1>1, <1>6, <1>5, <1>11, <1>12, SameAdr
  <1>20. Added(ns, ms, name, instance, parent)
    BY <1>3, <1>4, <1>5, <1>6, <1>7, <1>8, <1>18, <1>19 DEF Added, new
  <1> QED BY <1>20 DEF ms, r

LEMMA ChildrenSet ==
  ASSUME NEW ns \in Seq(NodeType), NEW p \in DOMAIN ns, NEW t \in Tables, NEW ms,
         ms = [ns EXCEPT ![p].children = t]
  PROVE  /\ ms \in Seq(NodeType) /\ DOMAIN ms = DOMAIN ns
         /\ \A i \in DOMAIN ns :
              /\ ms[i].name = ns[i].name /\ ms[i].instance = ns[i].instance
              /\ ms[i].parent = ns[i].parent /\ ms[i].live = ns[i].live
              /\ ms[i].created = ns[i].created /\ ms[i].destroyed = ns[i].destroyed
              /\ ms[i].children = IF i = p THEN t ELSE ns[i].children
  <1>1. ns[p] \in NodeType /\ DOMAIN ns = 1..Len(ns) /\ Len(ns) \in Nat
    BY LenProperties, ElementOfSeq
  <1>2. DOMAIN ms = DOMAIN ns /\ \A i \in DOMAIN ns : i # p => ms[i] = ns[i] BY <1>1
  <1>3. ms[p] = [ns[p] EXCEPT !.children = t] BY <1>1
  <1>4. /\ ms[p].name = ns[p].name /\ ms[p].instance = ns[p].instance
        /\ ms[p].parent = ns[p].parent /\ ms[p].live = ns[p].live
        /\ ms[p].created = ns[p].created /\ ms[p].destroyed = ns[p].destroyed
        /\ ms[p].children = t
    BY <1>1, <1>3 DEF NodeType
  <1>5. ms[p] \in NodeType BY <1>1, <1>3 DEF NodeType
  <1>6. ms \in Seq(NodeType) BY <1>1, <1>3, <1>5, Altered
  <1> QED BY <1>2, <1>4, <1>6

LEMMA CreatedSet ==
  ASSUME NEW ns \in Seq(NodeType), NEW n \in DOMAIN ns, NEW ms,
         ms = [ns EXCEPT ![n].created = @ + 1]
  PROVE  /\ ms \in Seq(NodeType) /\ DOMAIN ms = DOMAIN ns
         /\ \A i \in DOMAIN ns :
              /\ ms[i].name = ns[i].name /\ ms[i].instance = ns[i].instance
              /\ ms[i].parent = ns[i].parent /\ ms[i].live = ns[i].live
              /\ ms[i].children = ns[i].children /\ ms[i].destroyed = ns[i].destroyed
              /\ ms[i].created = IF i = n THEN ns[i].created + 1 ELSE ns[i].created
  <1>1. ns[n] \in NodeType /\ DOMAIN ns = 1..Len(ns) /\ Len(ns) \in Nat
    BY LenProperties, ElementOfSeq
  <1>2. DOMAIN ms = DOMAIN ns /\ \A i \in DOMAIN ns : i # n => ms[i] = ns[i] BY <1>1
  <1>3. ms[n] = [ns[n] EXCEPT !.created = @ + 1] BY <1>1
  <1>4. /\ ms[n].name = ns[n].name /\ ms[n].instance = ns[n].instance
        /\ ms[n].parent = ns[n].parent /\ ms[n].live = ns[n].live
        /\ ms[n].children = ns[n].children /\ ms[n].destroyed = ns[n].destroyed
        /\ ms[n].created = ns[n].created + 1
    BY <1>1, <1>3 DEF NodeType
  <1>5. ms[n] \in NodeType BY <1>1, <1>3, SMTT(20) DEF NodeType
  <1>6. ms \in Seq(NodeType) BY <1>1, <1>3, <1>5, Altered
  <1> QED BY <1>2, <1>4, <1>6

-----------------------------------------------------------------------------
(* A node comes into the tree.                                             *)

LEMMA NodesRanked ==
  ASSUME NEW ns, Ranked(ns), NEW ms, DOMAIN ms = DOMAIN ns,
         \A i \in DOMAIN ns : ms[i].parent = ns[i].parent
  PROVE  Ranked(ms)
  BY DEF Ranked

LEMMA TableWith ==
  ASSUME NEW u \in Tables, NEW k \in ChildKeys, NEW n \in Nat, k \notin DOMAIN u
  PROVE  /\ With(u, k, n) \in Tables /\ DOMAIN With(u, k, n) = DOMAIN u \cup {k}
         /\ \A x \in DOMAIN u : With(u, k, n)[x] = u[x]
         /\ With(u, k, n)[k] = n
  BY TablePut, Zenon

(* A table gets an entry more.                                             *)
Entered(ns, ms, p, key, n) ==
  /\ NodesTyped(ms) /\ Ranked(ms) /\ DOMAIN ms = DOMAIN ns
  /\ \A i \in DOMAIN ns :
       /\ ms[i].name = ns[i].name /\ ms[i].instance = ns[i].instance
       /\ ms[i].parent = ns[i].parent /\ ms[i].live = ns[i].live
       /\ ms[i].created = ns[i].created /\ ms[i].destroyed = ns[i].destroyed
       /\ i # p => ms[i].children = ns[i].children
  /\ DOMAIN ms[p].children = DOMAIN ns[p].children \cup {key}
  /\ \A k \in DOMAIN ns[p].children : ms[p].children[k] = ns[p].children[k]
  /\ ms[p].children[key] = n

LEMMA EntryPut ==
  ASSUME NEW ns, NodesTyped(ns), Ranked(ns), NEW n \in DOMAIN ns, NEW p \in DOMAIN ns,
         NEW key, NEW t \in Tables, DOMAIN t = DOMAIN ns[p].children \cup {key},
         \A k \in DOMAIN ns[p].children : t[k] = ns[p].children[k], t[key] = n,
         NEW ms, ms = [ns EXCEPT ![p].children = t]
  PROVE  Entered(ns, ms, p, key, n)
  <1>1. ns \in Seq(NodeType) BY DEF NodesTyped
  <1>9. /\ t \in Tables /\ DOMAIN t = DOMAIN ns[p].children \cup {key}
        /\ \A k \in DOMAIN ns[p].children : t[k] = ns[p].children[k]
        /\ t[key] = n
    OBVIOUS
  <1>5. /\ ms \in Seq(NodeType) /\ DOMAIN ms = DOMAIN ns
        /\ \A i \in DOMAIN ns :
              /\ ms[i].name = ns[i].name /\ ms[i].instance = ns[i].instance
              /\ ms[i].parent = ns[i].parent /\ ms[i].live = ns[i].live
              /\ ms[i].created = ns[i].created /\ ms[i].destroyed = ns[i].destroyed
              /\ ms[i].children = IF i = p THEN t ELSE ns[i].children
    BY <1>1, ChildrenSet
  <1>6. \A i \in DOMAIN ns :
          /\ ns[i].parent # 0 => ns[i].parent \in DOMAIN ns /\ ns[i].name \in Singles
          /\ \A k \in DOMAIN ns[i].children : ns[i].children[k] \in DOMAIN ns
    BY DEF NodesTyped
  <1>7. NodesTyped(ms) BY <1>9, <1>5, <1>6 DEF NodesTyped
  <1>8. Ranked(ms) BY <1>5, NodesRanked, Zenon
  <1>10. /\ DOMAIN ms[p].children = DOMAIN ns[p].children \cup {key}
         /\ \A k \in DOMAIN ns[p].children : ms[p].children[k] = ns[p].children[k]
         /\ ms[p].children[key] = n
    <2>1. ms[p].children = t BY <1>5
    <2> QED BY <1>9, <2>1
  <1>11. DOMAIN ms = DOMAIN ns
         /\ \A i \in DOMAIN ns :
              /\ ms[i].name = ns[i].name /\ ms[i].instance = ns[i].instance
              /\ ms[i].parent = ns[i].parent /\ ms[i].live = ns[i].live
              /\ ms[i].created = ns[i].created /\ ms[i].destroyed = ns[i].destroyed
              /\ i # p => ms[i].children = ns[i].children
    BY <1>5
  <1> QED BY <1>7, <1>8, <1>10, <1>11, Zenon DEF Entered

LEMMA EntrySet ==
  ASSUME NEW ns, NodesTyped(ns), Ranked(ns), NEW n \in DOMAIN ns, NEW p \in DOMAIN ns,
         NEW key \in ChildKeys, key \notin DOMAIN ns[p].children
  PROVE  Entered(ns, [ns EXCEPT ![p].children = With(@, key, n)], p, key, n)
  <1>1. ns \in Seq(NodeType) BY DEF NodesTyped
  <1>2. ns[p].children \in Tables /\ DOMAIN ns = 1..Len(ns) /\ Len(ns) \in Nat
    BY <1>1, LenProperties, ElementOfSeq, NodeIs
  <1>3. n \in Nat BY <1>2
  <1> DEFINE t == With(ns[p].children, key, n)
             ms == [ns EXCEPT ![p].children = t]
  <1>4. \A u \in Tables : key \notin DOMAIN u =>
          /\ With(u, key, n) \in Tables /\ DOMAIN With(u, key, n) = DOMAIN u \cup {key}
          /\ \A k \in DOMAIN u : With(u, key, n)[k] = u[k]
          /\ With(u, key, n)[key] = n
    BY <1>3, TableWith
  <1>5. /\ t \in Tables /\ DOMAIN t = DOMAIN ns[p].children \cup {key}
        /\ \A k \in DOMAIN ns[p].children : t[k] = ns[p].children[k]
        /\ t[key] = n
    BY <1>2, <1>4
  <1> HIDE DEF t
  <1>6. Entered(ns, ms, p, key, n) BY <1>5, EntryPut
  <1> QED BY <1>6 DEF t

(* A node comes into the tree: what becomes of the others.                 *)
Grown(ns, ms, n, p) ==
  /\ NodesTyped(ms) /\ Ranked(ms) /\ DOMAIN ms = DOMAIN ns
  /\ \A i \in DOMAIN ns :
       /\ ms[i].name = ns[i].name /\ ms[i].instance = ns[i].instance
       /\ ms[i].parent = ns[i].parent /\ ms[i].live = ns[i].live
       /\ ms[i].destroyed = ns[i].destroyed
       /\ i # p => ms[i].children = ns[i].children
       /\ i # n => ms[i].created = ns[i].created
  /\ ms[n].created = 1
  /\ DOMAIN ms[p].children = DOMAIN ns[p].children \cup {ChildKey(ns, n)}
  /\ \A k \in DOMAIN ns[p].children : ms[p].children[k] = ns[p].children[k]
  /\ ms[p].children[ChildKey(ns, n)] = n

LEMMA NodeAttached ==
  ASSUME NEW ns, TreeOK(ns), NEW n \in Pending(ns), NEW p \in Linked(ns), p = ns[n].parent,
         ChildKey(ns, n) \notin DOMAIN ns[p].children,
         NEW ms, Grown(ns, ms, n, p)
  PROVE  /\ TreeOK(ms) /\ Linked(ms) = Linked(ns) \cup {n} /\ Pending(ms) = Pending(ns) \ {n}
         /\ Len(ms) = Len(ns)
         /\ \A i \in Linked(ns) : OscAddressIn(ms, i) = OscAddressIn(ns, i)
         /\ OscAddressIn(ms, n) = Join(OscAddressIn(ns, p), ns[n].name, ns[n].instance)
  <1> DEFINE key == ChildKey(ns, n)
  <1>1. /\ ns \in Seq(NodeType) /\ DOMAIN ns = 1..Len(ns) /\ Linked(ns) \subseteq DOMAIN ns
        /\ Root \in Linked(ns) /\ n \in DOMAIN ns /\ n # Root /\ n \notin Linked(ns)
        /\ p \in DOMAIN ns /\ p # 0 /\ p # n
        /\ key \in ChildKeys /\ ns[n].name \in Singles /\ ns[n].instance \in Instances
    BY TreeIs
  <1>2. NodesTyped(ns) /\ Ranked(ns) BY DEF TreeOK
  <1> HIDE DEF key
  <1>5. DOMAIN ms = DOMAIN ns /\ Len(ms) = Len(ns) /\ ms \in Seq(NodeType)
    BY <1>1, LenProperties DEF Grown, NodesTyped
  <1>6. \A i \in DOMAIN ns :
              /\ ms[i].name = ns[i].name /\ ms[i].instance = ns[i].instance
              /\ ms[i].parent = ns[i].parent /\ ms[i].live = ns[i].live
              /\ ms[i].destroyed = ns[i].destroyed
              /\ i # p => ms[i].children = ns[i].children
              /\ i # n => ms[i].created = ns[i].created
    BY DEF Grown
  <1>7. ms[n].created = 1 /\ ns[n].created = 0 /\ ns[n].live BY DEF Grown, Pending
  <1>8. /\ DOMAIN ms[p].children = DOMAIN ns[p].children \cup {key}
        /\ \A k \in DOMAIN ns[p].children : ms[p].children[k] = ns[p].children[k]
        /\ ms[p].children[key] = n
    BY DEF Grown, key
  <1>9. Linked(ms) = Linked(ns) \cup {n} /\ Pending(ms) = Pending(ns) \ {n}
    BY <1>1, <1>5, <1>6, <1>7 DEF Linked, Pending
  <1>10. NodesTyped(ms) /\ Ranked(ms) BY DEF Grown
  <1>12. \A i \in DOMAIN ns : ChildKey(ms, i) = ChildKey(ns, i) BY <1>6 DEF ChildKey
  <1>13. ASSUME NEW i \in DOMAIN ns
         PROVE  /\ ms[i].created \in {0, 1}
                /\ i # Root => ms[i].name \in Singles
                /\ ms[i].created = 0 => ms[i].live /\ DOMAIN ms[i].children = {}
                /\ ms[i].parent # 0 => ms[ms[i].parent].created = 1
    <2>1. /\ ns[i].created \in {0, 1}
          /\ i # Root => ns[i].name \in Singles
          /\ ns[i].created = 0 => ns[i].live /\ DOMAIN ns[i].children = {}
          /\ ns[i].parent # 0 => ns[ns[i].parent].created = 1
      BY DEF TreeOK
    <2>2. ns[i].parent # 0 => ns[i].parent \in DOMAIN ns BY <1>2 DEF NodesTyped
    <2>3. ns[p].created = 1 BY DEF Linked
    <2>4. ms[i].parent # 0 => ms[ms[i].parent].created = 1 BY <1>6, <1>7, <2>1, <2>2
    <2>5. ms[i].created = 0 => ns[i].created = 0 /\ i # n /\ i # p
      BY <1>1, <1>6, <1>7, <2>3
    <2>6. ms[i].created \in {0, 1} BY <1>6, <1>7, <2>1
    <2> QED BY <1>6, <2>1, <2>4, <2>5, <2>6
  <1>14. ASSUME NEW i \in Linked(ms) \ {Root} PROVE Held(ms, i)
    <2>1. CASE i = n BY <1>1, <1>6, <1>12, <2>1, <1>8, <1>9 DEF key, Held
    <2>2. CASE i # n
      <3>1. i \in Linked(ns) /\ i \in DOMAIN ns /\ Held(ns, i)
        BY <1>1, <1>9, <2>2, TreeIs
      <3>2. ns[i].parent \in Linked(ns) /\ ns[i].parent \in DOMAIN ns
        BY <1>1, <3>1 DEF Held
      <3>3. ms[i].parent = ns[i].parent /\ ChildKey(ms, i) = ChildKey(ns, i)
        BY <1>6, <1>12, <3>1
      <3>4. \A k \in DOMAIN ns[ns[i].parent].children :
              /\ k \in DOMAIN ms[ns[i].parent].children
              /\ ms[ns[i].parent].children[k] = ns[ns[i].parent].children[k]
        BY <1>6, <1>8, <3>2
      <3> QED BY <1>9, <3>1, <3>2, <3>3, <3>4 DEF Held
    <2> QED BY <2>1, <2>2
  <1>15. ASSUME NEW x \in DOMAIN ns, NEW k \in DOMAIN ms[x].children
         PROVE  Holds(ms, x, k)
    <2>1. CASE k \in DOMAIN ns[x].children
      <3>1. Holds(ns, x, k) /\ ms[x].children[k] = ns[x].children[k]
        BY <1>6, <1>8, <2>1 DEF TreeOK
      <3>2. ns[x].children[k] \in DOMAIN ns BY <1>1, <3>1 DEF Holds
      <3> QED BY <1>6, <1>9, <1>12, <3>1, <3>2 DEF Holds
    <2>2. CASE k \notin DOMAIN ns[x].children
      BY <1>6, <1>8, <2>2, <1>1, <1>12, <1>9 DEF key, Holds
    <2> QED BY <2>1, <2>2
  <1>16. ms[Root].parent = 0 BY <1>1, <1>6 DEF TreeOK
  <1>17. TreeOK(ms) BY <1>5, <1>13, <1>14, <1>15, <1>1, <1>9, <1>10, <1>16 DEF TreeOK
  <1>18. \A i \in Linked(ns) : OscAddressIn(ms, i) = OscAddressIn(ns, i)
    <2>1. \A i \in Linked(ns) : /\ ms[i].parent = ns[i].parent /\ ms[i].name = ns[i].name
                                /\ ms[i].instance = ns[i].instance
      BY <1>1, <1>6
    <2> QED BY <1>1, <1>5, <1>10, <2>1, SameAdr
  <1>20. OscAddressIn(ms, n) = Join(OscAddressIn(ns, p), ns[n].name, ns[n].instance)
    BY <1>1, <1>5, <1>6, <1>10, TextIs, <1>18
  <1> QED BY <1>5, <1>9, <1>17, <1>18, <1>20

LEMMA GrownFrom ==
  ASSUME NEW ns, NodesTyped(ns), Ranked(ns), NEW n \in DOMAIN ns, NEW p \in DOMAIN ns,
         ns[n].created = 0, NEW ls, Entered(ns, ls, p, ChildKey(ns, n), n),
         NEW ms, ms = [ls EXCEPT ![n].created = @ + 1]
  PROVE  Grown(ns, ms, n, p)
  <1>1. ls \in Seq(NodeType) /\ n \in DOMAIN ls /\ DOMAIN ls = DOMAIN ns
    BY DEF Entered, NodesTyped
  <1>2. /\ ms \in Seq(NodeType) /\ DOMAIN ms = DOMAIN ls
        /\ \A i \in DOMAIN ls :
              /\ ms[i].name = ls[i].name /\ ms[i].instance = ls[i].instance
              /\ ms[i].parent = ls[i].parent /\ ms[i].live = ls[i].live
              /\ ms[i].children = ls[i].children /\ ms[i].destroyed = ls[i].destroyed
              /\ ms[i].created = IF i = n THEN ls[i].created + 1 ELSE ls[i].created
    <2>1. ls \in Seq(NodeType) /\ n \in DOMAIN ls BY <1>1
    <2> QED BY <2>1, CreatedSet
  <1>3. DOMAIN ms = DOMAIN ls /\ \A i \in DOMAIN ls : ms[i].parent = ls[i].parent
    BY <1>2
  <1>4. Ranked(ms) BY <1>3, NodesRanked, Zenon DEF Entered
  <1>5. NodesTyped(ms) BY <1>2 DEF Entered, NodesTyped
  <1>6. ms[n].created = 1 BY <1>1, <1>2 DEF Entered
  <1> QED BY <1>1, <1>2, <1>4, <1>5, <1>6 DEF Entered, Grown

LEMMA EnteredText ==
  ASSUME NEW ns, TreeOK(ns), NEW n \in DOMAIN ns, NEW p \in Linked(ns), ns[n].parent = p,
         NEW key, NEW ls, Entered(ns, ls, p, key, n)
  PROVE  OscAddressIn(ls, n) = Join(OscAddressIn(ns, p), ns[n].name, ns[n].instance)
  <1>1. /\ NodesTyped(ls) /\ Ranked(ls) /\ DOMAIN ls = DOMAIN ns
        /\ p \in DOMAIN ns /\ Linked(ns) \subseteq DOMAIN ls /\ p # 0
    BY TreeIs DEF Entered
  <1>2. \A i \in Linked(ns) : /\ ls[i].parent = ns[i].parent /\ ls[i].name = ns[i].name
                              /\ ls[i].instance = ns[i].instance
    BY <1>1 DEF Entered
  <1>3. OscAddressIn(ls, p) = OscAddressIn(ns, p) BY <1>1, <1>2, SameAdr
  <1>4. ls[n].parent = p /\ ls[n].name = ns[n].name /\ ls[n].instance = ns[n].instance
        /\ n \in DOMAIN ls
    BY <1>1 DEF Entered
  <1>5. OscAddressIn(ls, n) = Join(OscAddressIn(ls, p), ls[n].name, ls[n].instance)
    BY <1>1, <1>4, TextIs
  <1> QED BY <1>3, <1>4, <1>5

LEMMA SetChildIs ==
  ASSUME NEW ns, NEW n, NEW p, ns[n].parent = p
  PROVE  SetChild(ns, n) = [ns EXCEPT ![p].children = With(@, ChildKey(ns, n), n)]
  BY DEF SetChild

LEMMA AttachedNodes ==
  ASSUME NEW ns, TreeOK(ns), NEW n \in Pending(ns), NEW p \in Linked(ns), ns[n].parent = p,
         ChildKey(ns, n) \notin DOMAIN ns[p].children
  PROVE  LET ls == SetChild(ns, n)
             ms == [ls EXCEPT ![n].created = @ + 1]
         IN  /\ Grown(ns, ms, n, p)
             /\ OscAddressIn(ls, n) = Join(OscAddressIn(ns, p), ns[n].name, ns[n].instance)
  <1>1. n \in DOMAIN ns /\ p \in DOMAIN ns /\ ChildKey(ns, n) \in ChildKeys /\ ns[n].created = 0
    BY TreeIs DEF Pending
  <1>2. NodesTyped(ns) /\ Ranked(ns) BY DEF TreeOK
  <1> DEFINE ls == SetChild(ns, n)
             key == ChildKey(ns, n)
             ms == [ls EXCEPT ![n].created = @ + 1]
  <1>3. ls = [ns EXCEPT ![p].children = With(@, key, n)] BY DEF SetChild
  <1> HIDE DEF ls, key
  <1>4. Entered(ns, ls, p, key, n) BY <1>1, <1>2, EntrySet, <1>3 DEF key
  <1>5. Grown(ns, ms, n, p) BY <1>1, <1>2, <1>4, GrownFrom DEF ms, key
  <1>6. OscAddressIn(ls, n) = Join(OscAddressIn(ns, p), ns[n].name, ns[n].instance)
    BY <1>1, <1>4, EnteredText, Zenon
  <1> QED BY <1>5, <1>6 DEF ls

-----------------------------------------------------------------------------
(* A node without children leaves the tree.                                *)

(* The parent of a node that is not in the tree yet is found.              *)
LEMMA ParentGiven ==
  ASSUME NEW ns, TreeOK(ns), NEW m \in Pending(ns), ns[m].parent = 0, NEW n \in Linked(ns),
         NEW ms \in Seq(NodeType), DOMAIN ms = DOMAIN ns,
         \A i \in DOMAIN ns :
           /\ ms[i].name = ns[i].name /\ ms[i].instance = ns[i].instance
           /\ ms[i].live = ns[i].live /\ ms[i].children = ns[i].children
           /\ ms[i].created = ns[i].created /\ ms[i].destroyed = ns[i].destroyed
           /\ ms[i].parent = IF i = m THEN n ELSE ns[i].parent
  PROVE  /\ TreeOK(ms) /\ Linked(ms) = Linked(ns) /\ Pending(ms) = Pending(ns)
         /\ Len(ms) = Len(ns)
         /\ \A i \in Linked(ns) : OscAddressIn(ms, i) = OscAddressIn(ns, i)
  <1>1. /\ ns \in Seq(NodeType) /\ DOMAIN ns = 1..Len(ns) /\ Linked(ns) \subseteq DOMAIN ns
        /\ Root \in Linked(ns) /\ m \in DOMAIN ns /\ m # Root /\ m \notin Linked(ns)
        /\ n \in DOMAIN ns /\ n # 0 /\ n # m /\ ns[m].name \in Singles
        /\ ns[m].created = 0 /\ ns[n].created = 1
    BY TreeIs DEF Pending, Linked
  <1>2. Len(ms) = Len(ns) BY <1>1, LenProperties
  <1>3. Linked(ms) = Linked(ns) /\ Pending(ms) = Pending(ns) BY DEF Linked, Pending
  <1>4. NodesTyped(ms) BY <1>1 DEF TreeOK, NodesTyped
  <1>5. \A i \in DOMAIN ns : ns[i].parent # 0 => ns[i].parent \in DOMAIN ns /\ ns[i].parent # m
    BY <1>1, TreeIs, SMTT(20) DEF TreeOK
  <1>6. Ranked(ms)
    <2>1. PICK D \in [DOMAIN ns -> Nat] :
            \A i \in DOMAIN ns : ns[i].parent # 0 => D[ns[i].parent] < D[i]
      BY DEF TreeOK, Ranked
    <2> DEFINE E == [i \in DOMAIN ns |-> IF i = m THEN D[n] + 1 ELSE D[i]]
    <2>2. E \in [DOMAIN ns -> Nat] /\ E[m] = D[n] + 1 /\ \A i \in DOMAIN ns : i # m => E[i] = D[i]
      BY <1>1, <2>1
    <2> HIDE DEF E
    <2>3. \A i \in DOMAIN ms : ms[i].parent # 0 => E[ms[i].parent] < E[i]
      <3>1. ASSUME NEW i \in DOMAIN ns, ms[i].parent # 0
            PROVE  E[ms[i].parent] < E[i]
        <4>1. CASE i = m BY <1>1, <2>1, <2>2, <4>1
        <4>2. CASE i # m BY <2>2, <4>2, <1>5, <2>1, <3>1
        <4> QED BY <4>1, <4>2
      <3> QED BY <3>1
    <2> QED BY <2>2, <2>3 DEF Ranked
  <1>7. \A i \in DOMAIN ns : ChildKey(ms, i) = ChildKey(ns, i) BY DEF ChildKey
  <1>8. ASSUME NEW i \in Linked(ms) \ {Root} PROVE Held(ms, i)
    <2>1. i \in DOMAIN ns /\ i # m /\ Held(ns, i) /\ ns[i].parent \in DOMAIN ns
      BY <1>1, <1>3, TreeIs DEF Held
    <2>2. ms[i].parent = ns[i].parent /\ ChildKey(ms, i) = ChildKey(ns, i)
          /\ ms[ns[i].parent].children = ns[ns[i].parent].children
      BY <1>7, <2>1
    <2> QED BY <1>3, <2>1, <2>2 DEF Held
  <1>9. ASSUME NEW p \in DOMAIN ns, NEW k \in DOMAIN ms[p].children
        PROVE  Holds(ms, p, k)
    <2>1. ms[p].children = ns[p].children OBVIOUS
    <2>2. Holds(ns, p, k) BY <2>1, TreeIs
    <2>3. ns[p].children[k] \in DOMAIN ns /\ ns[p].children[k] # m
      BY <1>1, <2>2 DEF Holds
    <2> QED BY <1>3, <1>7, <2>1, <2>2, <2>3 DEF Holds
  <1>10. ASSUME NEW i \in DOMAIN ns
         PROVE  /\ ms[i].created \in {0, 1}
                /\ i # Root => ms[i].name \in Singles
                /\ ms[i].created = 0 => ms[i].live /\ DOMAIN ms[i].children = {}
                /\ ms[i].parent # 0 => ms[ms[i].parent].created = 1
    BY <1>1, <1>5 DEF TreeOK
  <1>11. ms[Root].parent = 0 BY <1>1 DEF TreeOK
  <1>12. TreeOK(ms) BY <1>10, <1>8, <1>9, <1>1, <1>3, <1>4, <1>6, <1>11 DEF TreeOK
  <1>13. \A i \in Linked(ns) : OscAddressIn(ms, i) = OscAddressIn(ns, i)
    <2>1. \A i \in Linked(ns) : /\ ms[i].parent = ns[i].parent /\ ms[i].name = ns[i].name
                                /\ ms[i].instance = ns[i].instance
      BY <1>1
    <2>2. Linked(ns) \subseteq DOMAIN ms BY <1>1
    <2> QED BY <1>4, <1>6, <2>1, <2>2, SameAdr
  <1> QED BY <1>2, <1>3, <1>12, <1>13

(* A leaf leaves the tree.                                                 *)
Cut(ns, ms, n, p) ==
  /\ NodesTyped(ms) /\ Ranked(ms) /\ DOMAIN ms = DOMAIN ns
  /\ \A i \in DOMAIN ns :
       /\ ms[i].name = ns[i].name /\ ms[i].instance = ns[i].instance
       /\ ms[i].parent = ns[i].parent /\ ms[i].created = ns[i].created
       /\ ms[i].destroyed = ns[i].destroyed
       /\ i # p => ms[i].children = ns[i].children
       /\ i # n => ms[i].live = ns[i].live
  /\ ~ ms[n].live
  /\ DOMAIN ms[p].children = DOMAIN ns[p].children \ {ChildKey(ns, n)}
  /\ \A k \in DOMAIN ms[p].children : ms[p].children[k] = ns[p].children[k]

LEMMA NodeCut ==
  ASSUME NEW ns, TreeOK(ns), NEW n \in Linked(ns) \ {Root}, DOMAIN ns[n].children = {},
         NEW p, ns[n].parent = p, NEW ms, Cut(ns, ms, n, p)
  PROVE  /\ TreeOK(ms) /\ Linked(ms) = Linked(ns) \ {n} /\ Pending(ms) = Pending(ns)
         /\ Len(ms) = Len(ns)
         /\ \A i \in Linked(ns) : OscAddressIn(ms, i) = OscAddressIn(ns, i)
  <1> DEFINE key == ChildKey(ns, n)
  <1>1. /\ ns \in Seq(NodeType) /\ DOMAIN ns = 1..Len(ns) /\ Linked(ns) \subseteq DOMAIN ns
        /\ Root \in Linked(ns) /\ n \in DOMAIN ns /\ n # Root /\ p \in DOMAIN ns /\ p # n
        /\ key \in DOMAIN ns[p].children /\ ns[p].children[key] = n
    BY TreeIs DEF Held
  <1>2. ns[n].created = 1 /\ ns[n].live BY DEF Linked
  <1>3. /\ NodesTyped(ms) /\ Ranked(ms) /\ DOMAIN ms = DOMAIN ns
        /\ \A i \in DOMAIN ns :
             /\ ms[i].name = ns[i].name /\ ms[i].instance = ns[i].instance
             /\ ms[i].parent = ns[i].parent /\ ms[i].created = ns[i].created
             /\ i # p => ms[i].children = ns[i].children
             /\ i # n => ms[i].live = ns[i].live
        /\ ~ ms[n].live
        /\ DOMAIN ms[p].children = DOMAIN ns[p].children \ {key}
        /\ \A k \in DOMAIN ms[p].children : ms[p].children[k] = ns[p].children[k]
    BY DEF Cut
  <1> HIDE DEF key
  <1>4. Len(ms) = Len(ns) BY <1>3, <1>1, LenProperties DEF NodesTyped
  <1>5. Linked(ms) = Linked(ns) \ {n} /\ Pending(ms) = Pending(ns)
    <2>1. Linked(ms) = Linked(ns) \ {n} BY <1>3 DEF Linked
    <2>2. ns[n].created # 0 /\ ms[n].created # 0 BY <1>1, <1>2, <1>3
    <2>3. Pending(ms) = Pending(ns) BY <1>3, <2>2 DEF Pending
    <2> QED BY <2>1, <2>3
  <1>6. \A i \in DOMAIN ns : ChildKey(ms, i) = ChildKey(ns, i) BY <1>3 DEF ChildKey
  <1>7. ASSUME NEW i \in Linked(ms) \ {Root} PROVE Held(ms, i)
    <2>1. i \in Linked(ns) /\ i \in DOMAIN ns /\ i # n /\ Held(ns, i)
      BY <1>1, <1>5, TreeIs
    <2>2. PICK q \in Linked(ns) : q = ns[i].parent BY <2>1 DEF Held
    <2>3. q \in DOMAIN ns /\ ChildKey(ns, i) \in DOMAIN ns[q].children
          /\ ns[q].children[ChildKey(ns, i)] = i
      BY <1>1, <2>1, <2>2 DEF Held
    <2>4. q # n BY <2>3
    <2>5. ms[i].parent = q /\ ChildKey(ms, i) = ChildKey(ns, i)
      BY <1>3, <1>6, <2>1, <2>2
    <2>6. ChildKey(ns, i) \in DOMAIN ms[q].children
          /\ ms[q].children[ChildKey(ns, i)] = i
      BY <1>1, <2>1, <2>3, <1>3
    <2>7. q \in Linked(ms) BY <1>5, <2>2, <2>4
    <2> QED BY <2>5, <2>6, <2>7 DEF Held
  <1>8. ASSUME NEW x \in DOMAIN ns, NEW k \in DOMAIN ms[x].children
        PROVE  Holds(ms, x, k)
    <2>1. k \in DOMAIN ns[x].children /\ ms[x].children[k] = ns[x].children[k]
          /\ (x = p => k # key)
      BY <1>1, <1>3
    <2>2. PICK c : c = ns[x].children[k] OBVIOUS
    <2>3. Holds(ns, x, k) BY <2>1, TreeIs
    <2>4. c \in Linked(ns) /\ c # Root /\ ns[c].parent = x /\ ChildKey(ns, c) = k
      BY <2>2, <2>3 DEF Holds
    <2>5. c # n BY <2>1, <2>4 DEF key
    <2>6. c \in DOMAIN ns /\ ms[c].parent = x /\ ChildKey(ms, c) = k
      BY <1>1, <1>3, <1>6, <2>4
    <2>7. ms[x].children[k] = c BY <2>1, <2>2
    <2> QED BY <1>5, <2>4, <2>5, <2>6, <2>7 DEF Holds
  <1>9. ASSUME NEW i \in DOMAIN ns
         PROVE  /\ ms[i].created \in {0, 1}
                /\ i # Root => ms[i].name \in Singles
                /\ ms[i].created = 0 => ms[i].live /\ DOMAIN ms[i].children = {}
                /\ ms[i].parent # 0 => ms[ms[i].parent].created = 1
    <2>1. /\ ns[i].created \in {0, 1}
          /\ i # Root => ns[i].name \in Singles
          /\ ns[i].created = 0 => ns[i].live /\ DOMAIN ns[i].children = {}
          /\ ns[i].parent # 0 => ns[ns[i].parent].created = 1
      BY DEF TreeOK
    <2>2. ns[i].parent # 0 => ns[i].parent \in DOMAIN ns BY TreeIs
    <2>3. ms[i].parent # 0 => ms[ms[i].parent].created = 1 BY <1>3, <2>1, <2>2
    <2>4. ns[p].created = 1 BY TreeIs DEF Held, Linked
    <2>5. ms[i].created = 0 => ms[i].live /\ DOMAIN ms[i].children = {}
      BY <1>2, <1>3, <2>1
    <2> QED BY <1>3, <2>1, <2>3, <2>5
  <1>10. ms[Root].parent = 0 BY <1>1, <1>3 DEF TreeOK
  <1>11. TreeOK(ms) BY <1>3, <1>9, <1>7, <1>8, <1>1, <1>5, <1>10 DEF TreeOK
  <1>12. \A i \in Linked(ns) : OscAddressIn(ms, i) = OscAddressIn(ns, i)
    <2>1. \A i \in Linked(ns) : /\ ms[i].parent = ns[i].parent /\ ms[i].name = ns[i].name
                                /\ ms[i].instance = ns[i].instance
      BY <1>1, <1>3
    <2>2. Linked(ns) \subseteq DOMAIN ms BY <1>1, <1>3
    <2> QED BY <1>3, <2>1, <2>2, SameAdr
  <1> QED BY <1>4, <1>5, <1>11, <1>12

(* A table loses an entry.                                                 *)
Taken(ns, ms, p, key) ==
  /\ NodesTyped(ms) /\ Ranked(ms) /\ DOMAIN ms = DOMAIN ns
  /\ \A i \in DOMAIN ns :
       /\ ms[i].name = ns[i].name /\ ms[i].instance = ns[i].instance
       /\ ms[i].parent = ns[i].parent /\ ms[i].live = ns[i].live
       /\ ms[i].created = ns[i].created /\ ms[i].destroyed = ns[i].destroyed
       /\ i # p => ms[i].children = ns[i].children
  /\ DOMAIN ms[p].children = DOMAIN ns[p].children \ {key}
  /\ \A k \in DOMAIN ms[p].children : ms[p].children[k] = ns[p].children[k]

LEMMA EntryCut ==
  ASSUME NEW ns, NodesTyped(ns), Ranked(ns), NEW p \in DOMAIN ns, NEW key, NEW t \in Tables,
         DOMAIN t = DOMAIN ns[p].children \ {key},
         \A k \in DOMAIN t : t[k] = ns[p].children[k],
         NEW ms, ms = [ns EXCEPT ![p].children = t]
  PROVE  Taken(ns, ms, p, key)
  <1>1. ns \in Seq(NodeType) BY DEF NodesTyped
  <1>2. /\ t \in Tables /\ DOMAIN t = DOMAIN ns[p].children \ {key}
        /\ \A k \in DOMAIN t : t[k] = ns[p].children[k]
    OBVIOUS
  <1>3. /\ ms \in Seq(NodeType) /\ DOMAIN ms = DOMAIN ns
        /\ \A i \in DOMAIN ns :
              /\ ms[i].name = ns[i].name /\ ms[i].instance = ns[i].instance
              /\ ms[i].parent = ns[i].parent /\ ms[i].live = ns[i].live
              /\ ms[i].created = ns[i].created /\ ms[i].destroyed = ns[i].destroyed
              /\ ms[i].children = IF i = p THEN t ELSE ns[i].children
    BY <1>1, ChildrenSet
  <1>4. Ranked(ms) BY <1>3, NodesRanked
  <1>5. NodesTyped(ms) BY <1>2, <1>3 DEF NodesTyped
  <1>6. DOMAIN ms[p].children = DOMAIN ns[p].children \ {key}
        /\ \A k \in DOMAIN ms[p].children : ms[p].children[k] = ns[p].children[k]
    <2>1. ms[p].children = t BY <1>3
    <2> QED BY <1>2, <2>1
  <1>7. DOMAIN ms = DOMAIN ns
        /\ \A i \in DOMAIN ns :
          /\ ms[i].name = ns[i].name /\ ms[i].instance = ns[i].instance
          /\ ms[i].parent = ns[i].parent /\ ms[i].live = ns[i].live
          /\ ms[i].created = ns[i].created /\ ms[i].destroyed = ns[i].destroyed
          /\ i # p => ms[i].children = ns[i].children
    BY <1>3
  <1> QED BY <1>4, <1>5, <1>6, <1>7, Zenon DEF Taken

LEMMA EntryTaken ==
  ASSUME NEW ns, NodesTyped(ns), Ranked(ns), NEW p \in DOMAIN ns, NEW key
  PROVE  Taken(ns, [ns EXCEPT ![p].children = Without(@, key)], p, key)
  <1>1. ns \in Seq(NodeType) BY DEF NodesTyped
  <1> DEFINE t == Without(ns[p].children, key)
             ms == [ns EXCEPT ![p].children = t]
  <1>2. ns[p].children \in Tables BY <1>1, LenProperties, ElementOfSeq, NodeIs
  <1>3. t \in Tables /\ DOMAIN t = DOMAIN ns[p].children \ {key}
        /\ \A k \in DOMAIN t : t[k] = ns[p].children[k]
    BY <1>2, TableCut, Zenon
  <1> HIDE DEF t
  <1>4. Taken(ns, ms, p, key) BY <1>3, EntryCut
  <1> QED BY <1>4 DEF t

(* A node is freed.                                                        *)
Freed(os, ms, n) ==
  /\ ms \in Seq(NodeType) /\ DOMAIN ms = DOMAIN os
  /\ \A i \in DOMAIN os :
        /\ ms[i].name = os[i].name /\ ms[i].instance = os[i].instance
        /\ ms[i].parent = os[i].parent /\ ms[i].children = os[i].children
        /\ ms[i].created = os[i].created /\ ms[i].destroyed = os[i].destroyed
        /\ i # n => ms[i].live = os[i].live
  /\ ~ ms[n].live

LEMMA FreedIs ==
  ASSUME NEW os \in Seq(NodeType), NEW n \in DOMAIN os
  PROVE  Freed(os, [os EXCEPT ![n].live = FALSE], n)
  <1> DEFINE ms == [os EXCEPT ![n].live = FALSE]
  <1>1. os[n] \in NodeType /\ DOMAIN os = 1..Len(os) /\ Len(os) \in Nat
    BY LenProperties, ElementOfSeq
  <1>2. DOMAIN ms = DOMAIN os /\ \A i \in DOMAIN os : i # n => ms[i] = os[i] BY <1>1
  <1>3. ms[n] = [os[n] EXCEPT !.live = FALSE] BY <1>1
  <1>4. /\ ms[n].name = os[n].name /\ ms[n].instance = os[n].instance
        /\ ms[n].parent = os[n].parent /\ ms[n].children = os[n].children
        /\ ms[n].created = os[n].created /\ ms[n].destroyed = os[n].destroyed
        /\ ~ ms[n].live
    BY <1>1, <1>3 DEF NodeType
  <1>5. ms[n] \in NodeType BY <1>1, <1>3 DEF NodeType
  <1>6. ms \in Seq(NodeType) BY <1>1, <1>3, <1>5, Altered
  <1> HIDE DEF ms
  <1>7. \A i \in DOMAIN os :
        /\ ms[i].name = os[i].name /\ ms[i].instance = os[i].instance
        /\ ms[i].parent = os[i].parent /\ ms[i].children = os[i].children
        /\ ms[i].created = os[i].created /\ ms[i].destroyed = os[i].destroyed
        /\ i # n => ms[i].live = os[i].live
    BY <1>2, <1>4
  <1>8. Freed(os, ms, n) BY <1>2, <1>4, <1>6, <1>7 DEF Freed
  <1> QED BY <1>8 DEF ms

LEMMA CutRest ==
  ASSUME NEW ns, NEW n \in DOMAIN ns, NEW p \in DOMAIN ns, NEW os,
         Taken(ns, os, p, ChildKey(ns, n)), NEW ms, Freed(os, ms, n)
  PROVE  Cut(ns, ms, n, p)
  <1>2. /\ ms \in Seq(NodeType) /\ DOMAIN ms = DOMAIN os
        /\ \A i \in DOMAIN os :
              /\ ms[i].name = os[i].name /\ ms[i].instance = os[i].instance
              /\ ms[i].parent = os[i].parent /\ ms[i].children = os[i].children
              /\ ms[i].created = os[i].created /\ ms[i].destroyed = os[i].destroyed
              /\ i # n => ms[i].live = os[i].live
        /\ ~ ms[n].live
    BY DEF Freed
  <1>3. Ranked(ms) BY <1>2, NodesRanked DEF Taken
  <1>4. NodesTyped(ms) BY <1>2, SMTT(20) DEF Taken, NodesTyped
  <1>5. DOMAIN os = DOMAIN ns BY DEF Taken
  <1>6. ~ ms[n].live BY <1>2
  <1>7. ms[p].children = os[p].children BY <1>2, <1>5
  <1>8. \A i \in DOMAIN ns :
          /\ os[i].name = ns[i].name /\ os[i].instance = ns[i].instance
          /\ os[i].parent = ns[i].parent /\ os[i].live = ns[i].live
          /\ os[i].created = ns[i].created /\ os[i].destroyed = ns[i].destroyed
          /\ i # p => os[i].children = ns[i].children
    BY DEF Taken
  <1>9. \A i \in DOMAIN ns :
          /\ ms[i].name = ns[i].name /\ ms[i].instance = ns[i].instance
          /\ ms[i].parent = ns[i].parent /\ ms[i].created = ns[i].created
          /\ ms[i].destroyed = ns[i].destroyed
          /\ i # p => ms[i].children = ns[i].children
          /\ i # n => ms[i].live = ns[i].live
    BY <1>2, <1>5, <1>8
  <1>10. DOMAIN ms[p].children = DOMAIN ns[p].children \ {ChildKey(ns, n)}
         /\ \A k \in DOMAIN ms[p].children : ms[p].children[k] = ns[p].children[k]
    BY <1>7 DEF Taken
  <1>11. DOMAIN ms = DOMAIN ns BY <1>2, <1>5
  <1> QED BY <1>3, <1>4, <1>6, <1>9, <1>10, <1>11, Zenon DEF Cut

LEMMA CutIs ==
  ASSUME NEW ns, NEW n, NEW p, ns[n].parent = p
  PROVE  [ns EXCEPT ![ns[n].parent].children = Without(@, ChildKey(ns, n)), ![n].live = FALSE]
           = [[ns EXCEPT ![p].children = Without(@, ChildKey(ns, n))] EXCEPT ![n].live = FALSE]
  OBVIOUS

LEMMA UnlinkedNodes ==
  ASSUME NEW ns, TreeOK(ns), NEW n \in Linked(ns) \ {Root}, NEW p, ns[n].parent = p
  PROVE  Cut(ns, [ns EXCEPT ![ns[n].parent].children = Without(@, ChildKey(ns, n)),
                            ![n].live = FALSE], n, p)
  <1> DEFINE key == ChildKey(ns, n)
             out == [ns EXCEPT ![p].children = Without(@, key)]
             ms == [out EXCEPT ![n].live = FALSE]
  <1>1. n \in DOMAIN ns /\ p \in DOMAIN ns /\ NodesTyped(ns) /\ Ranked(ns)
    BY TreeIs DEF TreeOK
  <1>2. Taken(ns, out, p, key) BY <1>1, EntryTaken
  <1>3. Cut(ns, ms, n, p)
    <2> HIDE DEF out, ms
    <2>1. out \in Seq(NodeType) /\ n \in DOMAIN out
      BY <1>1, <1>2 DEF Taken, NodesTyped
    <2>2. Freed(out, ms, n) BY <2>1, FreedIs DEF ms
    <2> QED BY <1>1, <1>2, <2>2, CutRest DEF key
  <1> QED BY <1>3, CutIs

-----------------------------------------------------------------------------
(* A node without children gets another name.                              *)

(* A node gets another name and instance.                                  *)
Called(os, ms, n, name, instance) ==
  /\ NodesTyped(ms) /\ Ranked(ms) /\ DOMAIN ms = DOMAIN os
  /\ \A i \in DOMAIN os :
       /\ ms[i].parent = os[i].parent /\ ms[i].live = os[i].live
       /\ ms[i].children = os[i].children /\ ms[i].created = os[i].created
       /\ ms[i].destroyed = os[i].destroyed
       /\ i # n => ms[i].name = os[i].name /\ ms[i].instance = os[i].instance
  /\ ms[n].name = name /\ ms[n].instance = instance

LEMMA CalledIs ==
  ASSUME NEW os, NodesTyped(os), Ranked(os), NEW n \in DOMAIN os, NEW name \in Singles,
         NEW instance \in Instances
  PROVE  Called(os, [os EXCEPT ![n].name = name, ![n].instance = instance], n, name, instance)
  <1> DEFINE ms == [os EXCEPT ![n].name = name, ![n].instance = instance]
  <1>1. os \in Seq(NodeType) BY DEF NodesTyped
  <1>2. /\ ms \in Seq(NodeType) /\ DOMAIN ms = DOMAIN os
        /\ \A i \in DOMAIN os :
              /\ ms[i].parent = os[i].parent /\ ms[i].live = os[i].live
              /\ ms[i].children = os[i].children /\ ms[i].created = os[i].created
              /\ ms[i].destroyed = os[i].destroyed
              /\ ms[i].name = IF i = n THEN name ELSE os[i].name
              /\ ms[i].instance = IF i = n THEN instance ELSE os[i].instance
    <2>1. os[n] \in NodeType /\ DOMAIN os = 1..Len(os) /\ Len(os) \in Nat
      BY <1>1, LenProperties, ElementOfSeq
    <2>2. DOMAIN ms = DOMAIN os /\ \A i \in DOMAIN os : i # n => ms[i] = os[i]
      BY <2>1
    <2>3. ms[n] = [os[n] EXCEPT !.name = name, !.instance = instance] BY <2>1
    <2>4. /\ ms[n].parent = os[n].parent /\ ms[n].live = os[n].live
          /\ ms[n].children = os[n].children /\ ms[n].created = os[n].created
          /\ ms[n].destroyed = os[n].destroyed
          /\ ms[n].name = name
          /\ ms[n].instance = instance
      BY <2>1, <2>3 DEF NodeType
    <2>5. ms[n] \in NodeType BY <2>1, <2>3 DEF NodeType
    <2>6. ms \in Seq(NodeType)
      <3>1. \A i \in DOMAIN os : ms[i] \in NodeType
        BY <1>1, <2>2, <2>5, ElementOfSeq
      <3>2. ms = [i \in 1..Len(os) |-> ms[i]] BY <2>1
      <3>3. [i \in 1..Len(os) |-> ms[i]] \in Seq(NodeType) BY <2>1, <3>1, IsASeq
      <3> QED BY <3>2, <3>3
    <2> HIDE DEF ms
    <2> QED BY <2>2, <2>4, <2>6
  <1> HIDE DEF ms
  <1>3. Ranked(ms) BY <1>2, NodesRanked
  <1>4. NodesTyped(ms) BY <1>2 DEF NodesTyped
  <1>5. \A i \in DOMAIN os :
          /\ ms[i].parent = os[i].parent /\ ms[i].live = os[i].live
          /\ ms[i].children = os[i].children /\ ms[i].created = os[i].created
          /\ ms[i].destroyed = os[i].destroyed
          /\ i # n => ms[i].name = os[i].name /\ ms[i].instance = os[i].instance
    BY <1>2
  <1>6. ms[n].name = name /\ ms[n].instance = instance /\ DOMAIN ms = DOMAIN os
    BY <1>2
  <1>7. Called(os, ms, n, name, instance)
    BY <1>3, <1>4, <1>5, <1>6, Zenon DEF Called
  <1> QED BY <1>7 DEF ms

(* A leaf moves in the table of its parent.                                *)
Moved(ns, ms, n, p, name, instance) ==
  /\ NodesTyped(ms) /\ Ranked(ms) /\ DOMAIN ms = DOMAIN ns
  /\ \A i \in DOMAIN ns :
       /\ ms[i].parent = ns[i].parent /\ ms[i].live = ns[i].live
       /\ ms[i].created = ns[i].created /\ ms[i].destroyed = ns[i].destroyed
       /\ i # p => ms[i].children = ns[i].children
       /\ i # n => ms[i].name = ns[i].name /\ ms[i].instance = ns[i].instance
  /\ ms[n].name = name /\ ms[n].instance = instance
  /\ DOMAIN ms[p].children
       = (DOMAIN ns[p].children \ {ChildKey(ns, n)}) \cup {<<name, instance>>}
  /\ \A k \in DOMAIN ns[p].children :
       k # ChildKey(ns, n) => ms[p].children[k] = ns[p].children[k]
  /\ ms[p].children[<<name, instance>>] = n

LEMMA MovedFrom ==
  ASSUME NEW ns, NEW n \in DOMAIN ns, NEW p \in DOMAIN ns, NEW name, NEW instance,
         NEW os, Taken(ns, os, p, ChildKey(ns, n)),
         NEW cs, Called(os, cs, n, name, instance),
         NEW ms, Entered(cs, ms, p, <<name, instance>>, n)
  PROVE  Moved(ns, ms, n, p, name, instance)
  <1> DEFINE key == ChildKey(ns, n)
             new == <<name, instance>>
  <1>1. /\ DOMAIN os = DOMAIN ns
        /\ \A i \in DOMAIN ns :
             /\ os[i].name = ns[i].name /\ os[i].instance = ns[i].instance
             /\ os[i].parent = ns[i].parent /\ os[i].live = ns[i].live
             /\ os[i].created = ns[i].created /\ os[i].destroyed = ns[i].destroyed
             /\ i # p => os[i].children = ns[i].children
    BY DEF Taken
  <1>2. /\ DOMAIN os[p].children = DOMAIN ns[p].children \ {key}
        /\ \A k \in DOMAIN os[p].children : os[p].children[k] = ns[p].children[k]
    BY DEF Taken
  <1> HIDE DEF key, new
  <1>3. /\ DOMAIN cs = DOMAIN os
        /\ \A i \in DOMAIN os :
             /\ cs[i].parent = os[i].parent /\ cs[i].live = os[i].live
             /\ cs[i].children = os[i].children /\ cs[i].created = os[i].created
             /\ cs[i].destroyed = os[i].destroyed
             /\ i # n => cs[i].name = os[i].name /\ cs[i].instance = os[i].instance
        /\ cs[n].name = name /\ cs[n].instance = instance
    BY DEF Called
  <1>4. /\ NodesTyped(ms) /\ Ranked(ms) /\ DOMAIN ms = DOMAIN cs
        /\ \A i \in DOMAIN cs :
             /\ ms[i].name = cs[i].name /\ ms[i].instance = cs[i].instance
             /\ ms[i].parent = cs[i].parent /\ ms[i].live = cs[i].live
             /\ ms[i].created = cs[i].created /\ ms[i].destroyed = cs[i].destroyed
             /\ i # p => ms[i].children = cs[i].children
        /\ DOMAIN ms[p].children = DOMAIN cs[p].children \cup {new}
        /\ \A k \in DOMAIN cs[p].children : ms[p].children[k] = cs[p].children[k]
        /\ ms[p].children[new] = n
    BY DEF Entered, new
  <1>5. /\ DOMAIN ms = DOMAIN ns
        /\ \A i \in DOMAIN ns :
             /\ ms[i].parent = ns[i].parent /\ ms[i].live = ns[i].live
             /\ ms[i].created = ns[i].created /\ ms[i].destroyed = ns[i].destroyed
             /\ i # p => ms[i].children = ns[i].children
             /\ i # n => ms[i].name = ns[i].name /\ ms[i].instance = ns[i].instance
    BY <1>1, <1>3, <1>4
  <1>6. ms[n].name = name /\ ms[n].instance = instance BY <1>1, <1>3, <1>4
  <1>7. cs[p].children = os[p].children BY <1>1, <1>3
  <1>8. /\ DOMAIN ms[p].children = (DOMAIN ns[p].children \ {key}) \cup {new}
        /\ \A k \in DOMAIN ns[p].children : k # key => ms[p].children[k] = ns[p].children[k]
        /\ ms[p].children[new] = n
    BY <1>2, <1>4, <1>7
  <1> QED BY <1>4, <1>5, <1>6, <1>8, Zenon DEF Moved, key, new

LEMMA LeafElsewhere ==
  ASSUME NEW ns, TreeOK(ns), NEW n \in Linked(ns) \ {Root}, DOMAIN ns[n].children = {},
         NEW ms, NodesTyped(ms), Ranked(ms), DOMAIN ms = DOMAIN ns,
         \A i \in DOMAIN ns :
           /\ ms[i].parent = ns[i].parent
           /\ i # n => ms[i].name = ns[i].name /\ ms[i].instance = ns[i].instance
  PROVE  \A i \in Linked(ns) \ {n} : OscAddressIn(ms, i) = OscAddressIn(ns, i)
  <1> DEFINE L == Linked(ns) \ {n}
  <1>1. L \subseteq DOMAIN ns /\ L \subseteq DOMAIN ms BY TreeIs
  <1>2. ASSUME NEW i \in L
        PROVE  /\ ms[i].parent = ns[i].parent
               /\ ns[i].parent # 0 => ns[i].parent \in L /\ ms[i].name = ns[i].name
                                      /\ ms[i].instance = ns[i].instance
    BY <1>1, TreeIs DEF TreeOK, Held
  <1> HIDE DEF L
  <1>3. NodesTyped(ns) /\ Ranked(ns) BY DEF TreeOK
  <1>4. \A i \in L : OscAddressIn(ms, i) = OscAddressIn(ns, i)
    BY <1>1, <1>2, <1>3, SameText
  <1> QED BY <1>4 DEF L

LEMMA NodeMoved ==
  ASSUME NEW ns, TreeOK(ns), NEW n \in Linked(ns) \ {Root}, DOMAIN ns[n].children = {},
         NEW p, ns[n].parent = p, NEW name \in Singles, NEW instance \in Instances,
         <<name, instance>> \notin DOMAIN ns[p].children \ {ChildKey(ns, n)},
         NEW ms, Moved(ns, ms, n, p, name, instance)
  PROVE  /\ TreeOK(ms) /\ Linked(ms) = Linked(ns) /\ Pending(ms) = Pending(ns)
         /\ Len(ms) = Len(ns)
         /\ \A i \in Linked(ns) \ {n} : OscAddressIn(ms, i) = OscAddressIn(ns, i)
         /\ OscAddressIn(ms, n) = Join(OscAddressIn(ns, p), name, instance)
  <1> DEFINE key == ChildKey(ns, n)
             new == <<name, instance>>
  <1>1. /\ ns \in Seq(NodeType) /\ DOMAIN ns = 1..Len(ns) /\ Linked(ns) \subseteq DOMAIN ns
        /\ Root \in Linked(ns) /\ n \in DOMAIN ns /\ n # Root /\ p \in DOMAIN ns /\ p # n
        /\ key \in DOMAIN ns[p].children /\ ns[p].children[key] = n /\ p \in Linked(ns)
    BY TreeIs DEF Held
  <1>2. ns[n].created = 1 /\ ns[n].live BY DEF Linked
  <1>3. /\ NodesTyped(ms) /\ Ranked(ms) /\ DOMAIN ms = DOMAIN ns
        /\ \A i \in DOMAIN ns :
             /\ ms[i].parent = ns[i].parent /\ ms[i].live = ns[i].live
             /\ ms[i].created = ns[i].created
             /\ i # p => ms[i].children = ns[i].children
             /\ i # n => ms[i].name = ns[i].name /\ ms[i].instance = ns[i].instance
        /\ ms[n].name = name /\ ms[n].instance = instance
        /\ DOMAIN ms[p].children = (DOMAIN ns[p].children \ {key}) \cup {new}
        /\ \A k \in DOMAIN ns[p].children : k # key => ms[p].children[k] = ns[p].children[k]
        /\ ms[p].children[new] = n
    BY DEF Moved
  <1>4. new \notin DOMAIN ns[p].children \ {key} OBVIOUS
  <1>5. ChildKey(ms, n) = new /\ \A i \in DOMAIN ns : i # n => ChildKey(ms, i) = ChildKey(ns, i)
    BY <1>3 DEF ChildKey
  <1> HIDE DEF key, new
  <1>6. Len(ms) = Len(ns) BY <1>3, <1>1, LenProperties DEF NodesTyped
  <1>7. Linked(ms) = Linked(ns) /\ Pending(ms) = Pending(ns)
    BY <1>3 DEF Linked, Pending
  <1>8. ASSUME NEW i \in Linked(ms) \ {Root} PROVE Held(ms, i)
    <2>1. CASE i = n BY <1>1, <1>3, <1>5, <2>1, <1>7 DEF Held
    <2>2. CASE i # n
      <3>1. i \in Linked(ns) /\ i \in DOMAIN ns /\ Held(ns, i) BY <1>1, <1>7, TreeIs
      <3>2. PICK q \in Linked(ns) : q = ns[i].parent BY <3>1 DEF Held
      <3>3. q \in DOMAIN ns /\ ChildKey(ns, i) \in DOMAIN ns[q].children
            /\ ns[q].children[ChildKey(ns, i)] = i
        BY <1>1, <3>1, <3>2 DEF Held
      <3>4. ms[i].parent = q /\ ChildKey(ms, i) = ChildKey(ns, i)
        BY <1>3, <1>5, <2>2, <3>1, <3>2
      <3>5. ChildKey(ns, i) \in DOMAIN ms[q].children
            /\ ms[q].children[ChildKey(ns, i)] = i
        <4>1. CASE q = p BY <1>1, <2>2, <3>3, <4>1, <1>3
        <4>2. CASE q # p BY <1>3, <3>3, <4>2
        <4> QED BY <4>1, <4>2
      <3> QED BY <1>7, <3>2, <3>4, <3>5 DEF Held
    <2> QED BY <2>1, <2>2
  <1>9. ASSUME NEW x \in DOMAIN ns, NEW k \in DOMAIN ms[x].children
        PROVE  Holds(ms, x, k)
    <2>1. CASE x = p /\ k = new BY <1>1, <1>3, <1>5, <2>1, <1>7 DEF Holds
    <2>2. CASE ~ (x = p /\ k = new)
      <3>1. k \in DOMAIN ns[x].children /\ ms[x].children[k] = ns[x].children[k]
            /\ (x = p => k # key)
        BY <1>3, <2>2
      <3>2. PICK c : c = ns[x].children[k] OBVIOUS
      <3>3. Holds(ns, x, k) BY <3>1, TreeIs
      <3>4. c \in Linked(ns) /\ c # Root /\ ns[c].parent = x /\ ChildKey(ns, c) = k
        BY <3>2, <3>3 DEF Holds
      <3>5. c # n BY <3>1, <3>4 DEF key
      <3>6. c \in DOMAIN ns /\ ms[c].parent = x /\ ChildKey(ms, c) = k
        BY <1>1, <1>3, <1>5, <3>4, <3>5
      <3>7. ms[x].children[k] = c BY <3>1, <3>2
      <3> QED BY <1>7, <3>4, <3>6, <3>7 DEF Holds
    <2> QED BY <2>1, <2>2
  <1>10. ASSUME NEW i \in DOMAIN ns
         PROVE  /\ ms[i].created \in {0, 1}
                /\ i # Root => ms[i].name \in Singles
                /\ ms[i].created = 0 => ms[i].live /\ DOMAIN ms[i].children = {}
                /\ ms[i].parent # 0 => ms[ms[i].parent].created = 1
    <2>1. /\ ns[i].created \in {0, 1}
          /\ i # Root => ns[i].name \in Singles
          /\ ns[i].created = 0 => ns[i].live /\ DOMAIN ns[i].children = {}
          /\ ns[i].parent # 0 => ns[ns[i].parent].created = 1
      BY DEF TreeOK
    <2>2. ns[i].parent # 0 => ns[i].parent \in DOMAIN ns BY TreeIs
    <2>3. ms[i].parent # 0 => ms[ms[i].parent].created = 1 BY <1>3, <2>1, <2>2
    <2>4. ns[p].created = 1 BY <1>1 DEF Linked
    <2>5. ms[i].created = 0 => ms[i].live /\ DOMAIN ms[i].children = {}
      BY <1>3, <2>4, <2>1
    <2>6. i # Root => ms[i].name \in Singles BY <1>3, <2>1
    <2> QED BY <1>3, <2>1, <2>3, <2>5, <2>6
  <1>11. ms[Root].parent = 0 BY <1>1, <1>3 DEF TreeOK
  <1>12. TreeOK(ms) BY <1>3, <1>8, <1>10, <1>9, <1>1, <1>7, <1>11 DEF TreeOK
  <1>13. \A i \in Linked(ns) \ {n} : OscAddressIn(ms, i) = OscAddressIn(ns, i)
    BY <1>3, LeafElsewhere
  <1>14. OscAddressIn(ms, n) = Join(OscAddressIn(ns, p), name, instance)
    BY <1>1, <1>7, <1>13, <1>3, <1>12, AdrIs
  <1> QED BY <1>6, <1>7, <1>12, <1>13, <1>14

(* generateInstance finds an instance that is free.                        *)
LEMMA TableFree ==
  ASSUME NEW ns, TreeOK(ns), Len(ns) <= Len(Numerals), NEW p \in DOMAIN ns,
         NEW name \in Singles, NEW os, Len(os) = Len(ns),
         DOMAIN os[p].children \subseteq DOMAIN ns[p].children,
         \A k \in DOMAIN os[p].children : os[p].children[k] = ns[p].children[k]
  PROVE  LET instance == GenerateInstance(os, p, name)
         IN  /\ instance \in Instances
             /\ instance \in {<<Numerals[i]>> : i \in DOMAIN Numerals}
             /\ <<name, instance>> \notin DOMAIN os[p].children
  <1>1. /\ Len(ns) \in Nat \ {0} /\ DOMAIN ns = 1..Len(ns) /\ Linked(ns) \subseteq DOMAIN ns
        /\ DOMAIN ns[p].children \subseteq ChildKeys
        /\ \A k \in DOMAIN ns[p].children : Holds(ns, p, k)
    BY TreeIs
  <1>2. ASSUME NEW k \in DOMAIN os[p].children
        PROVE  /\ os[p].children[k] \in 2..Len(os)
               /\ ChildKey(ns, os[p].children[k]) = k
    BY <1>1 DEF Holds, Root
  <1>3. Len(os) \in Nat \ {0} /\ Len(os) <= Len(Numerals) BY <1>1
  <1>4. DOMAIN os[p].children \subseteq ChildKeys BY <1>1
  <1>5. \A k \in DOMAIN os[p].children : os[p].children[k] \in 2..Len(os) BY <1>2
  <1>6. \A k, l \in DOMAIN os[p].children : os[p].children[k] = os[p].children[l] => k = l
    BY <1>2
  <1> QED BY <1>3, <1>4, <1>5, <1>6, FreeInstance

LEMMA TakenFree ==
  ASSUME NEW ns, TreeOK(ns), Len(ns) <= Len(Numerals), NEW p \in DOMAIN ns,
         NEW name \in Singles, NEW key, NEW os, Taken(ns, os, p, key)
  PROVE  LET instance == GenerateInstance(os, p, name)
         IN  /\ instance \in Instances
             /\ instance \in {<<Numerals[i]>> : i \in DOMAIN Numerals}
             /\ <<name, instance>> \notin DOMAIN os[p].children
  <1>1. ns \in Seq(NodeType) BY TreeIs
  <1>2. os \in Seq(NodeType) /\ DOMAIN os = DOMAIN ns BY DEF Taken, NodesTyped
  <1>3. Len(os) = Len(ns) BY <1>1, <1>2, LenProperties
  <1>4. DOMAIN os[p].children \subseteq DOMAIN ns[p].children
        /\ \A k \in DOMAIN os[p].children : os[p].children[k] = ns[p].children[k]
    BY DEF Taken
  <1> QED BY <1>3, <1>4, TableFree

LEMMA RenamedFrom ==
  ASSUME NEW ns, TreeOK(ns), NEW n \in Linked(ns) \ {Root}, DOMAIN ns[n].children = {},
         NEW p \in DOMAIN ns, ns[n].parent = p, NEW name \in Singles, NEW got \in Instances,
         NEW out, Taken(ns, out, p, ChildKey(ns, n)),
         <<name, got>> \notin DOMAIN out[p].children,
         NEW named, Called(out, named, n, name, got)
  PROVE  /\ OscAddressIn(named, n) = Join(OscAddressIn(ns, p), name, got)
         /\ Moved(ns, SetChild(named, n), n, p, name, got)
  <1>1. n \in DOMAIN ns /\ n # p /\ p \in Linked(ns) /\ p # 0 BY TreeIs DEF Held
  <1>2. /\ NodesTyped(out) /\ Ranked(out) /\ DOMAIN out = DOMAIN ns
        /\ DOMAIN out[p].children = DOMAIN ns[p].children \ {ChildKey(ns, n)}
        /\ out[n].parent = p
    BY <1>1 DEF Taken
  <1>3. /\ NodesTyped(named) /\ Ranked(named) /\ DOMAIN named = DOMAIN ns
        /\ named[n].parent = p /\ named[n].name = name /\ named[n].instance = got
        /\ named[p].children = out[p].children
    BY <1>1, <1>2 DEF Called
  <1>4. ChildKey(named, n) = <<name, got>> BY <1>3 DEF ChildKey
  <1>5. OscAddressIn(named, n) = Join(OscAddressIn(ns, p), name, got)
    <2>1. \A i \in DOMAIN ns :
           /\ named[i].parent = ns[i].parent
           /\ i # n => named[i].name = ns[i].name /\ named[i].instance = ns[i].instance
      BY <1>2 DEF Called, Taken
    <2>2. NodesTyped(named) /\ Ranked(named) /\ DOMAIN named = DOMAIN ns BY <1>3
    <2>3. OscAddressIn(named, p) = OscAddressIn(ns, p)
      BY <1>1, <2>1, <2>2, LeafElsewhere
    <2>4. n \in DOMAIN named /\ named[n].parent # 0 BY <1>1, <1>3
    <2>5. OscAddressIn(named, n)
            = Join(OscAddressIn(named, named[n].parent), named[n].name, named[n].instance)
      BY <2>2, <2>4, TextIs
    <2> QED BY <1>3, <2>3, <2>5
  <1>6. Entered(named, SetChild(named, n), p, <<name, got>>, n)
    <2>1. named[n].parent = p BY <1>3
    <2>2. SetChild(named, n) = [named EXCEPT ![p].children = With(@, ChildKey(named, n), n)]
      BY <2>1, SetChildIs
    <2>3. <<name, got>> \in ChildKeys BY DEF ChildKeys
    <2>4. n \in DOMAIN named /\ p \in DOMAIN named /\ <<name, got>> \notin DOMAIN named[p].children
      BY <1>1, <1>3
    <2> DEFINE new == <<name, got>>
               ms == [named EXCEPT ![p].children = With(@, new, n)]
    <2>5. Entered(named, ms, p, new, n) BY <1>3, <2>3, <2>4, EntrySet
    <2>6. SetChild(named, n) = ms BY <1>4, <2>2
    <2> HIDE DEF ms
    <2> QED BY <2>5, <2>6
  <1>7. Moved(ns, SetChild(named, n), n, p, name, got)
    <2> DEFINE ms == SetChild(named, n)
    <2>1. n \in DOMAIN ns /\ Entered(named, ms, p, <<name, got>>, n) BY <1>1, <1>6
    <2> HIDE DEF ms
    <2>2. Moved(ns, ms, n, p, name, got) BY <2>1, MovedFrom
    <2> QED BY <2>2 DEF ms
  <1> QED BY <1>5, <1>7

(* setName and setInstance, step by step.                                  *)
TakenOut(ns, n, p) == [ns EXCEPT ![p].children = Without(@, ChildKey(ns, n))]

InstanceFor(ns, n, p, name, instance) ==
  IF <<name, instance>> \in DOMAIN TakenOut(ns, n, p)[p].children
  THEN GenerateInstance(TakenOut(ns, n, p), p, name) ELSE instance

RenamedAs(ns, n, p, name, instance) ==
  [TakenOut(ns, n, p) EXCEPT ![n].name = name,
                             ![n].instance = InstanceFor(ns, n, p, name, instance)]

RenamedIn(ns, named, n, p, name, instance, got) ==
  /\ got \in Instances
  /\ got \in {instance} \cup {<<Numerals[i]>> : i \in DOMAIN Numerals}
  /\ <<name, got>> \notin DOMAIN ns[p].children \ {ChildKey(ns, n)}
  /\ OscAddressIn(named, n) = Join(OscAddressIn(ns, p), name, got)
  /\ Moved(ns, SetChild(named, n), n, p, name, got)

LEMMA RenamedNodes ==
  ASSUME NEW ns, TreeOK(ns), Len(ns) <= Len(Numerals),
         NEW n \in Linked(ns) \ {Root}, DOMAIN ns[n].children = {},
         NEW p \in DOMAIN ns, ns[n].parent = p, NEW name \in Singles, NEW instance \in Instances
  PROVE  RenamedIn(ns, RenamedAs(ns, n, p, name, instance), n, p, name, instance,
                   InstanceFor(ns, n, p, name, instance))
  <1> DEFINE out == TakenOut(ns, n, p)
             got == InstanceFor(ns, n, p, name, instance)
             named == RenamedAs(ns, n, p, name, instance)
  <1>1. n \in DOMAIN ns /\ NodesTyped(ns) /\ Ranked(ns) BY TreeIs DEF TreeOK
  <1>2. Taken(ns, out, p, ChildKey(ns, n)) BY <1>1, EntryTaken DEF TakenOut
  <1> HIDE DEF out
  <1>3. /\ got \in Instances /\ got \in {instance} \cup {<<Numerals[i]>> : i \in DOMAIN Numerals}
        /\ <<name, got>> \notin DOMAIN out[p].children
    <2> DEFINE g == GenerateInstance(out, p, name)
    <2>1. /\ g \in Instances /\ g \in {<<Numerals[i]>> : i \in DOMAIN Numerals}
          /\ <<name, g>> \notin DOMAIN out[p].children
      BY <1>2, TakenFree
    <2> HIDE DEF g
    <2>2. CASE <<name, instance>> \in DOMAIN out[p].children
      BY <2>2, <2>1 DEF g, InstanceFor, out
    <2>3. CASE <<name, instance>> \notin DOMAIN out[p].children
      BY <2>3 DEF InstanceFor, out
    <2> QED BY <2>2, <2>3
  <1> HIDE DEF got
  <1>4. Called(out, named, n, name, got)
    <2>1. NodesTyped(out) /\ Ranked(out) /\ n \in DOMAIN out BY <1>1, <1>2 DEF Taken
    <2>2. named = [out EXCEPT ![n].name = name, ![n].instance = got]
      BY DEF RenamedAs, out, got
    <2>3. Called(out, [out EXCEPT ![n].name = name, ![n].instance = got], n, name, got)
      BY <1>3, <2>1, CalledIs
    <2> QED BY <2>2, <2>3
  <1> HIDE DEF named
  <1>5. /\ OscAddressIn(named, n) = Join(OscAddressIn(ns, p), name, got)
        /\ Moved(ns, SetChild(named, n), n, p, name, got)
    BY <1>2, <1>3, <1>4, RenamedFrom
  <1>6. <<name, got>> \notin DOMAIN ns[p].children \ {ChildKey(ns, n)}
    BY <1>2, <1>3 DEF Taken
  <1> QED BY <1>3, <1>5, <1>6 DEF RenamedIn, got, named

-----------------------------------------------------------------------------
(* The directory, and the calls in progress.                               *)

(* The directory: what it maps the addresses to are the nodes of the tree. *)
DirOK(ns, d) ==
  /\ DOMAIN d \subseteq Places
  /\ Separator \in DOMAIN d /\ d[Separator] = Root
  /\ \A a \in DOMAIN d : d[a] \in Linked(ns) /\ OscAddressIn(ns, d[a]) = a

LEMMA DirIs ==
  ASSUME NEW ns, TreeOK(ns), NEW d, DirOK(ns, d)
  PROVE  /\ DOMAIN d \subseteq Sites /\ HandedIn(d) \subseteq Linked(ns) /\ Root \in HandedIn(d)
         /\ \A n \in Linked(ns) : OscAddressIn(ns, n) \in DOMAIN d =>
              d[OscAddressIn(ns, n)] = n /\ n \in HandedIn(d)
         /\ \A n \in HandedIn(d) : OscAddressIn(ns, n) \in DOMAIN d /\ d[OscAddressIn(ns, n)] = n
         /\ \A a \in DOMAIN d : d[a] \in HandedIn(d) /\ (a # Separator => d[a] # Root)
  <1>1. \A a \in DOMAIN d : d[a] \in Linked(ns) /\ OscAddressIn(ns, d[a]) = a
    BY DEF DirOK
  <1>2. DOMAIN d \subseteq Sites BY <1>1, AdrIs
  <1>3. HandedIn(d) \subseteq Linked(ns) /\ Root \in HandedIn(d)
    BY <1>1 DEF HandedIn, DirOK
  <1>4. ASSUME NEW n \in Linked(ns), OscAddressIn(ns, n) \in DOMAIN d
        PROVE  d[OscAddressIn(ns, n)] = n /\ n \in HandedIn(d)
    BY <1>4, <1>1, AdrInjective DEF HandedIn
  <1>5. ASSUME NEW n \in HandedIn(d)
        PROVE  OscAddressIn(ns, n) \in DOMAIN d /\ d[OscAddressIn(ns, n)] = n
    BY <1>1 DEF HandedIn
  <1>6. ASSUME NEW a \in DOMAIN d
        PROVE  d[a] \in HandedIn(d) /\ (a # Separator => d[a] # Root)
    BY <1>3, AdrIs, <1>1 DEF HandedIn
  <1> QED BY <1>2, <1>3, <1>4, <1>5, <1>6

-----------------------------------------------------------------------------
(* The calls in progress.                                                  *)
FrameType ==
  [op : {"create", "remove", "destroy", "notify"},
   pc : {"instantiate", "setChild", "return", "erase", "destroying", "children",
         "keys", "observers", "callback"},
   address : Address, node : Nat, todo : SUBSET Address, group : SUBSET ChildKeys,
   key : Address]

Numbers == {<<Numerals[i]>> : i \in DOMAIN Numerals}

(* What holds of a call, given the nodes and which of them are handed out. *)
CreateBase(ns, H, f) ==
  /\ f.address \in Sites \ {Separator} /\ f.address \in Places
  /\ \/ f.pc = "instantiate" /\ f.node = 0
     \/ /\ f.pc = "setChild" /\ f.node \in Pending(ns)
        /\ ns[f.node].name = SplitOSCAddress(f.address).name
        /\ ns[f.node].instance \in {SplitOSCAddress(f.address).instance} \cup Numbers
     \/ /\ f.pc = "return" /\ f.node \in H \ {Root} /\ f.node \in Linked(ns)
        /\ ParentOf(OscAddressIn(ns, f.node)) = ParentOf(f.address)

RemoveBase(ns, H, f) ==
  /\ f.node \in Linked(ns) \ {Root} /\ f.address = OscAddressIn(ns, f.node)
  /\ \/ f.pc = "erase" /\ f.node \in H
     \/ f.pc = "destroying"

DestroyBase(ns, H, f) ==
  f.pc = "children" /\ f.address = None /\ f.node \in Linked(ns) \ H

NotifyBase(ns, H, f) ==
  /\ f.pc \in {"keys", "observers", "callback"}
  /\ f.node \in H \ {Root} /\ f.node \in Linked(ns) /\ f.address = OscAddressIn(ns, f.node)

Base(ns, H, f) ==
  /\ f.op = "create" => CreateBase(ns, H, f)
  /\ f.op = "remove" => RemoveBase(ns, H, f)
  /\ f.op = "destroy" => DestroyBase(ns, H, f)
  /\ f.op = "notify" => NotifyBase(ns, H, f)

(* The children that a destructor has still to visit.                      *)
Covered(ns, f, done) ==
  \A k \in DOMAIN ns[f.node].children : k \in done \/ k \in f.group \/ k[1] \in f.todo

(* A call and the one that it is nested in.                                *)
Nested(f, g) ==
  /\ g.op = "create" =>
       \/ f.op = "create" /\ g.pc = "setChild" /\ ParentOf(g.address) = f.address
       \/ f.op = "notify" /\ g.pc = "return" /\ f.node = g.node
  /\ g.op = "remove" =>
       \/ f.op = "notify" /\ g.pc = "erase" /\ f.node = g.node
       \/ f.op = "destroy" /\ g.pc = "destroying" /\ f.node = g.node
  /\ g.op = "destroy" => f.op = "remove"
  /\ g.op = "notify" => f.op \in {"create", "remove"} /\ g.pc = "callback"

Related(ns, f, g) ==
  /\ f.op = "create" /\ g.op = "create" =>
       /\ ns[g.node].parent = 0
       /\ ns[g.node].instance = SplitOSCAddress(g.address).instance
       /\ f.pc = "setChild" => ns[f.node].instance = SplitOSCAddress(f.address).instance
       /\ f.pc = "return" => /\ OscAddressIn(ns, f.node) = f.address
                             /\ ChildKey(ns, g.node) \notin DOMAIN ns[f.node].children
  /\ g.op = "destroy" =>
       ns[f.node].parent = g.node /\ Covered(ns, g, {ChildKey(ns, f.node)})

(* A call and any that it is nested in.                                    *)
Apart(f, g) ==
  /\ g.address # None /\ f.op = "create" /\ f.pc # "return" => ~ AtOrBelow(f.address, g.address)
  /\ g.address # None /\ f.op = "remove" => ~ AtOrBelow(g.address, f.address)
  /\ f.op = "create" /\ f.pc = "setChild" /\ g.op = "create" /\ g.pc = "setChild" =>
       f.node # g.node

Chain(ns, H, s) ==
  /\ s \in Seq(FrameType)
  /\ \A i \in DOMAIN s : Base(ns, H, s[i])
  /\ \A i \in DOMAIN s : i > 1 => Nested(s[i - 1], s[i]) /\ Related(ns, s[i - 1], s[i])
  /\ s # <<>> => s[Len(s)].op \in {"create", "remove"}
  /\ \A i, j \in DOMAIN s : i < j => Apart(s[i], s[j])

LEMMA ChainPush ==
  ASSUME NEW ns, NEW H, NEW u, Chain(ns, H, u), NEW x \in FrameType, Base(ns, H, x),
         u # <<>> => Nested(x, u[1]) /\ Related(ns, x, u[1]),
         u = <<>> => x.op \in {"create", "remove"},
         \A g \in Range(u) : Apart(x, g)
  PROVE  Chain(ns, H, Pushed(u, x))
  <1> DEFINE s == Pushed(u, x)
  <1>1. u \in Seq(FrameType) BY DEF Chain
  <1>2. /\ s \in Seq(FrameType) /\ s # <<>> /\ Len(s) = Len(u) + 1 /\ Len(u) \in Nat
        /\ DOMAIN u = 1..Len(u) /\ DOMAIN s = 1..Len(u) + 1 /\ s[1] = x
        /\ \A i \in 1..Len(u) : s[i + 1] = u[i]
    BY <1>1, Push
  <1> HIDE DEF s
  <1>3. ASSUME NEW i \in DOMAIN s, i # 1
        PROVE  i - 1 \in 1..Len(u) /\ s[i] = u[i - 1]
    BY <1>2, <1>3
  <1>4. \A i \in DOMAIN s : Base(ns, H, s[i])
    <2>1. ASSUME NEW i \in DOMAIN s PROVE Base(ns, H, s[i]) BY <1>2, <1>3 DEF Chain
    <2> QED BY <2>1
  <1>5. \A i \in DOMAIN s : i > 1 => Nested(s[i - 1], s[i]) /\ Related(ns, s[i - 1], s[i])
    <2>1. ASSUME NEW i \in DOMAIN s, i > 1
          PROVE  Nested(s[i - 1], s[i]) /\ Related(ns, s[i - 1], s[i])
      <3>1. i - 1 \in 1..Len(u) /\ s[i] = u[i - 1] BY <1>2, <1>3, <2>1
      <3>2. CASE i = 2 BY <1>2, <3>1, <3>2
      <3>3. CASE i # 2
        <4>1. i - 1 \in DOMAIN s /\ i - 1 # 1 /\ i - 1 > 1 BY <1>2, <2>1, <3>1, <3>3
        <4>2. s[i - 1] = u[(i - 1) - 1] BY <1>3, <4>1
        <4> QED BY <1>2, <3>1, <4>1, <4>2 DEF Chain
      <3> QED BY <3>2, <3>3
    <2> QED BY <2>1
  <1>6. s[Len(s)].op \in {"create", "remove"} BY <1>2, <1>1, EmptySeq DEF Chain
  <1>7. ASSUME NEW i \in DOMAIN s, NEW j \in DOMAIN s, i < j PROVE Apart(s[i], s[j])
    <2>1. j # 1 /\ j - 1 \in DOMAIN u /\ s[j] = u[j - 1] BY <1>2, <1>3, <1>7
    <2>2. CASE i = 1 BY <2>1, <1>2, <2>2 DEF Range
    <2>3. CASE i # 1 BY <1>2, <1>3, <1>7, <2>3, <2>1 DEF Chain
    <2> QED BY <2>2, <2>3
  <1> QED BY <1>2, <1>4, <1>5, <1>6, <1>7 DEF Chain, s

LEMMA ChainBelow ==
  ASSUME NEW ns, NEW H, NEW s, Chain(ns, H, s), NEW u \in Seq(FrameType), NEW x \in FrameType,
         Len(s) = Len(u) + 1, s[1] = x, \A i \in 1..Len(u) : s[i + 1] = u[i]
  PROVE  /\ Chain(ns, H, u) /\ Base(ns, H, x)
         /\ u # <<>> => Nested(x, u[1]) /\ Related(ns, x, u[1])
         /\ u = <<>> => x.op \in {"create", "remove"}
         /\ \A g \in Range(u) : Apart(x, g) /\ Base(ns, H, g) /\ g \in FrameType
  <1>1. s \in Seq(FrameType) BY DEF Chain
  <1>2. /\ Len(u) \in Nat /\ DOMAIN s = 1..Len(u) + 1 /\ DOMAIN u = 1..Len(u)
        /\ Len(s) = Len(u) + 1
    BY <1>1
  <1>3. /\ 1 \in DOMAIN s
        /\ \A i \in DOMAIN u : i + 1 \in DOMAIN s /\ u[i] = s[i + 1] /\ i \in Nat /\ 1 < i + 1
    BY <1>2
  <1>4. Base(ns, H, x) BY <1>3 DEF Chain
  <1>5. ASSUME u # <<>> PROVE Nested(x, u[1]) /\ Related(ns, x, u[1])
    <2>1. Len(u) # 0 BY <1>5, EmptySeq
    <2>2. 2 \in DOMAIN s /\ u[1] = s[2] /\ x = s[2 - 1] /\ 2 > 1 BY <1>2, <1>3, <2>1
    <2>3. Nested(s[2 - 1], s[2]) /\ Related(ns, s[2 - 1], s[2]) BY <2>2 DEF Chain
    <2> QED BY <2>2, <2>3
  <1>6. ASSUME u = <<>> PROVE x.op \in {"create", "remove"}
    BY <1>1, <1>2, <1>6, EmptySeq DEF Chain
  <1>7. ASSUME NEW g \in Range(u)
        PROVE  Apart(x, g) /\ Base(ns, H, g) /\ g \in FrameType
    <2>1. PICK i \in DOMAIN u : g = u[i] BY DEF Range
    <2>2. g = s[i + 1] /\ i + 1 \in DOMAIN s /\ 1 < i + 1 /\ 1 \in DOMAIN s
      BY <1>3, <2>1
    <2>3. Apart(s[1], s[i + 1]) /\ Base(ns, H, s[i + 1]) BY <2>2 DEF Chain
    <2>4. g \in FrameType BY <1>2, <2>1, ElementOfSeq
    <2> QED BY <2>2, <2>3, <2>4
  <1>8. Chain(ns, H, u)
    <2>2. \A i \in DOMAIN u : Base(ns, H, u[i]) BY <1>3 DEF Chain
    <2>3. ASSUME NEW i \in DOMAIN u, i > 1
          PROVE  Nested(u[i - 1], u[i]) /\ Related(ns, u[i - 1], u[i])
      <3>1. i - 1 \in DOMAIN u /\ (i - 1) + 1 = (i + 1) - 1 /\ i + 1 > 1
        BY <1>2, <2>3
      <3>2. u[i - 1] = s[(i + 1) - 1] /\ u[i] = s[i + 1] /\ i + 1 \in DOMAIN s
        BY <1>3, <3>1
      <3>3. Nested(s[(i + 1) - 1], s[i + 1]) /\ Related(ns, s[(i + 1) - 1], s[i + 1])
        BY <3>1, <3>2 DEF Chain
      <3> QED BY <3>2, <3>3
    <2>4. ASSUME u # <<>> PROVE u[Len(u)].op \in {"create", "remove"}
      BY <2>4, EmptySeq, <1>1, <1>2, <1>3 DEF Chain
    <2>5. ASSUME NEW i \in DOMAIN u, NEW j \in DOMAIN u, i < j PROVE Apart(u[i], u[j])
      BY <1>2, <2>5, <1>3 DEF Chain
    <2> QED BY <2>2, <2>3, <2>4, <2>5 DEF Chain
  <1> QED BY <1>4, <1>5, <1>6, <1>7, <1>8

LEMMA ChainPop ==
  ASSUME NEW ns, NEW H, NEW s, Chain(ns, H, s), s # <<>>
  PROVE  /\ Chain(ns, H, Tail(s)) /\ Head(s) \in FrameType /\ Base(ns, H, Head(s))
         /\ Tail(s) \in Seq(FrameType)
         /\ s = Pushed(Tail(s), Head(s)) /\ Range(s) = {Head(s)} \cup Range(Tail(s))
         /\ Tail(s) # <<>> => Nested(Head(s), Tail(s)[1]) /\ Related(ns, Head(s), Tail(s)[1])
         /\ Tail(s) = <<>> => Head(s).op \in {"create", "remove"}
         /\ \A g \in Range(Tail(s)) : Apart(Head(s), g) /\ Base(ns, H, g) /\ g \in FrameType
  <1>1. s \in Seq(FrameType) BY DEF Chain
  <1>2. /\ Tail(s) \in Seq(FrameType) /\ Head(s) \in FrameType /\ Head(s) = s[1]
        /\ Len(s) \in Nat \ {0} /\ Len(Tail(s)) = Len(s) - 1
        /\ \A i \in 1..Len(s) - 1 : Tail(s)[i] = s[i + 1]
        /\ s = Pushed(Tail(s), Head(s)) /\ Range(s) = {Head(s)} \cup Range(Tail(s))
    BY <1>1, Pop
  <1> DEFINE u == Tail(s)
             x == Head(s)
  <1>3. u \in Seq(FrameType) /\ x \in FrameType BY <1>2
  <1>4. Len(s) = Len(u) + 1 BY <1>2
  <1>5. s[1] = x /\ \A i \in 1..Len(u) : s[i + 1] = u[i] BY <1>2
  <1> HIDE DEF u, x
  <1>6. /\ Chain(ns, H, u) /\ Base(ns, H, x)
        /\ u # <<>> => Nested(x, u[1]) /\ Related(ns, x, u[1])
        /\ u = <<>> => x.op \in {"create", "remove"}
        /\ \A g \in Range(u) : Apart(x, g) /\ Base(ns, H, g) /\ g \in FrameType
    BY <1>3, <1>4, <1>5, ChainBelow
  <1> QED BY <1>2, <1>6 DEF u, x

-----------------------------------------------------------------------------
(* What steps that leave a call's nodes alone leave of it.                 *)

(* Two neighbours among the calls.                                         *)
LEMMA Neighbours ==
  ASSUME NEW ns, NEW H, NEW s, Chain(ns, H, s), NEW g \in Range(s)
  PROVE  /\ g \in FrameType /\ Base(ns, H, g)
         /\ g = s[1] \/ \E f \in Range(s) : f \in FrameType /\ Nested(f, g) /\ Related(ns, f, g)
         /\ g = s[Len(s)] \/ \E h \in Range(s) : h \in FrameType /\ Nested(g, h)
                                                 /\ Related(ns, g, h)
  <1>1. s \in Seq(FrameType) BY DEF Chain
  <1>2. Len(s) \in Nat /\ DOMAIN s = 1..Len(s) BY <1>1
  <1>3. PICK i \in DOMAIN s : g = s[i] BY DEF Range
  <1>4. \A j \in DOMAIN s : s[j] \in FrameType /\ s[j] \in Range(s)
    BY <1>1, ElementOfSeq DEF Range
  <1>5. g \in FrameType /\ Base(ns, H, g) BY <1>3, <1>4 DEF Chain
  <1>6. CASE i = 1 /\ i = Len(s) BY <1>3, <1>5, <1>6
  <1>7. ASSUME i # 1
        PROVE  \E f \in Range(s) : f \in FrameType /\ Nested(f, g) /\ Related(ns, f, g)
    <2>1. i - 1 \in DOMAIN s /\ i > 1 BY <1>2, <1>7
    <2>2. Nested(s[i - 1], s[i]) /\ Related(ns, s[i - 1], s[i]) BY <2>1 DEF Chain
    <2> QED BY <1>3, <1>4, <2>1, <2>2
  <1>8. ASSUME i # Len(s)
        PROVE  \E h \in Range(s) : h \in FrameType /\ Nested(g, h) /\ Related(ns, g, h)
    <2>1. i + 1 \in DOMAIN s /\ i + 1 > 1 /\ (i + 1) - 1 = i BY <1>2, <1>8
    <2>2. Nested(s[(i + 1) - 1], s[i + 1]) /\ Related(ns, s[(i + 1) - 1], s[i + 1])
      BY <2>1 DEF Chain
    <2> QED BY <1>3, <1>4, <2>1, <2>2
  <1> QED BY <1>3, <1>5, <1>7, <1>8

(* Who is told of a creation that returns; what a destructor belongs to.   *)
LEMMA ReturnsTold ==
  ASSUME NEW ns, NEW H, NEW s, Chain(ns, H, s), NEW g \in Range(s),
         g.op = "create", g.pc = "return", s[1].op # "create"
  PROVE  \E f \in Range(s) : f.op = "notify" /\ f.node = g.node
  BY Neighbours DEF Nested

LEMMA DestroyBelow ==
  ASSUME NEW ns, NEW H, NEW s, Chain(ns, H, s), NEW g \in Range(s), g.op = "destroy"
  PROVE  \E h \in Range(s) : h.op = "remove" /\ h.pc = "destroying" /\ h.node = g.node
  <1>1. s # <<>> BY DEF Range, Chain
  <1>2. s[Len(s)].op \in {"create", "remove"} BY <1>1 DEF Chain
  <1>3. g # s[Len(s)] BY <1>2
  <1>4. PICK h \in Range(s) : h \in FrameType /\ Nested(g, h) BY <1>3, Neighbours
  <1> QED BY <1>4 DEF Nested, FrameType

(* The node of no call in progress.                                        *)
LEMMA NodesElsewhere ==
  ASSUME NEW ns, TreeOK(ns), NEW H, NEW s, Chain(ns, H, s), s # <<>> => s[1].op # "create",
         NEW n \in Linked(ns), n \in H,
         \A g \in Range(s) : g.op \in {"notify", "remove"} => g.address # OscAddressIn(ns, n)
  PROVE  \A g \in Range(s) : g.node # n
  <1>1. \A g \in Range(s) : g \in FrameType /\ Base(ns, H, g) BY Neighbours
  <1>2. \A g \in Range(s) : g.op \in {"notify", "remove"} => g.node # n
    BY <1>1 DEF Base, NotifyBase, RemoveBase
  <1>3. \A g \in Range(s) : g.op = "destroy" => g.node # n
    BY <1>1 DEF Base, DestroyBase
  <1>4. n \in DOMAIN ns /\ n # 0 /\ n \notin Pending(ns) BY TreeIs
  <1>5. ASSUME NEW g \in Range(s), g.op = "create" PROVE g.node # n
    BY <1>1, <1>5, ReturnsTold, <1>2, <1>4 DEF Base, Range, CreateBase
  <1> QED BY <1>1, <1>2, <1>3, <1>5 DEF FrameType

(* What the calls in progress look at stays as it is.                      *)
Undisturbed(ns, H, ms, I, n) ==
  /\ n \in Pending(ns) => n \in Pending(ms)
  /\ n \in Linked(ns) => n \in Linked(ms) /\ OscAddressIn(ms, n) = OscAddressIn(ns, n)
  /\ n \in H <=> n \in I
  /\ ms[n].name = ns[n].name /\ ms[n].instance = ns[n].instance /\ ms[n].parent = ns[n].parent

NoMoreChildren(ns, ms, f) ==
  f.op = "destroy" \/ (f.op = "create" /\ f.pc = "return" /\ OscAddressIn(ns, f.node) = f.address)
    => DOMAIN ms[f.node].children \subseteq DOMAIN ns[f.node].children

LEMMA BaseStable ==
  ASSUME NEW ns, NEW H, NEW ms, NEW I, NEW g \in FrameType, Base(ns, H, g),
         g.node \in Linked(ns) \cup Pending(ns) => Undisturbed(ns, H, ms, I, g.node)
  PROVE  Base(ms, I, g)
  <1>1. CASE g.op = "create" BY <1>1 DEF Base, CreateBase, Undisturbed
  <1>2. CASE g.op = "remove" BY <1>2 DEF Base, RemoveBase, Undisturbed
  <1>3. CASE g.op = "destroy" BY <1>3 DEF Base, DestroyBase, Undisturbed
  <1>4. CASE g.op = "notify" BY <1>4 DEF Base, NotifyBase, Undisturbed
  <1> QED BY <1>1, <1>2, <1>3, <1>4 DEF FrameType

LEMMA RelatedStable ==
  ASSUME NEW ns, NEW H, NEW ms, NEW I, NEW f \in FrameType, NEW g \in FrameType,
         Base(ns, H, f), Base(ns, H, g), Nested(f, g), Related(ns, f, g),
         f.node \in Linked(ns) \cup Pending(ns) => Undisturbed(ns, H, ms, I, f.node),
         g.node \in Linked(ns) \cup Pending(ns) => Undisturbed(ns, H, ms, I, g.node),
         NoMoreChildren(ns, ms, f), NoMoreChildren(ns, ms, g)
  PROVE  Related(ms, f, g)
  <1>1. ASSUME f.op = "create", g.op = "create"
        PROVE  /\ ms[g.node].parent = 0
               /\ ms[g.node].instance = SplitOSCAddress(g.address).instance
               /\ f.pc = "setChild" => ms[f.node].instance = SplitOSCAddress(f.address).instance
               /\ f.pc = "return" => /\ OscAddressIn(ms, f.node) = f.address
                                     /\ ChildKey(ms, g.node) \notin DOMAIN ms[f.node].children
    <2>1. g.pc = "setChild" BY <1>1 DEF Nested
    <2>2. g.node \in Pending(ns) BY <1>1, <2>1 DEF Base, CreateBase
    <2>3. /\ ms[g.node].parent = ns[g.node].parent /\ ms[g.node].name = ns[g.node].name
          /\ ms[g.node].instance = ns[g.node].instance
      BY <2>2 DEF Undisturbed
    <2>4. ms[g.node].parent = 0 /\ ms[g.node].instance = SplitOSCAddress(g.address).instance
      BY <1>1, <2>3 DEF Related
    <2>5. ASSUME f.pc = "setChild"
          PROVE  ms[f.node].instance = SplitOSCAddress(f.address).instance
      BY <1>1, <2>5 DEF Base, CreateBase, Undisturbed, Related
    <2>6. ASSUME f.pc = "return"
          PROVE  /\ OscAddressIn(ms, f.node) = f.address
                 /\ ChildKey(ms, g.node) \notin DOMAIN ms[f.node].children
      <3>1. f.node \in Linked(ns) BY <1>1, <2>6 DEF Base, CreateBase
      <3>2. OscAddressIn(ms, f.node) = OscAddressIn(ns, f.node)
        BY <3>1 DEF Undisturbed
      <3>3. OscAddressIn(ns, f.node) = f.address
            /\ ChildKey(ns, g.node) \notin DOMAIN ns[f.node].children
        BY <1>1, <2>6 DEF Related
      <3>4. DOMAIN ms[f.node].children \subseteq DOMAIN ns[f.node].children
        BY <1>1, <2>6, <3>3 DEF NoMoreChildren
      <3>5. ChildKey(ms, g.node) = ChildKey(ns, g.node) BY <2>3 DEF ChildKey
      <3> QED BY <3>2, <3>3, <3>4, <3>5
    <2> QED BY <2>4, <2>5, <2>6
  <1>2. ASSUME g.op = "destroy"
        PROVE  ms[f.node].parent = g.node /\ Covered(ms, g, {ChildKey(ms, f.node)})
    <2>1. f.op = "remove" BY <1>2 DEF Nested
    <2>2. f.node \in Linked(ns) BY <2>1 DEF Base, RemoveBase
    <2>3. /\ ms[f.node].parent = ns[f.node].parent /\ ms[f.node].name = ns[f.node].name
          /\ ms[f.node].instance = ns[f.node].instance
      BY <2>2 DEF Undisturbed
    <2>4. ChildKey(ms, f.node) = ChildKey(ns, f.node) BY <2>3 DEF ChildKey
    <2>5. DOMAIN ms[g.node].children \subseteq DOMAIN ns[g.node].children
      BY <1>2 DEF NoMoreChildren
    <2>6. ns[f.node].parent = g.node /\ Covered(ns, g, {ChildKey(ns, f.node)})
      BY <1>2 DEF Related
    <2> QED BY <2>3, <2>4, <2>5, <2>6 DEF Covered
  <1> QED BY <1>1, <1>2 DEF Related

LEMMA ChainStable ==
  ASSUME NEW ns, NEW H, NEW s, Chain(ns, H, s), NEW ms, NEW I,
         \A g \in Range(s) : g.node \in Linked(ns) \cup Pending(ns) =>
           Undisturbed(ns, H, ms, I, g.node),
         \A g \in Range(s) : NoMoreChildren(ns, ms, g)
  PROVE  Chain(ms, I, s)
  <1>1. s \in Seq(FrameType) BY DEF Chain
  <1>2. \A i \in DOMAIN s : s[i] \in FrameType /\ s[i] \in Range(s) /\ Base(ns, H, s[i])
    BY <1>1, ElementOfSeq DEF Range, Chain
  <1>3. ASSUME NEW i \in DOMAIN s PROVE Base(ms, I, s[i]) BY <1>2, BaseStable
  <1>4. ASSUME NEW i \in DOMAIN s, i > 1
        PROVE  Nested(s[i - 1], s[i]) /\ Related(ms, s[i - 1], s[i])
    <2>1. i - 1 \in DOMAIN s BY <1>1, <1>4
    <2> DEFINE f == s[i - 1]
               g == s[i]
    <2>2. /\ f \in FrameType /\ g \in FrameType /\ f \in Range(s) /\ g \in Range(s)
          /\ Base(ns, H, f) /\ Base(ns, H, g)
      BY <1>2, <2>1
    <2>3. Nested(f, g) /\ Related(ns, f, g) BY <1>4 DEF Chain
    <2> HIDE DEF f, g
    <2>4. Related(ms, f, g) BY <2>2, <2>3, RelatedStable
    <2> QED BY <2>3, <2>4 DEF f, g
  <1> QED BY <1>1, <1>3, <1>4 DEF Chain

-----------------------------------------------------------------------------
(* The inductive invariant.                                                *)

(* What holds besides of the innermost call.                               *)
CreateTop(ns, d, x, u) ==
  /\ x.pc = "instantiate" =>
       /\ Len(ns) + CountSeparator(x.address) <= Len(Numerals)
       /\ u # <<>> /\ u[1].op = "create" => x.address \notin DOMAIN d
  /\ x.pc = "setChild" =>
       /\ ns[x.node].parent \in HandedIn(d)
       /\ OscAddressIn(ns, ns[x.node].parent) = ParentOf(x.address)
       /\ ChildKey(ns, x.node) \notin DOMAIN ns[ns[x.node].parent].children

TopOK(ns, d, x, u) ==
  /\ x.op = "create" => CreateTop(ns, d, x, u)
  /\ x.op = "remove" => x.pc = "erase"
  /\ x.op = "destroy" => Covered(ns, x, {})

(* Nodes that are live but not handed out are in the hands of a call.      *)
Accounted(ns, H, F) ==
  /\ \A n \in Linked(ns) \ H : \E f \in F : f.op = "destroy" /\ f.node = n
  /\ \A n \in Pending(ns) : \E f \in F : f.op = "create" /\ f.pc = "setChild" /\ f.node = n
  /\ \A n \in DOMAIN ns :
       ns[n].destroyed = IF ns[n].live /\ \A f \in F : f.op = "remove" => f.node # n
                         THEN 0 ELSE 1

Sound(ns, d, s) ==
  /\ TreeOK(ns) /\ DirOK(ns, d) /\ Len(ns) <= Len(Numerals)
  /\ Chain(ns, HandedIn(d), s)
  /\ s # <<>> => TopOK(ns, d, Head(s), Tail(s))
  /\ Accounted(ns, HandedIn(d), Range(s))

Listings == [list : Seq(Observers) \ {<<>>}, iter : Nat]

ObsOK(obs, F) ==
  /\ DOMAIN obs \subseteq Keys /\ obs \in [DOMAIN obs -> Listings]
  /\ \A k \in DOMAIN obs : obs[k].iter \in 1..Len(obs[k].list) + 1
  /\ \A f \in F : f.op = "notify" =>
       f.todo \subseteq DOMAIN obs /\ (f.pc # "keys" => f.key \in DOMAIN obs)

IInv == Sound(nodes, directory, stack) /\ ObsOK(observers, Range(stack))

LEMMA SoundPush ==
  ASSUME NEW ns, NEW d, NEW u, NEW x \in FrameType, TreeOK(ns), DirOK(ns, d),
         Len(ns) <= Len(Numerals), Chain(ns, HandedIn(d), u), Base(ns, HandedIn(d), x),
         u # <<>> => Nested(x, u[1]) /\ Related(ns, x, u[1]),
         u = <<>> => x.op \in {"create", "remove"},
         \A g \in Range(u) : Apart(x, g), TopOK(ns, d, x, u),
         Accounted(ns, HandedIn(d), {x} \cup Range(u))
  PROVE  Sound(ns, d, Pushed(u, x))
  <1> DEFINE s == Pushed(u, x)
  <1>1. u \in Seq(FrameType) BY DEF Chain
  <1>2. Range(s) = {x} \cup Range(u) /\ Head(s) = x /\ Tail(s) = u
    BY <1>1, Push, PushTop
  <1>3. Chain(ns, HandedIn(d), s) BY ChainPush
  <1> HIDE DEF s
  <1> QED BY <1>2, <1>3 DEF Sound, s

LEMMA SoundPop ==
  ASSUME NEW ns, NEW d, NEW s, Sound(ns, d, s), s # <<>>
  PROVE  /\ TreeOK(ns) /\ DirOK(ns, d) /\ Len(ns) <= Len(Numerals)
         /\ Chain(ns, HandedIn(d), Tail(s)) /\ Head(s) \in FrameType
         /\ Base(ns, HandedIn(d), Head(s)) /\ Tail(s) \in Seq(FrameType)
         /\ Tail(s) # <<>> => Nested(Head(s), Tail(s)[1]) /\ Related(ns, Head(s), Tail(s)[1])
         /\ Tail(s) = <<>> => Head(s).op \in {"create", "remove"}
         /\ \A g \in Range(Tail(s)) :
              Apart(Head(s), g) /\ Base(ns, HandedIn(d), g) /\ g \in FrameType
         /\ TopOK(ns, d, Head(s), Tail(s))
         /\ Accounted(ns, HandedIn(d), {Head(s)} \cup Range(Tail(s)))
         /\ Range(s) = {Head(s)} \cup Range(Tail(s))
  <1>1. Chain(ns, HandedIn(d), s) BY DEF Sound
  <1>2. Range(s) = {Head(s)} \cup Range(Tail(s)) BY <1>1, ChainPop
  <1> QED BY <1>1, <1>2, ChainPop DEF Sound

(* What the frames that are made consist of.                               *)
LEMMA FrameIs ==
  ASSUME NEW op \in {"create", "remove", "destroy", "notify"},
         NEW pc \in {"instantiate", "setChild", "return", "erase", "destroying", "children",
                     "keys", "observers", "callback"},
         NEW address \in Address, NEW node \in Nat
  PROVE  LET f == Frame(op, pc, address, node)
         IN  /\ f \in FrameType /\ f.op = op /\ f.pc = pc /\ f.address = address /\ f.node = node
             /\ f.todo = {} /\ f.group = {} /\ f.key = None
  BY NoneAddress DEF Frame, FrameType

LEMMA NotifyFrameIs ==
  ASSUME NEW address \in Address, NEW node \in Nat, DOMAIN observers \subseteq Keys
  PROVE  LET f == NotifyFrame(address, node)
         IN  /\ f \in FrameType /\ f.op = "notify" /\ f.pc = "keys" /\ f.address = address
             /\ f.node = node /\ f.todo \subseteq DOMAIN observers
  <1>1. Keys \subseteq Address BY NodeDirectoryAssumption
  <1> DEFINE g == Frame("notify", "keys", address, node)
             keys == {k \in DOMAIN observers :
                        CompareOSCAddress[<<address, k>>] \in {"Equal", "Lower"}}
  <1>2. g \in FrameType /\ g.op = "notify" /\ g.pc = "keys" /\ g.address = address /\ g.node = node
    BY FrameIs
  <1>3. keys \in SUBSET Address /\ keys \subseteq DOMAIN observers BY <1>1
  <1>4. NotifyFrame(address, node) = [g EXCEPT !.todo = keys] BY DEF NotifyFrame
  <1> HIDE DEF g, keys
  <1> QED BY <1>2, <1>3, <1>4 DEF FrameType

(* The address of a call.                                                  *)
LEMMA AddressIsSite ==
  ASSUME NEW ns, TreeOK(ns), NEW H, NEW g \in FrameType, Base(ns, H, g)
  PROVE  /\ g.address = None \/ g.address \in Sites
         /\ g.op \in {"create", "remove", "notify"} => g.address \in Sites /\ g.address # None
         /\ g.op \in {"remove", "notify"} => g.address = OscAddressIn(ns, g.node)
  <1>1. None \notin Sites BY SiteAddress
  <1>2. CASE g.op = "create" BY <1>1, <1>2 DEF Base, CreateBase
  <1>3. CASE g.op = "remove" BY <1>3, <1>1, AdrIs DEF Base, RemoveBase
  <1>4. CASE g.op = "notify" BY <1>4, <1>1, AdrIs DEF Base, NotifyBase
  <1>5. CASE g.op = "destroy" BY <1>5 DEF Base, DestroyBase
  <1> QED BY <1>2, <1>3, <1>4, <1>5 DEF FrameType

(* Where a caller may call the directory.                                  *)
LEMMA MayCallIs ==
  ASSUME IInv, NEW rule \in Rules, NEW a \in Address, MayCall(rule, a)
  PROVE  /\ stack # <<>> => /\ stack[1].op = "notify" /\ stack[1].pc = "callback"
                            /\ Head(stack) = stack[1]
         /\ \A g \in Range(stack) : g.address # None =>
              ~ AtOrBelow(a, g.address) /\ ~ AtOrBelow(g.address, a)
  <1>1. stack \in Seq(FrameType) BY DEF IInv, Sound, Chain
  <1>2. ASSUME stack # <<>>
        PROVE  stack[1].op = "notify" /\ stack[1].pc = "callback" /\ Head(stack) = stack[1]
    BY <1>1, <1>2, Pop DEF MayCall, At
  <1>3. ASSUME NEW g \in Range(stack), g.address # None
        PROVE  ~ AtOrBelow(a, g.address) /\ ~ AtOrBelow(g.address, a)
    <2>1. PICK i \in DOMAIN stack : g = stack[i] BY DEF Range
    <2>2. stack # <<>> /\ g.address \in Address
      <3>1. stack # <<>> /\ i \in 1..Len(stack) BY <1>1, <2>1
      <3>2. g \in FrameType BY <1>1, <2>1, <3>1, ElementOfSeq
      <3> QED BY <3>1, <3>2 DEF FrameType
    <2>3. CompareOSCAddress[<<a, g.address>>] = "Different"
      BY <1>3, <2>1, <2>2 DEF MayCall
    <2> QED BY <2>2, <2>3, DifferentApart
  <1> QED BY <1>2, <1>3

(* The directory stays right where its nodes stay.                         *)
LEMMA DirStable ==
  ASSUME NEW ns, NEW d, DirOK(ns, d), NEW ms,
         \A n \in HandedIn(d) : n \in Linked(ms) /\ OscAddressIn(ms, n) = OscAddressIn(ns, n)
  PROVE  DirOK(ms, d)
  BY DEF DirOK, HandedIn

-----------------------------------------------------------------------------
(* A removal begins.                                                       *)

(* A removal is announced and begins, whoever asks for it.                 *)
MayRemove(ns, d, a, w) ==
  /\ w # <<>> =>
       \/ w[1].op = "notify" /\ w[1].pc = "callback"
       \/ /\ w[1].op = "destroy" /\ ns[d[a]].parent = w[1].node
          /\ Covered(ns, w[1], {ChildKey(ns, d[a])})
  /\ \A g \in Range(w) : g.address # None => ~ AtOrBelow(g.address, a)

RemoveFrame(r, d, a) == r.op = "remove" /\ r.pc = "erase" /\ r.address = a /\ r.node = d[a]
TellFrame(m, a, n) == m.op = "notify" /\ m.pc = "keys" /\ m.address = a /\ m.node = n

LEMMA RemovalBegun ==
  ASSUME NEW ns, NEW d, TreeOK(ns), DirOK(ns, d), Len(ns) <= Len(Numerals),
         NEW w, Chain(ns, HandedIn(d), w), Accounted(ns, HandedIn(d), Range(w)),
         NEW a \in DOMAIN d, a # Separator, MayRemove(ns, d, a, w),
         NEW r \in FrameType, RemoveFrame(r, d, a), NEW m \in FrameType, TellFrame(m, a, d[a])
  PROVE  Sound([ns EXCEPT ![d[a]].destroyed = @ + 1], d, Pushed(Pushed(w, r), m))
  <1> DEFINE n == d[a]
             H == HandedIn(d)
             ms == [ns EXCEPT ![n].destroyed = @ + 1]
             v == Pushed(w, r)
  <1>1. /\ n \in H /\ n # Root /\ n \in Linked(ns) /\ OscAddressIn(ns, n) = a
        /\ H \subseteq Linked(ns) /\ n \in DOMAIN ns /\ a \in Sites /\ a # None
    BY DirIs, TreeIs, SiteAddress DEF DirOK
  <1>2. n \in DOMAIN ns BY <1>1
  <1>3. /\ TreeOK(ms) /\ Linked(ms) = Linked(ns) /\ Pending(ms) = Pending(ns)
        /\ \A i \in Linked(ns) : OscAddressIn(ms, i) = OscAddressIn(ns, i)
        /\ DOMAIN ms = DOMAIN ns /\ Len(ms) = Len(ns)
        /\ \A i \in DOMAIN ns :
             /\ SameNode(ms[i], ns[i])
             /\ ms[i].destroyed = IF i = n THEN ns[i].destroyed + 1 ELSE ns[i].destroyed
    BY <1>2, AnnouncedNodes DEF AnnouncedIn
  <1>4. RemoveFrame(r, d, a) /\ r.op = "remove" /\ r.pc = "erase" /\ r.address = a /\ r.node = n
    BY DEF RemoveFrame
  <1>5. m.op = "notify" /\ m.pc = "keys" /\ m.address = a /\ m.node = n
    BY DEF TellFrame
  <1>6. /\ w # <<>> =>
             \/ w[1].op = "notify" /\ w[1].pc = "callback"
             \/ /\ w[1].op = "destroy" /\ ns[n].parent = w[1].node
                /\ Covered(ns, w[1], {ChildKey(ns, n)})
        /\ \A g \in Range(w) : g.address # None => ~ AtOrBelow(g.address, a)
    BY DEF MayRemove
  <1>7. \A g \in Range(w) : g \in FrameType /\ Base(ns, H, g) BY Neighbours
  <1>8. Linked(ns) \subseteq DOMAIN ns /\ Pending(ns) \subseteq DOMAIN ns BY TreeIs
  <1>9. Accounted(ns, H, Range(w)) /\ Chain(ns, H, w) /\ w \in Seq(FrameType)
    BY DEF Chain
  <1>10. DirOK(ms, d) BY <1>1, <1>3, DirStable
  <1> HIDE DEF n, H, ms
  <1>11. \A i \in DOMAIN ns : Undisturbed(ns, H, ms, H, i)
    BY <1>3 DEF Undisturbed, SameNode
  <1>12. Chain(ms, H, w)
    BY <1>8, <1>11, <1>7, <1>3, <1>9, ChainStable (* The removal. *) DEF Base, DestroyBase,
       CreateBase, NoMoreChildren, SameNode
  <1>13. Base(ms, H, r) BY <1>1, <1>3, <1>4 DEF Base, RemoveBase
  <1>14. ASSUME w # <<>> PROVE Nested(r, w[1]) /\ Related(ms, r, w[1])
    <2>1. Nested(r, w[1]) BY <1>4, <1>6, <1>14 DEF Nested
    <2>2. ASSUME w[1].op = "destroy"
          PROVE  ms[r.node].parent = w[1].node /\ Covered(ms, w[1], {ChildKey(ms, r.node)})
      <3>1. ns[n].parent = w[1].node /\ Covered(ns, w[1], {ChildKey(ns, n)})
        BY <1>6, <1>14, <2>2
      <3>2. w[1] \in Range(w) BY <1>9, <1>14, EmptySeq DEF Range
      <3>3. w[1].node \in DOMAIN ns BY <1>7, <1>8, <2>2, <3>2 DEF Base, DestroyBase
      <3>4. ChildKey(ms, n) = ChildKey(ns, n) /\ ms[n].parent = ns[n].parent
        BY <1>1, <1>3 DEF ChildKey, SameNode
      <3>5. ms[w[1].node].children = ns[w[1].node].children
        BY <1>3, <3>3 DEF SameNode
      <3> QED BY <1>4, <3>1, <3>4, <3>5 DEF Covered
    <2> QED BY <1>4, <2>1, <2>2 DEF Related
  <1>15. \A g \in Range(w) : Apart(r, g) BY <1>4, <1>6 DEF Apart
  <1>16. Chain(ms, H, v) BY <1>4, <1>12, <1>13, <1>14, <1>15, ChainPush
  <1>17. v \in Seq(FrameType) /\ v # <<>> /\ v[1] = r /\ Range(v) = {r} \cup Range(w)
    BY <1>9, Push
  <1> HIDE DEF v
  (* The observers are told first.                                         *)
  <1>18. Base(ms, H, m) BY <1>1, <1>3, <1>5 DEF Base, NotifyBase
  <1>19. Nested(m, v[1]) /\ Related(ms, m, v[1])
    BY <1>4, <1>5, <1>17 DEF Nested, Related
  <1>20. \A g \in Range(v) : Apart(m, g) BY <1>5 DEF Apart
  <1>21. TopOK(ms, d, m, v) BY <1>5 DEF TopOK
  <1>22. Accounted(ms, H, {m} \cup Range(v))
    <2>1. {m} \cup Range(v) = {m, r} \cup Range(w) BY <1>17
    <2>2. \A i \in Linked(ms) \ H : \E f \in {m, r} \cup Range(w) : f.op = "destroy" /\ f.node = i
      BY <1>3, <1>9 DEF Accounted
    <2>3. \A i \in Pending(ms) :
            \E f \in {m, r} \cup Range(w) : f.op = "create" /\ f.pc = "setChild" /\ f.node = i
      BY <1>3, <1>9 DEF Accounted
    <2>4. \A f \in Range(w) : f.op = "remove" => f.node # n
      BY <1>1, <1>7, <1>6, BelowAll DEF Base, RemoveBase
    <2>5. ASSUME NEW i \in DOMAIN ms
          PROVE  ms[i].destroyed =
                   IF ms[i].live /\ \A f \in {m, r} \cup Range(w) : f.op = "remove" => f.node # i
                   THEN 0 ELSE 1
      BY <1>3, <1>9, <1>1, <2>4, <1>4, <1>5 DEF Accounted, SameNode, Linked
    <2> QED BY <2>1, <2>2, <2>3, <2>5 DEF Accounted
  <1>23. Len(ms) <= Len(Numerals) BY <1>3
  <1>24. TreeOK(ms) BY <1>3
  <1> HIDE DEF MayRemove, RemoveFrame, TellFrame
  <1>25. Sound(ms, d, Pushed(v, m))
    BY <1>10, <1>16, <1>17, <1>18, <1>19, <1>20, <1>21, <1>22, <1>23, <1>24, SoundPush DEF H
  <1> QED BY <1>25 DEF ms, v, n

LEMMA PushTwo ==
  ASSUME NEW S, NEW s \in Seq(S), NEW x \in S, NEW y \in S
  PROVE  /\ <<y, x>> \o s = Pushed(Pushed(s, x), y)
         /\ Range(Pushed(Pushed(s, x), y)) = {y, x} \cup Range(s)
  <1>1. Pushed(s, x) \in Seq(S) /\ Range(Pushed(s, x)) = {x} \cup Range(s) BY Push
  <1>2. Range(Pushed(Pushed(s, x), y)) = {y} \cup Range(Pushed(s, x))
    BY <1>1, Push, Zenon
  <1>3. <<y, x>> \o s = Pushed(Pushed(s, x), y) BY DEF Pushed
  <1> QED BY <1>1, <1>2, <1>3

(* TTNodeCreate is called.                                                 *)
LEMMA CallCreateKeeps ==
  ASSUME IInv, CallerRules \subseteq Rules, NEW a \in Requests, CallCreate(a)
  PROVE  IInv'
  <1> DEFINE x == Frame("create", "instantiate", a, 0)
             H == HandedIn(directory)
  <1>1. /\ stack' = Pushed(stack, x) /\ nodes' = nodes /\ directory' = directory
        /\ observers' = observers /\ Len(nodes) < MaxNodes /\ MayCall("CreateElsewhere", a)
    BY DEF CallCreate, Pushed
  <1>2. /\ TreeOK(nodes) /\ DirOK(nodes, directory) /\ Len(nodes) <= Len(Numerals)
        /\ Chain(nodes, H, stack) /\ Accounted(nodes, H, Range(stack))
        /\ ObsOK(observers, Range(stack)) /\ stack \in Seq(FrameType)
    BY DEF IInv, Sound, Chain
  <1>3. /\ a \in Address /\ a # None /\ IsPath(a) /\ a \in Places
        /\ MaxNodes + CountSeparator(a) <= Len(Numerals) + 1
    BY NodeDirectoryAssumption, PlacesAssumption
  <1>4. a \in Sites \ {Separator}
    <2>1. a \in Sites BY <1>3, SiteAddress
    <2>2. ~ IsPath(Separator) BY SeparatorIs DEF IsPath
    <2> QED BY <1>3, <2>1, <2>2
  <1>5. /\ stack # <<>> => stack[1].op = "notify" /\ stack[1].pc = "callback"
        /\ \A g \in Range(stack) : g.address # None => ~ AtOrBelow(a, g.address)
    BY <1>1, <1>3, MayCallIs DEF CallerRules
  <1>6. /\ x \in FrameType /\ x.op = "create" /\ x.pc = "instantiate" /\ x.address = a
        /\ x.node = 0
    BY <1>3, FrameIs
  <1> HIDE DEF x
  <1>7. Base(nodes, H, x) BY <1>3, <1>4, <1>6 DEF Base, CreateBase
  <1>8. stack # <<>> => Nested(x, stack[1]) /\ Related(nodes, x, stack[1])
    BY <1>5, <1>6 DEF Nested, Related
  <1>9. \A g \in Range(stack) : Apart(x, g) BY <1>5, <1>6 DEF Apart
  <1>10. TopOK(nodes, directory, x, stack)
    BY <1>2, <1>4, TreeIs, CountPositive, NodeDirectoryAssumption, <1>1, <1>3, <1>5, <1>6 DEF
       TopOK, CreateTop
  <1>11. Accounted(nodes, H, {x} \cup Range(stack)) BY <1>2, <1>6 DEF Accounted
  <1>12. Sound(nodes, directory, Pushed(stack, x))
    BY <1>2, <1>6, <1>7, <1>8, <1>9, <1>10, <1>11, SoundPush
  <1>13. ObsOK(observers, Range(Pushed(stack, x)))
    <2>1. Range(Pushed(stack, x)) = {x} \cup Range(stack) BY <1>2, <1>6, Push
    <2> QED BY <1>2, <1>6, <2>1 DEF ObsOK
  <1> QED BY <1>1, <1>12, <1>13 DEF IInv

(* TTNodeRemove is called.                                                 *)
LEMMA CallRemoveKeeps ==
  ASSUME IInv, CallerRules \subseteq Rules, NEW a \in DOMAIN directory, CallRemove(a)
  PROVE  IInv'
  <1> DEFINE H == HandedIn(directory)
             n == directory[a]
             r == Frame("remove", "erase", a, n)
             m == NotifyFrame(a, n)
             ms == [nodes EXCEPT ![n].destroyed = @ + 1]
  <1>1. /\ stack' = <<m, r>> \o stack /\ nodes' = ms /\ directory' = directory
        /\ observers' = observers /\ MayCall("ChangeElsewhere", a) /\ a # Separator
    BY DEF CallRemove, RemoveFrames, Announced
  <1>2. /\ TreeOK(nodes) /\ DirOK(nodes, directory) /\ Len(nodes) <= Len(Numerals)
        /\ Chain(nodes, H, stack) /\ Accounted(nodes, H, Range(stack))
        /\ ObsOK(observers, Range(stack)) /\ stack \in Seq(FrameType)
        /\ DOMAIN observers \subseteq Keys
    BY DEF IInv, Sound, Chain, ObsOK
  <1>3. a \in Sites /\ a \in Address /\ n \in Linked(nodes)
    BY <1>2, DirIs, SiteAddress
  <1>4. n \in Nat BY <1>2, <1>3, TreeIs
  <1>5. /\ r \in FrameType /\ RemoveFrame(r, directory, a)
        /\ m \in FrameType /\ TellFrame(m, a, n) /\ m.todo \subseteq DOMAIN observers
    <2>1. /\ r \in FrameType /\ r.op = "remove" /\ r.pc = "erase" /\ r.address = a /\ r.node = n
      BY <1>3, <1>4, FrameIs
    <2>2. /\ m \in FrameType /\ m.op = "notify" /\ m.pc = "keys" /\ m.address = a
          /\ m.node = n /\ m.todo \subseteq DOMAIN observers
      BY <1>2, <1>3, <1>4, NotifyFrameIs
    <2> QED BY <2>1, <2>2 DEF RemoveFrame, TellFrame
  <1>6. MayRemove(nodes, directory, a, stack)
    BY <1>1, <1>3, MayCallIs DEF CallerRules, MayRemove
  <1> HIDE DEF r, m
  <1>7. Sound(ms, directory, Pushed(Pushed(stack, r), m))
    BY <1>1, <1>2, <1>5, <1>6, RemovalBegun
  <1>8. /\ <<m, r>> \o stack = Pushed(Pushed(stack, r), m)
        /\ Range(Pushed(Pushed(stack, r), m)) = {m, r} \cup Range(stack)
    BY <1>2, <1>5, PushTwo
  <1>9. ObsOK(observers, {m, r} \cup Range(stack))
    BY <1>2, <1>5 DEF ObsOK, RemoveFrame, TellFrame
  <1> HIDE DEF ms
  <1> QED BY <1>1, <1>7, <1>8, <1>9 DEF IInv

-----------------------------------------------------------------------------
(* The walks of the observers' lists.                                      *)

(* The walk of an observers' list and a destructor go on.                  *)
LEMMA TopReplaced ==
  ASSUME NEW ns, NEW d, NEW s, Sound(ns, d, s), s # <<>>, Head(s).op \in {"notify", "destroy"},
         NEW y \in FrameType, y.op = Head(s).op, y.node = Head(s).node,
         Base(ns, HandedIn(d), y), TopOK(ns, d, y, Tail(s))
  PROVE  Sound(ns, d, Pushed(Tail(s), y))
  <1> DEFINE x == Head(s)
             u == Tail(s)
             H == HandedIn(d)
  <1>1. /\ TreeOK(ns) /\ DirOK(ns, d) /\ Len(ns) <= Len(Numerals)
        /\ Chain(ns, H, u) /\ x \in FrameType /\ u \in Seq(FrameType)
        /\ u # <<>> => Nested(x, u[1]) /\ Related(ns, x, u[1])
        /\ u = <<>> => x.op \in {"create", "remove"}
        /\ Accounted(ns, H, {x} \cup Range(u))
    BY SoundPop
  <1>2. /\ y.op \in {"notify", "destroy"} /\ y.op = x.op /\ y.node = x.node
        /\ x.op \in {"notify", "destroy"} /\ Base(ns, H, y) /\ TopOK(ns, d, y, u)
    OBVIOUS
  <1> HIDE DEF x, u, H
  <1>3. ASSUME u # <<>> PROVE Nested(y, u[1]) /\ Related(ns, y, u[1])
    BY <1>1, <1>3, <1>2 DEF Nested, Related
  <1>4. u # <<>> BY <1>1, <1>2
  <1>5. \A g \in Range(u) : Apart(y, g) BY <1>2 DEF Apart
  <1>6. Accounted(ns, H, {y} \cup Range(u))
    <2>1. ASSUME NEW i \in Linked(ns) \ H
          PROVE  \E f \in {y} \cup Range(u) : f.op = "destroy" /\ f.node = i
      BY <1>1, <1>2 DEF Accounted
    <2>2. ASSUME NEW i \in Pending(ns)
          PROVE  \E f \in {y} \cup Range(u) : f.op = "create" /\ f.pc = "setChild" /\ f.node = i
      BY <1>1, <1>2 DEF Accounted
    <2>3. \A i : (\A f \in {y} \cup Range(u) : f.op = "remove" => f.node # i)
                   <=> (\A f \in {x} \cup Range(u) : f.op = "remove" => f.node # i)
      BY <1>2
    <2>4. \A i \in DOMAIN ns :
            ns[i].destroyed = IF ns[i].live /\ \A f \in {x} \cup Range(u) : f.op = "remove" => f.node # i
                              THEN 0 ELSE 1
      BY <1>1 DEF Accounted
    <2>5. \A i \in DOMAIN ns :
            ns[i].destroyed = IF ns[i].live /\ \A f \in {y} \cup Range(u) : f.op = "remove" => f.node # i
                              THEN 0 ELSE 1
      BY <2>3, <2>4
    <2> QED BY <2>1, <2>2, <2>5 DEF Accounted
  <1>7. Sound(ns, d, Pushed(u, y))
    BY <1>1, <1>2, <1>3, <1>4, <1>5, <1>6, SoundPush DEF H
  <1> QED BY <1>7 DEF u

LEMMA Replaced ==
  ASSUME NEW S, NEW s \in Seq(S), s # <<>>, NEW y \in S
  PROVE  <<y>> \o Tail(s) = Pushed(Tail(s), y) /\ Range(Pushed(Tail(s), y)) = {y} \cup Range(Tail(s))
  <1>1. Tail(s) \in Seq(S) BY Pop
  <1> QED BY <1>1, Push DEF Pushed

(* Of the innermost call.                                                  *)
LEMMA Opened ==
  ASSUME IInv, NEW op, NEW pc, At(op, pc)
  PROVE  /\ Top \in FrameType /\ Top.op = op /\ Top.pc = pc /\ stack # <<>> /\ Top = Head(stack)
         /\ Sound(nodes, directory, stack) /\ stack \in Seq(FrameType)
         /\ Range(stack) = {Top} \cup Range(Tail(stack))
         /\ ObsOK(observers, {Top} \cup Range(Tail(stack)))
         /\ Base(nodes, HandedIn(directory), Top) /\ TopOK(nodes, directory, Top, Tail(stack))
  <1>1. Sound(nodes, directory, stack) /\ ObsOK(observers, Range(stack)) /\ stack # <<>>
    BY DEF IInv, At
  <1>2. /\ Head(stack) \in FrameType /\ Range(stack) = {Head(stack)} \cup Range(Tail(stack))
        /\ Base(nodes, HandedIn(directory), Head(stack))
        /\ TopOK(nodes, directory, Head(stack), Tail(stack))
    BY <1>1, SoundPop
  <1>3. stack \in Seq(FrameType) BY <1>1 DEF Sound, Chain
  <1> QED BY <1>1, <1>2, <1>3 DEF At, Top

(* A step of the walk: nothing but the call and the iterators change.      *)
LEMMA WalkKeeps ==
  ASSUME IInv, stack # <<>>, Top.op = "notify", NEW y \in FrameType, y.op = "notify",
         y.pc \in {"keys", "observers", "callback"}, y.node = Top.node, y.address = Top.address,
         nodes' = nodes, directory' = directory, Replace(<<y>>),
         DOMAIN observers' = DOMAIN observers, observers' \in [DOMAIN observers' -> Listings],
         \A k \in DOMAIN observers : observers'[k].iter \in 1..Len(observers'[k].list) + 1,
         y.todo \subseteq DOMAIN observers, y.pc # "keys" => y.key \in DOMAIN observers
  PROVE  IInv'
  <1> DEFINE u == Tail(stack)
             H == HandedIn(directory)
  <1>1. At("notify", Top.pc) BY DEF At, Top
  <1>2. /\ Top = Head(stack) /\ Sound(nodes, directory, stack) /\ stack \in Seq(FrameType)
        /\ ObsOK(observers, {Top} \cup Range(u)) /\ Base(nodes, H, Top) /\ Top \in FrameType
    BY <1>1, Opened
  <1>3. Base(nodes, H, y) BY <1>2 DEF Base, NotifyBase
  <1>4. TopOK(nodes, directory, y, u) BY DEF TopOK
  <1>5. Sound(nodes, directory, Pushed(u, y)) BY <1>2, <1>3, <1>4, TopReplaced
  <1>6. stack' = Pushed(u, y) /\ Range(Pushed(u, y)) = {y} \cup Range(u)
    BY <1>2, Replaced DEF Replace
  <1>7. ObsOK(observers', {y} \cup Range(u)) BY <1>2 DEF ObsOK
  <1> HIDE DEF u
  <1>8. Sound(nodes', directory', stack') BY <1>5, <1>6
  <1>9. ObsOK(observers', Range(stack')) BY <1>6, <1>7
  <1> QED BY <1>8, <1>9 DEF IInv

(* What a listing with another iterator is.                                *)
LEMMA ListingSet ==
  ASSUME NEW obs, obs \in [DOMAIN obs -> Listings], NEW k \in DOMAIN obs,
         NEW i \in 1..Len(obs[k].list) + 1,
         \A l \in DOMAIN obs : obs[l].iter \in 1..Len(obs[l].list) + 1
  PROVE  LET r == [obs EXCEPT ![k].iter = i]
         IN  /\ DOMAIN r = DOMAIN obs /\ r \in [DOMAIN r -> Listings]
             /\ \A l \in DOMAIN obs : r[l].iter \in 1..Len(r[l].list) + 1
  <1> DEFINE r == [obs EXCEPT ![k].iter = i]
             e == [obs[k] EXCEPT !.iter = i]
  <1>1. obs[k] \in Listings OBVIOUS
  <1>2. Len(obs[k].list) \in Nat BY <1>1 DEF Listings
  <1>3. e \in Listings /\ e.iter = i /\ e.list = obs[k].list
    BY <1>1, <1>2 DEF Listings
  <1>4. r = [obs EXCEPT ![k] = e] OBVIOUS
  <1> HIDE DEF e
  <1>5. DOMAIN r = DOMAIN obs /\ r[k] = e /\ \A l \in DOMAIN obs : l # k => r[l] = obs[l]
    BY <1>4
  <1> HIDE DEF r
  <1>6. r \in [DOMAIN r -> Listings] BY <1>3, <1>5, <1>4
  <1>7. \A l \in DOMAIN obs : r[l].iter \in 1..Len(r[l].list) + 1 BY <1>3, <1>5
  <1> QED BY <1>5, <1>6, <1>7 DEF r

LEMMA NextKeyKeeps ==
  ASSUME IInv, NextKey
  PROVE  IInv'
  <1>1. PICK k \in Top.todo :
          /\ Replace(<<[Top EXCEPT !.todo = @ \ {k}, !.key = k, !.pc = "observers"]>>)
          /\ observers' = [observers EXCEPT ![k].iter = 1]
    BY Zenon DEF NextKey
  <1> DEFINE y == [Top EXCEPT !.todo = @ \ {k}, !.key = k, !.pc = "observers"]
  <1>2. /\ Top \in FrameType /\ Top.op = "notify" /\ stack # <<>>
        /\ ObsOK(observers, {Top} \cup Range(Tail(stack)))
    BY Opened DEF NextKey
  <1>3. nodes' = nodes /\ directory' = directory BY DEF NextKey
  <1>4. /\ Top.todo \subseteq DOMAIN observers /\ observers \in [DOMAIN observers -> Listings]
        /\ \A l \in DOMAIN observers : observers[l].iter \in 1..Len(observers[l].list) + 1
        /\ DOMAIN observers \subseteq Keys
    BY <1>2 DEF ObsOK
  <1>5. k \in DOMAIN observers /\ k \in Address BY <1>4, NodeDirectoryAssumption
  <1>6. /\ y \in FrameType /\ y.op = "notify" /\ y.pc = "observers" /\ y.node = Top.node
        /\ y.address = Top.address /\ y.todo = Top.todo \ {k} /\ y.key = k
    BY <1>2, <1>5 DEF FrameType
  <1>7. 1 \in 1..Len(observers[k].list) + 1 BY <1>4, <1>5 DEF Listings
  <1> DEFINE r == [observers EXCEPT ![k].iter = 1]
  <1>8. /\ DOMAIN r = DOMAIN observers /\ r \in [DOMAIN r -> Listings]
        /\ \A l \in DOMAIN observers : r[l].iter \in 1..Len(r[l].list) + 1
    BY <1>4, <1>5, <1>7, ListingSet
  <1>9. Replace(<<y>>) /\ observers' = r BY <1>1
  <1> HIDE DEF y, r
  <1>10. /\ DOMAIN observers' = DOMAIN observers /\ observers' \in [DOMAIN observers' -> Listings]
         /\ \A l \in DOMAIN observers : observers'[l].iter \in 1..Len(observers'[l].list) + 1
    BY <1>8, <1>9
  <1>11. y.todo \subseteq DOMAIN observers /\ y.key \in DOMAIN observers
    BY <1>4, <1>5, <1>6
  <1> QED BY <1>2, <1>3, <1>6, <1>9, <1>10, <1>11, WalkKeeps

LEMMA TellKeeps ==
  ASSUME IInv, Tell
  PROVE  IInv'
  <1> DEFINE y == [Top EXCEPT !.pc = "callback"]
  <1>1. /\ Top \in FrameType /\ Top.op = "notify" /\ Top.pc = "observers" /\ stack # <<>>
        /\ ObsOK(observers, {Top} \cup Range(Tail(stack)))
    BY Opened DEF Tell
  <1>2. nodes' = nodes /\ directory' = directory /\ observers' = observers /\ Replace(<<y>>)
    BY DEF Tell
  <1>3. /\ y \in FrameType /\ y.op = "notify" /\ y.pc = "callback" /\ y.node = Top.node
        /\ y.address = Top.address /\ y.todo = Top.todo /\ y.key = Top.key
    BY <1>1 DEF FrameType
  <1> HIDE DEF y
  <1>4. /\ DOMAIN observers' = DOMAIN observers /\ observers' \in [DOMAIN observers' -> Listings]
        /\ \A l \in DOMAIN observers : observers'[l].iter \in 1..Len(observers'[l].list) + 1
    BY <1>1, <1>2 DEF ObsOK
  <1>5. y.todo \subseteq DOMAIN observers /\ y.key \in DOMAIN observers
    BY <1>1, <1>3 DEF ObsOK
  <1> QED BY <1>1, <1>2, <1>3, <1>4, <1>5, WalkKeeps

LEMMA ToldKeeps ==
  ASSUME IInv, Told
  PROVE  IInv'
  <1> DEFINE o == observers[Top.key]
             next == (o.iter % (Len(o.list) + 1)) + 1
             ended == next > Len(o.list)
             y == [Top EXCEPT !.pc = IF ended THEN "keys" ELSE "observers",
                              !.key = IF ended THEN None ELSE @]
             r == [observers EXCEPT ![Top.key].iter = next]
  <1>1. /\ Top \in FrameType /\ Top.op = "notify" /\ Top.pc = "callback" /\ stack # <<>>
        /\ ObsOK(observers, {Top} \cup Range(Tail(stack)))
    BY Opened DEF Told
  <1>2. nodes' = nodes /\ directory' = directory /\ observers' = r /\ Replace(<<y>>)
    BY DEF Told
  <1>3. /\ Top.todo \subseteq DOMAIN observers /\ observers \in [DOMAIN observers -> Listings]
        /\ \A l \in DOMAIN observers : observers[l].iter \in 1..Len(observers[l].list) + 1
        /\ Top.key \in DOMAIN observers
    BY <1>1 DEF ObsOK
  <1>4. next \in 1..Len(o.list) + 1
    <2>1. Len(o.list) \in Nat /\ o.iter \in Nat BY <1>3 DEF Listings
    <2> DEFINE l == Len(o.list)
               i == o.iter
    <2>2. l \in Nat /\ i \in Nat BY <2>1
    <2> HIDE DEF l, i
    <2>3. (i % (l + 1)) + 1 \in 1..l + 1 BY <2>2
    <2> QED BY <2>3 DEF l, i
  <1>5. /\ y \in FrameType /\ y.op = "notify" /\ y.pc = (IF ended THEN "keys" ELSE "observers")
        /\ y.node = Top.node /\ y.address = Top.address /\ y.todo = Top.todo
        /\ ~ ended => y.key = Top.key
    BY <1>1, NoneAddress DEF FrameType
  <1>6. /\ DOMAIN r = DOMAIN observers /\ r \in [DOMAIN r -> Listings]
        /\ \A l \in DOMAIN observers : r[l].iter \in 1..Len(r[l].list) + 1
    BY <1>3, <1>4, ListingSet
  <1> HIDE DEF y, r, ended, next
  <1>7. /\ DOMAIN observers' = DOMAIN observers /\ observers' \in [DOMAIN observers' -> Listings]
        /\ \A l \in DOMAIN observers : observers'[l].iter \in 1..Len(observers'[l].list) + 1
    BY <1>2, <1>6
  <1>8. y.todo \subseteq DOMAIN observers /\ (y.pc # "keys" => y.key \in DOMAIN observers)
    BY <1>3, <1>5
  <1>9. y.pc \in {"keys", "observers", "callback"} BY <1>5
  <1> QED BY <1>1, <1>2, <1>5, <1>7, <1>8, <1>9, WalkKeeps

-----------------------------------------------------------------------------
(* A removal erases its key.                                               *)

LEMMA SinglesAddress ==
  Singles \subseteq Address /\ Instances \subseteq Address
  <1>1. ASSUME NEW w \in Words PROVE <<w>> \in Seq(Tokens) BY DEF Tokens
  <1>2. Seq(Tokens) = Address BY DEF Tokens, Address
  <1> QED BY <1>1, <1>2, NoneAddress DEF Singles, Instances

LEMMA EveryoneToldKeeps ==
  ASSUME IInv, EveryoneTold
  PROVE  IInv'
  <1> DEFINE x == Top
             u == Tail(stack)
             H == HandedIn(directory)
  <1>1. /\ nodes' = nodes /\ directory' = directory /\ observers' = observers /\ stack' = u
    BY DEF EveryoneTold
  <1>2. /\ x \in FrameType /\ x.op = "notify" /\ stack # <<>> /\ x = Head(stack)
        /\ Sound(nodes, directory, stack) /\ ObsOK(observers, {x} \cup Range(u))
    BY Opened DEF EveryoneTold
  <1>3. /\ TreeOK(nodes) /\ DirOK(nodes, directory) /\ Len(nodes) <= Len(Numerals)
        /\ Chain(nodes, H, u) /\ u \in Seq(FrameType)
        /\ u # <<>> => Nested(x, u[1])
        /\ Accounted(nodes, H, {x} \cup Range(u))
    BY <1>2, SoundPop
  <1> HIDE DEF x, u, H
  <1>4. ASSUME u # <<>> PROVE TopOK(nodes, directory, Head(u), Tail(u))
    BY <1>3, <1>4, Pop, <1>2 DEF Nested, TopOK, CreateTop, FrameType
  <1>5. Accounted(nodes, H, Range(u))
    <2>1. \A i \in Linked(nodes) \ H : \E f \in Range(u) : f.op = "destroy" /\ f.node = i
      BY <1>2, <1>3 DEF Accounted
    <2>2. \A i \in Pending(nodes) :
            \E f \in Range(u) : f.op = "create" /\ f.pc = "setChild" /\ f.node = i
      BY <1>2, <1>3 DEF Accounted
    <2>3. \A i : (\A f \in Range(u) : f.op = "remove" => f.node # i)
                   <=> (\A f \in {x} \cup Range(u) : f.op = "remove" => f.node # i)
      BY <1>2
    <2>4. \A i \in DOMAIN nodes :
            nodes[i].destroyed = IF nodes[i].live
                                    /\ \A f \in {x} \cup Range(u) : f.op = "remove" => f.node # i
                                 THEN 0 ELSE 1
      BY <1>3 DEF Accounted
    <2>5. \A i \in DOMAIN nodes :
            nodes[i].destroyed = IF nodes[i].live
                                    /\ \A f \in Range(u) : f.op = "remove" => f.node # i
                                 THEN 0 ELSE 1
      BY <2>3, <2>4
    <2> QED BY <2>1, <2>2, <2>5 DEF Accounted
  <1>6. Sound(nodes, directory, u) BY <1>3, <1>4, <1>5 DEF Sound, H
  <1>7. ObsOK(observers, Range(u)) BY <1>2 DEF ObsOK
  <1> QED BY <1>1, <1>6, <1>7 DEF IInv

(* The key of a node goes, and its destruction begins.                     *)
LEMMA EraseKeeps ==
  ASSUME IInv, Erase
  PROVE  IInv'
  <1> DEFINE x == Top
             u == Tail(stack)
             n == Top.node
             H == HandedIn(directory)
             d == Without(directory, Top.address)
             I == HandedIn(d)
             names == {k[1] : k \in DOMAIN nodes[n].children}
             z == [Frame("destroy", "children", None, n) EXCEPT !.todo = names]
             y == [Top EXCEPT !.pc = "destroying"]
  <1>1. /\ nodes' = nodes /\ directory' = d /\ observers' = observers
        /\ stack' = <<z, y>> \o u
    BY DEF Erase, Replace
  <1>2. /\ x \in FrameType /\ x.op = "remove" /\ x.pc = "erase" /\ stack # <<>> /\ x = Head(stack)
        /\ Sound(nodes, directory, stack) /\ ObsOK(observers, {x} \cup Range(u))
    BY Opened DEF Erase
  <1>3. /\ TreeOK(nodes) /\ DirOK(nodes, directory) /\ Len(nodes) <= Len(Numerals)
        /\ Chain(nodes, H, u) /\ u \in Seq(FrameType) /\ Base(nodes, H, x)
        /\ u # <<>> => Nested(x, u[1]) /\ Related(nodes, x, u[1])
        /\ u = <<>> => x.op \in {"create", "remove"}
        /\ \A g \in Range(u) : Apart(x, g) /\ Base(nodes, H, g) /\ g \in FrameType
        /\ Accounted(nodes, H, {x} \cup Range(u))
    BY <1>2, SoundPop
  <1>4. /\ n \in Linked(nodes) \ {Root} /\ x.address = OscAddressIn(nodes, n) /\ n \in H
        /\ x.address \in Sites /\ x.address # Separator /\ x.address \in Address
        /\ n \in Nat /\ n \in DOMAIN nodes /\ DOMAIN nodes[n].children \subseteq ChildKeys
    BY <1>2, <1>3, AdrIs, TreeIs, SiteAddress (* The directory without the key. *) DEF Base,
       RemoveBase
  <1>5. DOMAIN d = DOMAIN directory \ {x.address} /\ \A a \in DOMAIN d : d[a] = directory[a]
    BY TableCut, Zenon
  <1>6. I = H \ {n} /\ DirOK(nodes, d)
    <2>1. /\ \A a \in DOMAIN directory : directory[a] \in Linked(nodes)
                                         /\ OscAddressIn(nodes, directory[a]) = a
          /\ DOMAIN directory \subseteq Places /\ Separator \in DOMAIN directory
          /\ directory[Separator] = Root
      BY <1>3 DEF DirOK
    <2>2. \A i \in H : OscAddressIn(nodes, i) \in DOMAIN directory
                       /\ directory[OscAddressIn(nodes, i)] = i
      BY <1>3, DirIs
    <2>3. directory[x.address] = n BY <1>4, <2>2
    <2>4. \A i \in H : i # n => OscAddressIn(nodes, i) # x.address BY <2>2, <2>3
    <2> HIDE DEF d, n, x
    <2>5. I \subseteq H \ {n} BY <1>5, <2>1, <1>4 DEF HandedIn
    <2>6. ASSUME NEW i \in H, i # n PROVE i \in I BY <1>5, <2>2, <2>4, <2>6 DEF HandedIn
    <2>7. DirOK(nodes, d) BY <1>4, <1>5, <2>1 DEF DirOK
    <2> QED BY <2>5, <2>6, <2>7
  (* No other call works on the node.                                      *)
  <1>7. \A g \in Range(u) : g.node # n
    <2>1. ASSUME u # <<>> PROVE u[1].op # "create" BY <1>2, <1>3, <2>1 DEF Nested
    <2>2. ASSUME NEW g \in Range(u), g.op \in {"notify", "remove"}
          PROVE  g.address # OscAddressIn(nodes, n)
      BY <1>3, <2>2, AddressIsSite, <1>2, <1>4, BelowAll DEF Apart
    <2> HIDE DEF u, n, H
    <2> QED BY <1>3, <1>4, <2>1, <2>2, NodesElsewhere
  <1> HIDE DEF x, u, n, H, d, I
  <1>8. Chain(nodes, I, u)
    BY <1>6, <1>7, <1>3, ChainStable DEF Undisturbed, NoMoreChildren
  <1>9. /\ y \in FrameType /\ y.op = "remove" /\ y.pc = "destroying" /\ y.address = x.address
        /\ y.node = n
    BY <1>2 DEF x, n, FrameType
  <1>10. /\ z \in FrameType /\ z.op = "destroy" /\ z.pc = "children" /\ z.address = None
         /\ z.node = n /\ z.todo = names
    <2> DEFINE f == Frame("destroy", "children", None, n)
    <2>1. /\ f \in FrameType /\ f.op = "destroy" /\ f.pc = "children" /\ f.address = None
          /\ f.node = n
      BY <1>4, NoneAddress, FrameIs
    <2>2. names \in SUBSET Address BY <1>4, SinglesAddress DEF ChildKeys
    <2>3. z = [f EXCEPT !.todo = names] OBVIOUS
    <2> HIDE DEF f, names
    <2> QED BY <2>1, <2>2, <2>3 DEF FrameType
  <1>11. \A k \in DOMAIN nodes[n].children : k[1] \in names OBVIOUS
  <1> HIDE DEF y, z, names
  (* The removal goes on.                                                  *)
  <1>12. Base(nodes, I, y) BY <1>4, <1>9 DEF Base, RemoveBase
  <1>13. u # <<>> => Nested(y, u[1]) /\ Related(nodes, y, u[1])
    BY <1>2, <1>3, <1>9 DEF x, n, Nested, Related
  <1>14. \A g \in Range(u) : Apart(y, g) BY <1>2, <1>3, <1>9 DEF Apart
  <1>15. Chain(nodes, I, Pushed(u, y)) BY <1>8, <1>9, <1>12, <1>13, <1>14, ChainPush
  <1> DEFINE v == Pushed(u, y)
  <1>16. v \in Seq(FrameType) /\ v # <<>> /\ v[1] = y /\ Range(v) = {y} \cup Range(u)
    BY <1>3, <1>9, Push
  <1>17. Chain(nodes, I, v) BY <1>15
  <1> HIDE DEF v
  (* The destructor begins.                                                *)
  <1>18. Base(nodes, I, z) BY <1>4, <1>6, <1>10 DEF Base, DestroyBase
  <1>19. Nested(z, v[1]) /\ Related(nodes, z, v[1])
    BY <1>9, <1>10, <1>16 DEF Nested, Related
  <1>20. \A g \in Range(v) : Apart(z, g) BY <1>10 DEF Apart
  <1>21. TopOK(nodes, d, z, v) BY <1>10, <1>11 DEF TopOK, Covered
  <1>22. Accounted(nodes, I, {z} \cup Range(v))
    <2>1. ASSUME NEW i \in Linked(nodes) \ I
          PROVE  \E f \in {z} \cup Range(v) : f.op = "destroy" /\ f.node = i
      BY <1>10, <1>6, <1>3, <1>2, <1>16 DEF Accounted
    <2>2. ASSUME NEW i \in Pending(nodes)
          PROVE  \E f \in {z} \cup Range(v) : f.op = "create" /\ f.pc = "setChild" /\ f.node = i
      BY <1>3, <1>2, <1>16 DEF Accounted
    <2>3. \A i : (\A f \in {z} \cup Range(v) : f.op = "remove" => f.node # i)
                   <=> (\A f \in {x} \cup Range(u) : f.op = "remove" => f.node # i)
      BY <1>2, <1>9, <1>10, <1>16 DEF x, n
    <2>4. \A i \in DOMAIN nodes :
            nodes[i].destroyed = IF nodes[i].live
                                    /\ \A f \in {x} \cup Range(u) : f.op = "remove" => f.node # i
                                 THEN 0 ELSE 1
      BY <1>3 DEF Accounted
    <2>5. \A i \in DOMAIN nodes :
            nodes[i].destroyed = IF nodes[i].live
                                    /\ \A f \in {z} \cup Range(v) : f.op = "remove" => f.node # i
                                 THEN 0 ELSE 1
      BY <2>3, <2>4
    <2> QED BY <2>1, <2>2, <2>5 DEF Accounted
  <1>23. Sound(nodes, d, Pushed(v, z))
    BY <1>3, <1>6, <1>10, <1>16, <1>17, <1>18, <1>19, <1>20, <1>21, <1>22, SoundPush DEF I
  <1>24. stack' = Pushed(v, z) /\ Range(Pushed(v, z)) = {z, y} \cup Range(u)
    BY <1>3, <1>9, <1>10, PushTwo, <1>1 DEF v
  <1>25. ObsOK(observers, {z, y} \cup Range(u)) BY <1>2, <1>9, <1>10 DEF ObsOK
  <1> QED BY <1>1, <1>23, <1>24, <1>25 DEF IInv

(* A destructor comes to the children of a name.                           *)
LEMMA NextNameKeeps ==
  ASSUME IInv, NextName
  PROVE  IInv'
  <1>1. PICK name \in Top.todo :
          Replace(<<[Top EXCEPT !.todo = @ \ {name},
                                !.group = {k \in DOMAIN nodes[Top.node].children : k[1] = name}]>>)
    BY Zenon DEF NextName
  <1> DEFINE u == Tail(stack)
             H == HandedIn(directory)
             ks == {k \in DOMAIN nodes[Top.node].children : k[1] = name}
             y == [Top EXCEPT !.todo = @ \ {name}, !.group = ks]
  <1>2. /\ nodes' = nodes /\ directory' = directory /\ observers' = observers
        /\ Top.group = {} /\ stack' = <<y>> \o u
    BY <1>1, Zenon DEF NextName, Replace
  <1>3. /\ Top \in FrameType /\ Top.op = "destroy" /\ Top.pc = "children" /\ stack # <<>>
        /\ Top = Head(stack) /\ Sound(nodes, directory, stack) /\ stack \in Seq(FrameType)
        /\ ObsOK(observers, {Top} \cup Range(u))
        /\ Base(nodes, H, Top) /\ TopOK(nodes, directory, Top, u)
    BY Opened DEF NextName
  <1>4. Top.node \in Linked(nodes) /\ TreeOK(nodes)
    BY <1>3 DEF Base, DestroyBase, Sound
  <1>5. ks \in SUBSET ChildKeys BY <1>4, TreeIs
  <1>6. /\ \A k \in DOMAIN nodes[Top.node].children : k[1] = name => k \in ks
    OBVIOUS
  <1> HIDE DEF ks
  <1>7. /\ y \in FrameType /\ y.op = "destroy" /\ y.pc = "children" /\ y.node = Top.node
        /\ y.address = Top.address /\ y.todo = Top.todo \ {name} /\ y.group = ks
    BY <1>3, <1>5 DEF FrameType
  <1> HIDE DEF y
  <1>8. Base(nodes, H, y) BY <1>3, <1>7 DEF Base, DestroyBase
  <1>9. TopOK(nodes, directory, y, u) BY <1>2, <1>3, <1>6, <1>7 DEF TopOK, Covered
  <1>10. Sound(nodes, directory, Pushed(u, y))
    BY <1>3, <1>7, <1>8, <1>9, TopReplaced
  <1>11. <<y>> \o u = Pushed(u, y) /\ Range(Pushed(u, y)) = {y} \cup Range(u)
    BY <1>3, <1>7, Replaced
  <1>12. ObsOK(observers, {y} \cup Range(u)) BY <1>3, <1>7 DEF ObsOK
  <1> HIDE DEF u
  <1> QED BY <1>2, <1>10, <1>11, <1>12 DEF IInv

-----------------------------------------------------------------------------
(* A creation returns.                                                     *)

Given(ns, ms, m, n) ==
  /\ ms \in Seq(NodeType) /\ DOMAIN ms = DOMAIN ns
  /\ \A i \in DOMAIN ns :
       /\ ms[i].name = ns[i].name /\ ms[i].instance = ns[i].instance
       /\ ms[i].live = ns[i].live /\ ms[i].children = ns[i].children
       /\ ms[i].created = ns[i].created /\ ms[i].destroyed = ns[i].destroyed
       /\ ms[i].parent = IF i = m THEN n ELSE ns[i].parent

LEMMA GivenIs ==
  ASSUME NEW ns \in Seq(NodeType), NEW m \in DOMAIN ns, NEW n \in Nat
  PROVE  Given(ns, [ns EXCEPT ![m].parent = n], m, n)
  <1> DEFINE ms == [ns EXCEPT ![m].parent = n]
  <1>1. ms = [ns EXCEPT ![m].parent = n] OBVIOUS
  <1> HIDE DEF ms
  <1>2. ns[m] \in NodeType /\ DOMAIN ns = 1..Len(ns) /\ Len(ns) \in Nat
    BY LenProperties, ElementOfSeq
  <1>3. DOMAIN ms = DOMAIN ns /\ \A i \in DOMAIN ns : i # m => ms[i] = ns[i]
    BY <1>1, <1>2
  <1>4. ms[m] = [ns[m] EXCEPT !.parent = n] BY <1>1, <1>2
  <1>5. /\ ms[m].name = ns[m].name /\ ms[m].instance = ns[m].instance
        /\ ms[m].live = ns[m].live /\ ms[m].children = ns[m].children
        /\ ms[m].created = ns[m].created /\ ms[m].destroyed = ns[m].destroyed
        /\ ms[m].parent = n /\ ms[m] \in NodeType
    BY <1>2, <1>4 DEF NodeType
  <1>6. ms \in Seq(NodeType) BY <1>1, <1>2, <1>4, <1>5, Altered
  <1>7. Given(ns, ms, m, n) BY <1>3, <1>5, <1>6 DEF Given
  <1> QED BY <1>7 DEF ms

LEMMA GivenTree ==
  ASSUME NEW ns, TreeOK(ns), NEW m \in Pending(ns), ns[m].parent = 0, NEW n \in Linked(ns),
         NEW ms, Given(ns, ms, m, n)
  PROVE  /\ TreeOK(ms) /\ Linked(ms) = Linked(ns) /\ Pending(ms) = Pending(ns)
         /\ Len(ms) = Len(ns)
         /\ \A i \in Linked(ns) : OscAddressIn(ms, i) = OscAddressIn(ns, i)
  <1>1. /\ ms \in Seq(NodeType) /\ DOMAIN ms = DOMAIN ns
        /\ \A i \in DOMAIN ns :
             /\ ms[i].name = ns[i].name /\ ms[i].instance = ns[i].instance
             /\ ms[i].live = ns[i].live /\ ms[i].children = ns[i].children
             /\ ms[i].created = ns[i].created /\ ms[i].destroyed = ns[i].destroyed
             /\ ms[i].parent = IF i = m THEN n ELSE ns[i].parent
    BY DEF Given
  <1> QED BY <1>1, ParentGiven

(* A parent that was created is handed to the creation that waits for it.  *)
LEMMA ParentReturned ==
  ASSUME NEW ns, NEW d, TreeOK(ns), DirOK(ns, d), Len(ns) <= Len(Numerals),
         NEW x \in FrameType, x.op = "create", x.pc = "return", Base(ns, HandedIn(d), x),
         NEW u, Chain(ns, HandedIn(d), u), u # <<>>, Nested(x, u[1]), Related(ns, x, u[1]),
         u[1].op = "create", Accounted(ns, HandedIn(d), {x} \cup Range(u))
  PROVE  Sound([ns EXCEPT ![u[1].node].parent = x.node], d, u)
  <1> DEFINE n == x.node
             g == Head(u)
             v == Tail(u)
             m == g.node
             H == HandedIn(d)
             ms == [ns EXCEPT ![m].parent = n]
  <1>1. /\ Chain(ns, H, v) /\ g \in FrameType /\ v \in Seq(FrameType)
        /\ u = Pushed(v, g) /\ Range(u) = {g} \cup Range(v) /\ Base(ns, H, g)
        /\ v # <<>> => Nested(g, v[1]) /\ Related(ns, g, v[1])
        /\ v = <<>> => g.op \in {"create", "remove"}
        /\ \A f \in Range(v) : Apart(g, f) /\ Base(ns, H, f) /\ f \in FrameType
    BY ChainPop
  <1>2. u \in Seq(FrameType) /\ u[1] = g BY Pop DEF Chain
  <1>3. /\ g.op = "create" /\ g.pc = "setChild" /\ ParentOf(g.address) = x.address
        /\ m \in Pending(ns) /\ ns[m].name = SplitOSCAddress(g.address).name
        /\ ns[m].parent = 0 /\ ns[m].instance = SplitOSCAddress(g.address).instance
        /\ OscAddressIn(ns, n) = x.address /\ ChildKey(ns, m) \notin DOMAIN ns[n].children
    BY <1>2, <1>1 DEF Nested, Base, CreateBase, Related
  <1>4. n \in H \ {Root} /\ n \in Linked(ns) BY DEF Base, CreateBase
  <1>5. /\ ns \in Seq(NodeType) /\ m \in DOMAIN ns /\ n \in DOMAIN ns /\ n \in Nat
        /\ Linked(ns) \subseteq DOMAIN ns /\ Pending(ns) \subseteq DOMAIN ns
        /\ Linked(ns) \cap Pending(ns) = {} /\ 0 \notin DOMAIN ns
    BY <1>3, <1>4, TreeIs
  <1>6. Given(ns, ms, m, n) BY <1>5, GivenIs
  <1>7. TreeOK(ns) /\ DirOK(ns, d) /\ Accounted(ns, H, {x} \cup Range(u))
        /\ Len(ns) <= Len(Numerals) /\ x.op = "create" /\ x.pc = "return" /\ x.node = n
    OBVIOUS
  <1> HIDE DEF ms, m, n, g, v, H
  <1>8. /\ TreeOK(ms) /\ Linked(ms) = Linked(ns) /\ Pending(ms) = Pending(ns)
        /\ Len(ms) = Len(ns)
        /\ \A i \in Linked(ns) : OscAddressIn(ms, i) = OscAddressIn(ns, i)
    BY <1>3, <1>4, <1>6, <1>7, GivenTree
  <1>9. /\ DOMAIN ms = DOMAIN ns
        /\ \A i \in DOMAIN ns :
             /\ ms[i].name = ns[i].name /\ ms[i].instance = ns[i].instance
             /\ ms[i].live = ns[i].live /\ ms[i].children = ns[i].children
             /\ ms[i].destroyed = ns[i].destroyed
             /\ i # m => ms[i].parent = ns[i].parent
        /\ ms[m].parent = n
    BY <1>5, <1>6 DEF Given
  <1>10. g.node = m BY DEF m
  <1>11. ASSUME NEW f \in Range(v), f.node \in Linked(ns) \cup Pending(ns)
         PROVE  f.node # m
    <2>1. CASE f.node \in Linked(ns) BY <1>3, <1>5, <2>1
    <2>2. CASE f.node \in Pending(ns)
      BY <1>1, <1>5, <2>2, <1>3, <1>10 DEF Base, CreateBase, RemoveBase, DestroyBase,
         NotifyBase, FrameType, Apart
    <2> QED BY <1>11, <2>1, <2>2
  <1>12. Chain(ms, H, v)
    <2>1. ASSUME NEW f \in Range(v), f.node \in Linked(ns) \cup Pending(ns)
          PROVE  Undisturbed(ns, H, ms, H, f.node)
      BY <1>5, <1>11, <2>1, <1>8, <1>9 DEF Undisturbed
    <2>2. ASSUME NEW f \in Range(v) PROVE NoMoreChildren(ns, ms, f)
      BY <1>1, <1>5, <1>9 DEF Base, DestroyBase, CreateBase, NoMoreChildren
    <2> QED BY <1>1, <2>1, <2>2, ChainStable
  <1>13. Base(ms, H, g) BY <1>1, <1>3, <1>5, <1>8, <1>9, <1>10 DEF Base, CreateBase
  <1>14. ASSUME v # <<>> PROVE Nested(g, v[1]) /\ Related(ms, g, v[1])
    <2>1. Nested(g, v[1]) /\ Related(ns, g, v[1]) BY <1>1, <1>14
    <2>2. v[1].op # "destroy" BY <1>3, <2>1 DEF Nested
    <2>3. ASSUME v[1].op = "create"
          PROVE  /\ ms[v[1].node].parent = 0
                 /\ ms[v[1].node].instance = SplitOSCAddress(v[1].address).instance
      <3>1. v[1].pc = "setChild" BY <1>3, <2>1, <2>3 DEF Nested
      <3>2. v[1] \in Range(v) BY <1>1, <1>14, EmptySeq DEF Range
      <3>3. v[1].node \in Pending(ns) BY <1>1, <2>3, <3>1, <3>2 DEF Base, CreateBase
      <3>4. v[1].node # m /\ v[1].node \in DOMAIN ns BY <1>5, <1>11, <3>2, <3>3
      <3> QED BY <1>3, <1>9, <2>1, <2>3, <3>4 DEF Related
    <2>4. ms[m].instance = SplitOSCAddress(g.address).instance BY <1>3, <1>5, <1>9
    <2> QED BY <1>3, <1>10, <2>1, <2>2, <2>3, <2>4 DEF Related
  <1>15. \A f \in Range(v) : Apart(g, f) BY <1>1
  <1>16. TopOK(ms, d, g, v)
    BY <1>4, <1>9, <1>3, <1>8, <1>5, <1>10 DEF H, ChildKey, TopOK, CreateTop
  <1>17. Accounted(ms, H, {g} \cup Range(v))
    <2>1. ASSUME NEW i \in Linked(ms) \ H
          PROVE  \E f \in Range(u) : f.op = "destroy" /\ f.node = i
      BY <1>7, <1>8 DEF Accounted
    <2>2. ASSUME NEW i \in Pending(ms)
          PROVE  \E f \in Range(u) : f.op = "create" /\ f.pc = "setChild" /\ f.node = i
      BY <1>7, <1>8 DEF Accounted
    <2>3. \A i : (\A f \in Range(u) : f.op = "remove" => f.node # i)
                   <=> (\A f \in {x} \cup Range(u) : f.op = "remove" => f.node # i)
      BY <1>7
    <2>4. \A i \in DOMAIN ns :
            ns[i].destroyed = IF ns[i].live
                                 /\ \A f \in {x} \cup Range(u) : f.op = "remove" => f.node # i
                              THEN 0 ELSE 1
      BY <1>7 DEF Accounted
    <2>5. \A i \in DOMAIN ms :
            ms[i].destroyed = IF ms[i].live
                                 /\ \A f \in Range(u) : f.op = "remove" => f.node # i
                              THEN 0 ELSE 1
      BY <1>9, <2>3, <2>4
    <2>6. Accounted(ms, H, Range(u)) BY <2>1, <2>2, <2>5 DEF Accounted
    <2> QED BY <1>1, <2>6
  <1>18. DirOK(ms, d) BY <1>7, DirIs, <1>8, DirStable DEF H
  <1>19. Len(ms) <= Len(Numerals) BY <1>7, <1>8
  <1>20. Sound(ms, d, Pushed(v, g))
    BY <1>1, <1>8, <1>12, <1>13, <1>14, <1>15, <1>16, <1>17, <1>18, <1>19, SoundPush DEF H
  <1>21. Sound(ms, d, u) BY <1>1, <1>20
  <1> QED BY <1>2, <1>21 DEF ms, m, n

LEMMA ReturnNodeKeeps ==
  ASSUME IInv, ReturnNode
  PROVE  IInv'
  <1> DEFINE x == Top
             u == Tail(stack)
             H == HandedIn(directory)
  <1>1. /\ directory' = directory /\ observers' = observers /\ stack' = u
        /\ nodes' = IF Len(stack) > 1 /\ stack[2].op = "create"
                    THEN [nodes EXCEPT ![stack[2].node].parent = x.node] ELSE nodes
    BY DEF ReturnNode
  <1>2. /\ x \in FrameType /\ x.op = "create" /\ x.pc = "return" /\ stack # <<>>
        /\ x = Head(stack) /\ Base(nodes, H, x)
        /\ Sound(nodes, directory, stack) /\ ObsOK(observers, {x} \cup Range(u))
    BY Opened DEF ReturnNode
  <1>3. /\ TreeOK(nodes) /\ DirOK(nodes, directory) /\ Len(nodes) <= Len(Numerals)
        /\ Chain(nodes, H, u) /\ u \in Seq(FrameType)
        /\ u # <<>> => Nested(x, u[1]) /\ Related(nodes, x, u[1])
        /\ Accounted(nodes, H, {x} \cup Range(u))
    BY <1>2, SoundPop
  <1>4. stack \in Seq(FrameType) BY <1>2 DEF Sound, Chain
  <1>5. /\ Len(stack) \in Nat \ {0} /\ Len(u) = Len(stack) - 1
        /\ \A i \in 1..Len(stack) - 1 : u[i] = stack[i + 1]
    BY <1>2, <1>4, Pop
  <1>6. u # <<>> => Len(stack) > 1 /\ u[1] = stack[2] BY <1>3, EmptySeq, <1>5
  <1>7. u = <<>> => ~ (Len(stack) > 1) BY <1>5
  <1>8. ObsOK(observers, Range(u)) BY <1>2 DEF ObsOK
  <1> HIDE DEF x, u, H
  <1>9. CASE u # <<>> /\ u[1].op = "create"
    BY <1>1, <1>6, <1>9, <1>2, <1>3, ParentReturned, <1>8 DEF H, IInv
  <1>10. CASE ~ (u # <<>> /\ u[1].op = "create")
    <2>1. nodes' = nodes BY <1>1, <1>6, <1>7, <1>10
    <2>2. ASSUME u # <<>> PROVE TopOK(nodes, directory, Head(u), Tail(u))
      BY <1>3, <2>2, Pop, <1>10, <1>2 DEF Nested, TopOK, FrameType
    <2>3. Accounted(nodes, H, Range(u))
      <3>1. \A i \in Linked(nodes) \ H : \E f \in Range(u) : f.op = "destroy" /\ f.node = i
        BY <1>2, <1>3 DEF Accounted
      <3>2. \A i \in Pending(nodes) :
              \E f \in Range(u) : f.op = "create" /\ f.pc = "setChild" /\ f.node = i
        BY <1>2, <1>3 DEF Accounted
      <3>3. \A i : (\A f \in Range(u) : f.op = "remove" => f.node # i)
                     <=> (\A f \in {x} \cup Range(u) : f.op = "remove" => f.node # i)
        BY <1>2
      <3>4. \A i \in DOMAIN nodes :
              nodes[i].destroyed = IF nodes[i].live
                                      /\ \A f \in {x} \cup Range(u) : f.op = "remove" => f.node # i
                                   THEN 0 ELSE 1
        BY <1>3 DEF Accounted
      <3>5. \A i \in DOMAIN nodes :
              nodes[i].destroyed = IF nodes[i].live
                                      /\ \A f \in Range(u) : f.op = "remove" => f.node # i
                                   THEN 0 ELSE 1
        BY <3>3, <3>4
      <3> QED BY <3>1, <3>2, <3>5 DEF Accounted
    <2>4. Sound(nodes, directory, u) BY <1>3, <2>2, <2>3 DEF Sound, H
    <2> QED BY <1>1, <1>8, <2>1, <2>4 DEF IInv
  <1> QED BY <1>9, <1>10

-----------------------------------------------------------------------------
(* A destructor removes a child.                                           *)

(* Under the destructor of a node there is its removal, and no call works  *)
(* on what is below the node.                                              *)
LEMMA BelowDestroyed ==
  ASSUME NEW ns, TreeOK(ns), NEW H, NEW x \in FrameType, x.op = "destroy", Base(ns, H, x),
         NEW u, Chain(ns, H, u), u # <<>>, Nested(x, u[1])
  PROVE  /\ u[1].op = "remove" /\ u[1].pc = "destroying" /\ u[1].node = x.node
         /\ u[1].address = OscAddressIn(ns, x.node) /\ x.node \in Linked(ns) \ {Root}
         /\ u[1] = Head(u)
         /\ \A a \in Sites : AtOrBelow(a, OscAddressIn(ns, x.node))
                             /\ ~ AtOrBelow(OscAddressIn(ns, x.node), a) =>
              \A g \in Range(u) : g.address # None => ~ AtOrBelow(g.address, a)
  <1> DEFINE h == Head(u)
             v == Tail(u)
             b == OscAddressIn(ns, x.node)
  <1>1. /\ Chain(ns, H, v) /\ h \in FrameType /\ v \in Seq(FrameType)
        /\ Range(u) = {h} \cup Range(v) /\ Base(ns, H, h)
        /\ \A f \in Range(v) : Apart(h, f) /\ Base(ns, H, f) /\ f \in FrameType
    BY ChainPop
  <1>2. u \in Seq(FrameType) /\ u[1] = h BY Pop DEF Chain
  <1>3. Nested(x, h) /\ x.op = "destroy" BY <1>2
  <1> HIDE DEF h, v
  <1>4. h.op = "remove" /\ h.pc = "destroying" /\ h.node = x.node
    BY <1>1, <1>3 DEF Nested, FrameType
  <1>5. h.node \in Linked(ns) \ {Root} /\ h.address = b
    BY <1>1, <1>4 DEF Base, RemoveBase
  <1>6. b \in Sites /\ h.address \in Sites BY <1>4, <1>5, AdrIs
  <1>7. ASSUME NEW a \in Sites, AtOrBelow(a, b), ~ AtOrBelow(b, a), NEW g \in Range(u),
               g.address # None
        PROVE  ~ AtOrBelow(g.address, a)
    BY <1>5, <1>7, <1>1, AddressIsSite, <1>4, <1>6, BelowTransitive DEF Apart
  <1>8. \A a \in Sites : AtOrBelow(a, b) /\ ~ AtOrBelow(b, a) =>
          \A g \in Range(u) : g.address # None => ~ AtOrBelow(g.address, a)
    BY <1>7
  <1> HIDE DEF b
  <1>9. u[1] = h /\ x.node = h.node BY <1>2, <1>4
  <1>10. /\ u[1].op = "remove" /\ u[1].pc = "destroying" /\ u[1].node = x.node
         /\ u[1].address = b /\ x.node \in Linked(ns) \ {Root} /\ u[1] = h
    BY <1>4, <1>5, <1>9
  <1> QED BY <1>8, <1>10 DEF b, h

(* Of a child of a node.                                                   *)
LEMMA ChildIs ==
  ASSUME NEW ns, TreeOK(ns), NEW p \in Linked(ns), NEW k \in DOMAIN ns[p].children
  PROVE  LET c == ns[p].children[k]
         IN  /\ c \in Linked(ns) \ {Root} /\ c # p /\ ns[c].parent = p /\ ChildKey(ns, c) = k
             /\ OscAddressIn(ns, c) \in Sites \ {Separator}
             /\ AtOrBelow(OscAddressIn(ns, c), OscAddressIn(ns, p))
             /\ ~ AtOrBelow(OscAddressIn(ns, p), OscAddressIn(ns, c))
  <1> DEFINE c == ns[p].children[k]
  <1>1. p \in DOMAIN ns BY TreeIs
  <1>2. c \in Linked(ns) \ {Root} /\ ns[c].parent = p /\ ChildKey(ns, c) = k
    BY <1>1, TreeIs DEF Holds
  <1> HIDE DEF c
  <1>3. /\ OscAddressIn(ns, c) \in Sites /\ OscAddressIn(ns, c) # Separator
        /\ ns[c].name \in Singles /\ ns[c].instance \in Instances
        /\ OscAddressIn(ns, p) \in Sites
        /\ OscAddressIn(ns, c) = Join(OscAddressIn(ns, p), ns[c].name, ns[c].instance)
    BY <1>2, AdrIs
  <1>4. /\ AtOrBelow(OscAddressIn(ns, c), OscAddressIn(ns, p))
        /\ ~ AtOrBelow(OscAddressIn(ns, p), OscAddressIn(ns, c))
    BY <1>3, BelowAll
  <1>5. c # p BY <1>3, <1>4, BelowAll
  <1> QED BY <1>2, <1>3, <1>4, <1>5, Zenon DEF c

LEMMA FramesAssociative ==
  ASSUME NEW a \in Seq(FrameType), NEW b \in Seq(FrameType), NEW c \in Seq(FrameType)
  PROVE  (a \o b) \o c = a \o (b \o c)
  BY ConcatAssociative

LEMMA DestroyChildKeeps ==
  ASSUME IInv, DestroyChild
  PROVE  IInv'
  <1>1. PICK k \in Top.group :
          LET rest == [Top EXCEPT !.group = @ \ {k}]
              children == nodes[Top.node].children
              known == k \in DOMAIN children /\ OscAddress(children[k]) \in DOMAIN directory
              a == OscAddress(children[k])
          IN  IF known
              THEN Replace(RemoveFrames(a) \o <<rest>>) /\ Announced(directory[a])
              ELSE Replace(<<rest>>) /\ UNCHANGED nodes
    BY DEF DestroyChild
  <1> DEFINE u == Tail(stack)
             H == HandedIn(directory)
             p == Top.node
             y == [Top EXCEPT !.group = @ \ {k}]
             c == nodes[p].children[k]
             a == OscAddressIn(nodes, c)
             r == Frame("remove", "erase", a, directory[a])
             m == NotifyFrame(a, directory[a])
             ms == [nodes EXCEPT ![directory[a]].destroyed = @ + 1]
             known == k \in DOMAIN nodes[p].children /\ a \in DOMAIN directory
  <1>2. /\ directory' = directory /\ observers' = observers
        /\ known => stack' = (<<m, r>> \o <<y>>) \o u /\ nodes' = ms
        /\ ~ known => stack' = <<y>> \o u /\ nodes' = nodes
    BY <1>1, Zenon DEF DestroyChild, Replace, RemoveFrames, Announced, OscAddress
  <1>3. /\ Top \in FrameType /\ Top.op = "destroy" /\ Top.pc = "children" /\ stack # <<>>
        /\ Top = Head(stack) /\ Sound(nodes, directory, stack) /\ stack \in Seq(FrameType)
        /\ ObsOK(observers, {Top} \cup Range(u))
        /\ Base(nodes, H, Top) /\ TopOK(nodes, directory, Top, u)
    BY Opened DEF DestroyChild
  <1>4. /\ TreeOK(nodes) /\ DirOK(nodes, directory) /\ Len(nodes) <= Len(Numerals)
        /\ Chain(nodes, H, u) /\ u \in Seq(FrameType)
        /\ u # <<>> => Nested(Top, u[1])
        /\ u = <<>> => Top.op \in {"create", "remove"}
        /\ Accounted(nodes, H, {Top} \cup Range(u))
        /\ \A g \in Range(u) : Base(nodes, H, g)
    BY <1>3, SoundPop
  <1>5. /\ p \in Linked(nodes) \ {Root}
        /\ \A b \in Sites : AtOrBelow(b, OscAddressIn(nodes, p))
                            /\ ~ AtOrBelow(OscAddressIn(nodes, p), b) =>
             \A g \in Range(u) : g.address # None => ~ AtOrBelow(g.address, b)
    BY <1>3, <1>4, BelowDestroyed
  <1>6. /\ y \in FrameType /\ y.op = "destroy" /\ y.pc = "children" /\ y.node = p
        /\ y.address = Top.address /\ y.todo = Top.todo /\ y.group = Top.group \ {k}
    BY <1>3 DEF FrameType
  <1> HIDE DEF y
  <1>7. Base(nodes, H, y) BY <1>3, <1>6 DEF Base, DestroyBase
  <1>8. Covered(nodes, y, {k}) /\ Base(nodes, H, y) /\ y.address = None
    BY <1>3, <1>6, <1>7 DEF TopOK, Covered, Base, DestroyBase
  <1>9. CASE ~ known
    <2>1. k \notin DOMAIN nodes[p].children
      <3>1. ASSUME k \in DOMAIN nodes[p].children PROVE FALSE
        <4>1. /\ c \in Linked(nodes) \ {Root} /\ c # p /\ a \in Sites \ {Separator}
              /\ AtOrBelow(a, OscAddressIn(nodes, p)) /\ ~ AtOrBelow(OscAddressIn(nodes, p), a)
          BY <1>4, <1>5, <3>1, ChildIs
        <4>2. a \notin DOMAIN directory BY <1>9, <3>1
        <4>3. c \notin H BY <1>4, <4>2, DirIs
        <4>4. PICK f \in {Top} \cup Range(u) : f.op = "destroy" /\ f.node = c
          BY <1>4, <4>1, <4>3 DEF Accounted
        <4>5. f \in Range(u) BY <4>1, <4>4
        <4>6. PICK h \in Range(u) : h.op = "remove" /\ h.node = c
          BY <1>4, <4>4, <4>5, DestroyBelow
        <4>7. h.address = a BY <1>4, <4>6 DEF Base, RemoveBase
        <4>8. a # None /\ AtOrBelow(a, a) BY <4>1, SiteAddress, BelowAll
        <4> QED BY <1>5, <4>1, <4>6, <4>7, <4>8
      <3> QED BY <3>1
    <2>2. TopOK(nodes, directory, y, u) BY <1>6, <1>8, <2>1 DEF TopOK, Covered
    <2>3. Sound(nodes, directory, Pushed(u, y))
      BY <1>3, <1>6, <1>7, <2>2, TopReplaced
    <2>4. <<y>> \o u = Pushed(u, y) /\ Range(Pushed(u, y)) = {y} \cup Range(u)
      BY <1>3, <1>6, Replaced
    <2>5. ObsOK(observers, {y} \cup Range(u)) BY <1>3, <1>6 DEF ObsOK
    <2> HIDE DEF u, known
    <2> QED BY <1>2, <1>9, <2>3, <2>4, <2>5, Zenon DEF IInv
  <1>10. CASE known
    <2>1. /\ k \in DOMAIN nodes[p].children /\ a \in DOMAIN directory
          /\ stack' = (<<m, r>> \o <<y>>) \o u /\ nodes' = ms
      BY <1>2, <1>10, Zenon
    <2>2. /\ c \in Linked(nodes) \ {Root} /\ nodes[c].parent = p /\ ChildKey(nodes, c) = k
          /\ a \in Sites \ {Separator}
          /\ AtOrBelow(a, OscAddressIn(nodes, p)) /\ ~ AtOrBelow(OscAddressIn(nodes, p), a)
      BY <1>4, <1>5, <2>1, ChildIs, SMTT(20)
    <2>3. directory[a] = c BY <1>4, <2>1, <2>2, DirIs, SMTT(20)
    <2>4. c \in Nat /\ a \in Address /\ DOMAIN observers \subseteq Keys
      BY <1>3, <1>4, <2>2, TreeIs, SiteAddress, SMTT(20) DEF ObsOK
    <2>5. /\ r \in FrameType /\ RemoveFrame(r, directory, a)
          /\ m \in FrameType /\ TellFrame(m, a, directory[a]) /\ m.todo \subseteq DOMAIN observers
      <3>1. /\ r \in FrameType /\ r.op = "remove" /\ r.pc = "erase" /\ r.address = a
            /\ r.node = directory[a]
        BY <2>3, <2>4, FrameIs
      <3>2. /\ m \in FrameType /\ m.op = "notify" /\ m.pc = "keys" /\ m.address = a
            /\ m.node = directory[a] /\ m.todo \subseteq DOMAIN observers
        BY <2>3, <2>4, NotifyFrameIs
      <3> QED BY <3>1, <3>2, Zenon DEF RemoveFrame, TellFrame
    <2> HIDE DEF r, m, u
    <2> DEFINE w == Pushed(u, y)
    <2>6. /\ w \in Seq(FrameType) /\ w # <<>> /\ w[1] = y /\ Range(w) = {y} \cup Range(u)
          /\ Head(w) = y /\ Tail(w) = u
      <3>1. u \in Seq(FrameType) /\ y \in FrameType BY <1>4, <1>6
      <3>2. /\ w \in Seq(FrameType) /\ w # <<>> /\ w[1] = y /\ Range(w) = {y} \cup Range(u)
        BY <3>1, Push
      <3>3. Head(w) = y /\ Tail(w) = u BY <3>1, PushTop
      <3> QED BY <3>2, <3>3
    (* The destructor waits for the removal.                               *)
    <2>7. Chain(nodes, H, w) /\ Accounted(nodes, H, Range(w))
      <3>1. u # <<>> BY <1>3, <1>4
      <3>2. Nested(y, u[1]) /\ u[1].op # "destroy"
        BY <1>3, <1>4, <1>6, <3>1 DEF Nested
      <3>3. Related(nodes, y, u[1]) BY <1>6, <3>2 DEF Related
      <3>4. \A g \in Range(u) : Apart(y, g) BY <1>6 DEF Apart
      <3>5. Chain(nodes, H, Pushed(u, y))
        BY <1>4, <1>6, <1>7, <3>1, <3>2, <3>3, <3>4, ChainPush
      <3>6. Accounted(nodes, H, {y} \cup Range(u))
        <4>1. \A i \in Linked(nodes) \ H :
                \E f \in {y} \cup Range(u) : f.op = "destroy" /\ f.node = i
          BY <1>3, <1>4, <1>6 DEF Accounted
        <4>2. \A i \in Pending(nodes) :
                \E f \in {y} \cup Range(u) : f.op = "create" /\ f.pc = "setChild" /\ f.node = i
          BY <1>3, <1>4, <1>6 DEF Accounted
        <4>3. \A i : (\A f \in {y} \cup Range(u) : f.op = "remove" => f.node # i)
                       <=> (\A f \in {Top} \cup Range(u) : f.op = "remove" => f.node # i)
          BY <1>3, <1>6
        <4>4. \A i \in DOMAIN nodes :
                nodes[i].destroyed =
                  IF nodes[i].live
                     /\ \A f \in {Top} \cup Range(u) : f.op = "remove" => f.node # i
                  THEN 0 ELSE 1
          BY <1>4 DEF Accounted
        <4>5. \A i \in DOMAIN nodes :
                nodes[i].destroyed =
                  IF nodes[i].live
                     /\ \A f \in {y} \cup Range(u) : f.op = "remove" => f.node # i
                  THEN 0 ELSE 1
          BY <4>3, <4>4
        <4> QED BY <4>1, <4>2, <4>5 DEF Accounted
      <3> QED BY <2>6, <3>5, <3>6
    <2> HIDE DEF w
    <2>8. MayRemove(nodes, directory, a, w)
      BY <1>6, <1>8, <2>2, <2>3, <2>6, <1>5 DEF MayRemove
    <2>9. Sound(ms, directory, Pushed(Pushed(w, r), m))
      BY <1>4, <2>1, <2>2, <2>5, <2>7, <2>8, RemovalBegun, Zenon
    <2>10. /\ (<<m, r>> \o <<y>>) \o u = Pushed(Pushed(w, r), m)
           /\ Range(Pushed(Pushed(w, r), m)) = {m, r} \cup Range(w)
      <3>1. /\ <<m, r>> \o w = Pushed(Pushed(w, r), m)
            /\ Range(Pushed(Pushed(w, r), m)) = {m, r} \cup Range(w)
        BY <2>5, <2>6, PushTwo
      <3>2. w = <<y>> \o u BY DEF w, Pushed
      <3>3. (<<m, r>> \o <<y>>) \o u = <<m, r>> \o (<<y>> \o u)
        BY <1>6, <2>5, <1>4, FramesAssociative
      <3> QED BY <3>1, <3>2, <3>3
    <2>11. ObsOK(observers, {m, r} \cup Range(w))
      BY <1>3, <1>6, <2>5, <2>6 DEF ObsOK, RemoveFrame, TellFrame
    <2> HIDE DEF ms
    <2> QED BY <1>2, <2>1, <2>9, <2>10, <2>11 DEF IInv
  <1> QED BY <1>9, <1>10

-----------------------------------------------------------------------------
(* A destructor ends.                                                      *)

(* A node without children is freed, and its removal ends.                 *)
Destroying(ns, d, x, u) ==
  /\ TreeOK(ns) /\ DirOK(ns, d) /\ Len(ns) <= Len(Numerals)
  /\ x \in FrameType /\ x.op = "destroy" /\ Base(ns, HandedIn(d), x)
  /\ DOMAIN ns[x.node].children = {}
  /\ Chain(ns, HandedIn(d), u) /\ u # <<>> /\ Nested(x, u[1])
  /\ Accounted(ns, HandedIn(d), {x} \cup Range(u))

LEMMA Removed ==
  ASSUME NEW ns, NEW d, NEW x, NEW u, Destroying(ns, d, x, u),
         NEW ms, Cut(ns, ms, x.node, ns[x.node].parent)
  PROVE  Sound(ms, d, Tail(u)) /\ Range(u) = {Head(u)} \cup Range(Tail(u))
  <1> DEFINE n == x.node
             p == ns[n].parent
             h == Head(u)
             v == Tail(u)
             H == HandedIn(d)
  <1>0. /\ Chain(ns, HandedIn(d), u) /\ u # <<>> /\ TreeOK(ns) /\ x \in FrameType
        /\ x.op = "destroy" /\ Base(ns, HandedIn(d), x) /\ Nested(x, u[1])
    BY DEF Destroying
  <1>1. /\ Chain(ns, H, v) /\ h \in FrameType /\ v \in Seq(FrameType)
        /\ Range(u) = {h} \cup Range(v)
        /\ v # <<>> => Nested(h, v[1]) /\ Related(ns, h, v[1])
        /\ \A f \in Range(v) : Apart(h, f) /\ Base(ns, H, f) /\ f \in FrameType
    BY <1>0, ChainPop
  <1>2. /\ h.op = "remove" /\ h.pc = "destroying" /\ h.node = n
        /\ h.address = OscAddressIn(ns, n) /\ n \in Linked(ns) \ {Root}
    BY <1>0, BelowDestroyed
  <1>3. /\ TreeOK(ns) /\ DirOK(ns, d) /\ Accounted(ns, H, {x} \cup Range(u))
        /\ Len(ns) <= Len(Numerals) /\ x.op = "destroy" /\ x.node = n
        /\ n \notin H /\ Cut(ns, ms, n, p) /\ DOMAIN ns[n].children = {} /\ ns[n].parent = p
    BY DEF Destroying, Base, DestroyBase
  <1> HIDE DEF n, p, h, v, H
  <1>4. /\ TreeOK(ms) /\ Linked(ms) = Linked(ns) \ {n} /\ Pending(ms) = Pending(ns)
        /\ Len(ms) = Len(ns)
        /\ \A i \in Linked(ns) : OscAddressIn(ms, i) = OscAddressIn(ns, i)
    BY <1>2, <1>3, NodeCut
  <1>5. /\ DOMAIN ms = DOMAIN ns
        /\ \A i \in DOMAIN ns :
             /\ ms[i].name = ns[i].name /\ ms[i].instance = ns[i].instance
             /\ ms[i].parent = ns[i].parent /\ ms[i].destroyed = ns[i].destroyed
             /\ i # p => ms[i].children = ns[i].children
        /\ \A i \in DOMAIN ns : i # n => ms[i].live = ns[i].live
        /\ ~ ms[n].live
        /\ DOMAIN ms[p].children = DOMAIN ns[p].children \ {ChildKey(ns, n)}
    BY <1>3 DEF Cut
  <1>6. /\ Linked(ns) \subseteq DOMAIN ns /\ Pending(ns) \subseteq DOMAIN ns
        /\ n \in DOMAIN ns /\ H \subseteq Linked(ns) /\ Linked(ns) \cap Pending(ns) = {}
    BY <1>2, <1>3, TreeIs, DirIs DEF H
  (* No call below works on the node.                                      *)
  <1>7. \A f \in Range(v) : f.op = "remove" => f.node # n
    BY <1>1, <1>2, <1>3, AddressIsSite, SiteAddress, BelowAll DEF Apart
  <1>8. ASSUME NEW f \in Range(v), f.node \in Linked(ns) \cup Pending(ns)
        PROVE  f.node # n
    <2>1. Base(ns, H, f) /\ f \in FrameType BY <1>1
    <2>2. CASE f.op = "destroy" BY <1>1, <2>2, DestroyBelow, <1>7
    <2>3. CASE f.op = "remove" BY <1>7, <2>3
    <2>4. CASE f.op = "notify" BY <1>3, <2>1, <2>4 DEF Base, NotifyBase
    <2>5. CASE f.op = "create"
      BY <2>1, <2>5, <1>3, TreeIs, <1>2, <1>6 DEF Base, CreateBase
    <2> QED BY <2>1, <2>2, <2>3, <2>4, <2>5 DEF FrameType
  <1>9. Chain(ms, H, v)
    <2>1. ASSUME NEW f \in Range(v), f.node \in Linked(ns) \cup Pending(ns)
          PROVE  Undisturbed(ns, H, ms, H, f.node)
      BY <1>6, <1>8, <2>1, <1>4, <1>5 DEF Undisturbed
    <2>2. ASSUME NEW f \in Range(v) PROVE NoMoreChildren(ns, ms, f)
      BY <1>1, <1>6, <1>5 DEF Base, DestroyBase, CreateBase, NoMoreChildren
    <2> QED BY <1>1, <2>1, <2>2, ChainStable
  <1>10. ASSUME v # <<>> PROVE TopOK(ms, d, Head(v), Tail(v))
    <2>1. Head(v) = v[1] /\ Head(v) \in FrameType BY <1>1, <1>10, Pop
    <2>2. Nested(h, Head(v)) /\ Related(ns, h, Head(v)) BY <1>1, <1>10, <2>1
    <2>3. Head(v).op \in {"destroy", "notify"}
      BY <1>2, <2>1, <2>2 DEF Nested, FrameType
    <2>4. ASSUME Head(v).op = "destroy" PROVE Covered(ms, Head(v), {})
      BY <1>2, <1>3, <2>2, <2>4, <1>5 DEF Related, Covered
    <2> QED BY <2>3, <2>4 DEF TopOK
  <1>11. Accounted(ms, H, Range(v))
    <2>1. ASSUME NEW i \in Linked(ms) \ H
          PROVE  \E f \in Range(v) : f.op = "destroy" /\ f.node = i
      BY <1>4, <1>3, <1>1, <1>2 DEF Accounted
    <2>2. ASSUME NEW i \in Pending(ms)
          PROVE  \E f \in Range(v) : f.op = "create" /\ f.pc = "setChild" /\ f.node = i
      BY <1>3, <1>4, <1>1, <1>2 DEF Accounted
    <2>3. ASSUME NEW i \in DOMAIN ms
          PROVE  ms[i].destroyed = IF ms[i].live
                                      /\ \A f \in Range(v) : f.op = "remove" => f.node # i
                                   THEN 0 ELSE 1
      BY <1>3, <1>5, <2>3, <1>1, <1>2 DEF Accounted
    <2> QED BY <2>1, <2>2, <2>3 DEF Accounted
  <1>12. DirOK(ms, d) BY <1>3, <1>4, <1>6, DirStable DEF H
  <1>13. Len(ms) <= Len(Numerals) BY <1>3, <1>4
  <1>14. Sound(ms, d, v) BY <1>4, <1>9, <1>10, <1>11, <1>12, <1>13 DEF Sound, H
  <1> QED BY <1>1, <1>14 DEF h, v

LEMMA UnlinkKeeps ==
  ASSUME IInv, Unlink
  PROVE  IInv'
  <1> DEFINE u == Tail(stack)
             n == Top.node
             p == nodes[n].parent
             H == HandedIn(directory)
             ms == [nodes EXCEPT ![nodes[n].parent].children = Without(@, ChildKey(nodes, n)),
                                 ![n].live = FALSE]
  <1>1. /\ nodes' = ms /\ directory' = directory /\ observers' = observers
        /\ stack' = Tail(u) /\ Top.todo = {} /\ Top.group = {}
    BY DEF Unlink
  <1>2. /\ Top \in FrameType /\ Top.op = "destroy" /\ stack # <<>>
        /\ Top = Head(stack) /\ Sound(nodes, directory, stack) /\ stack \in Seq(FrameType)
        /\ ObsOK(observers, {Top} \cup Range(u))
        /\ Base(nodes, H, Top) /\ TopOK(nodes, directory, Top, u)
    BY Opened DEF Unlink
  <1>3. /\ TreeOK(nodes) /\ DirOK(nodes, directory) /\ Len(nodes) <= Len(Numerals)
        /\ Chain(nodes, H, u) /\ u # <<>> /\ Nested(Top, u[1])
        /\ Accounted(nodes, H, {Top} \cup Range(u))
    BY <1>2, SoundPop
  <1>4. n \in Linked(nodes) \ {Root} BY <1>2, <1>3, BelowDestroyed
  <1>5. DOMAIN nodes[n].children = {} BY <1>1, <1>2, Zenon DEF TopOK, Covered
  <1>6. Cut(nodes, ms, n, p) BY <1>3, <1>4, UnlinkedNodes
  <1> HIDE DEF ms, u
  <1>7. Sound(ms, directory, Tail(u)) /\ Range(u) = {Head(u)} \cup Range(Tail(u))
    <2>1. /\ TreeOK(nodes) /\ DirOK(nodes, directory) /\ Len(nodes) <= Len(Numerals)
          /\ Chain(nodes, HandedIn(directory), u) /\ u # <<>> /\ Nested(Top, u[1])
          /\ Accounted(nodes, HandedIn(directory), {Top} \cup Range(u))
      BY <1>3
    <2>2. /\ Top \in FrameType /\ Top.op = "destroy" /\ Base(nodes, HandedIn(directory), Top)
      BY <1>2
    <2>3. DOMAIN nodes[Top.node].children = {} /\ Cut(nodes, ms, Top.node, nodes[Top.node].parent)
      BY <1>5, <1>6
    <2> HIDE DEF H, n, p, Top
    <2>4. Destroying(nodes, directory, Top, u) BY <2>1, <2>2, <2>3 DEF Destroying
    <2> QED BY <2>3, <2>4, Removed
  <1>8. ObsOK(observers, Range(Tail(u))) BY <1>2, <1>7 DEF ObsOK
  <1> QED BY <1>1, <1>7, <1>8 DEF IInv

-----------------------------------------------------------------------------
(* A creation makes its node.                                              *)

(* A creation makes its node.                                              *)
Starting(ns, d, x, u) ==
  /\ TreeOK(ns) /\ DirOK(ns, d) /\ Len(ns) <= Len(Numerals)
  /\ x \in FrameType /\ x.op = "create" /\ x.pc = "instantiate" /\ Base(ns, HandedIn(d), x)
  /\ Chain(ns, HandedIn(d), u) /\ TopOK(ns, d, x, u)
  /\ u # <<>> => Nested(x, u[1]) /\ Related(ns, x, u[1])
  /\ \A g \in Range(u) : Apart(x, g) /\ Base(ns, HandedIn(d), g) /\ g \in FrameType
  /\ Accounted(ns, HandedIn(d), {x} \cup Range(u))

(* What is at or above its address is still handed out.                    *)
LEMMA StillHanded ==
  ASSUME NEW ns, NEW d, NEW x, NEW u, Starting(ns, d, x, u), NEW n \in Linked(ns),
         AtOrBelow(x.address, OscAddressIn(ns, n))
  PROVE  n \in HandedIn(d) /\ OscAddressIn(ns, n) \in DOMAIN d
                           /\ d[OscAddressIn(ns, n)] = n
  <1> DEFINE H == HandedIn(d)
  <1>1. /\ TreeOK(ns) /\ DirOK(ns, d) /\ x.op = "create" /\ x.pc = "instantiate"
        /\ Chain(ns, H, u) /\ Accounted(ns, H, {x} \cup Range(u))
        /\ \A g \in Range(u) : Apart(x, g) /\ Base(ns, H, g) /\ g \in FrameType
    BY DEF Starting
  <1> HIDE DEF H
  <1>2. ASSUME n \notin H PROVE FALSE
    <2>1. PICK f \in {x} \cup Range(u) : f.op = "destroy" /\ f.node = n
      BY <1>1, <1>2 DEF Accounted
    <2>2. f \in Range(u) BY <1>1, <2>1
    <2>3. PICK h \in Range(u) : h.op = "remove" /\ h.pc = "destroying" /\ h.node = n
      BY <1>1, <2>1, <2>2, DestroyBelow
    <2>4. h.address = OscAddressIn(ns, n) BY <1>1, <2>3 DEF Base, RemoveBase
    <2>5. h.address # None BY <1>1, <2>3, AddressIsSite
    <2>6. ~ AtOrBelow(x.address, h.address) BY <1>1, <2>3, <2>5 DEF Apart
    <2> QED BY <2>4, <2>6
  <1> QED BY <1>1, <1>2, DirIs DEF H

(* The creation frame that has its node.                                   *)
Holding(ns, x, y) ==
  /\ y \in FrameType /\ y.op = "create" /\ y.pc = "setChild" /\ y.address = x.address
  /\ y.node = Len(ns) + 1

LEMMA Placed ==
  ASSUME NEW ns, NEW d, NEW x, NEW u, Starting(ns, d, x, u), NEW y, Holding(ns, x, y),
         NEW instance, NEW parent, NEW ms,
         Added(ns, ms, SplitOSCAddress(x.address).name, instance, parent),
         instance \in {SplitOSCAddress(x.address).instance} \cup Numbers,
         u # <<>> /\ u[1].op = "create" => instance = SplitOSCAddress(x.address).instance
  PROVE  /\ TreeOK(ms) /\ DirOK(ms, d) /\ Len(ms) <= Len(Numerals)
         /\ Chain(ms, HandedIn(d), u) /\ Base(ms, HandedIn(d), y)
         /\ u # <<>> => Nested(y, u[1]) /\ Related(ms, y, u[1])
         /\ \A g \in Range(u) : Apart(y, g)
         /\ Accounted(ms, HandedIn(d), {y} \cup Range(u))
  <1> DEFINE H == HandedIn(d)
             a == x.address
             new == Len(ns) + 1
  <1>1. /\ TreeOK(ns) /\ DirOK(ns, d) /\ Len(ns) <= Len(Numerals) /\ TopOK(ns, d, x, u)
        /\ x \in FrameType /\ x.op = "create" /\ x.pc = "instantiate" /\ Base(ns, H, x)
        /\ Chain(ns, H, u) /\ Accounted(ns, H, {x} \cup Range(u))
        /\ u # <<>> => Nested(x, u[1]) /\ Related(ns, x, u[1])
        /\ \A g \in Range(u) : Apart(x, g) /\ Base(ns, H, g) /\ g \in FrameType
    BY DEF Starting
  <1>2. /\ y \in FrameType /\ y.op = "create" /\ y.pc = "setChild" /\ y.address = a
        /\ y.node = new
    BY DEF Holding
  <1>3. /\ TreeOK(ms) /\ Linked(ms) = Linked(ns) /\ Pending(ms) = Pending(ns) \cup {new}
        /\ \A i \in Linked(ns) : OscAddressIn(ms, i) = OscAddressIn(ns, i)
        /\ DOMAIN ms = DOMAIN ns \cup {new} /\ new \notin DOMAIN ns /\ Len(ms) = new
        /\ \A i \in DOMAIN ns : ms[i] = ns[i]
        /\ ms[new].name = SplitOSCAddress(a).name /\ ms[new].instance = instance
        /\ ms[new].parent = parent
        /\ DOMAIN ms[new].children = {} /\ ms[new].live /\ ms[new].destroyed = 0
    BY DEF Added
  <1>4. a \in Sites \ {Separator} /\ a \in Places BY <1>1 DEF Base, CreateBase
  <1> HIDE DEF H, a, new
  <1>5. /\ Linked(ns) \subseteq DOMAIN ns /\ Pending(ns) \subseteq DOMAIN ns /\ H \subseteq Linked(ns)
    BY <1>1, TreeIs, DirIs DEF H
  <1>6. DirOK(ms, d) BY <1>3, <1>5, <1>1, DirStable DEF H
  <1>7. Len(ms) <= Len(Numerals)
    BY <1>1, <1>4, TreeIs, CountPositive, NodeDirectoryAssumption, <1>3 DEF TopOK, CreateTop,
       a, new
  <1>8. Chain(ms, H, u)
    BY <1>3, <1>5, <1>1, ChainStable DEF Undisturbed, Base, DestroyBase, CreateBase,
       NoMoreChildren
  <1>9. Base(ms, H, y) BY <1>2, <1>3, <1>4 DEF a, Base, CreateBase
  <1>10. ASSUME u # <<>> PROVE Nested(y, u[1]) /\ Related(ms, y, u[1])
    <2>1. Nested(x, u[1]) /\ Related(ns, x, u[1]) /\ u[1] \in Range(u)
      BY <1>1, <1>10, Pop DEF Chain
    <2>2. Nested(y, u[1]) BY <1>1, <1>2, <2>1 DEF Nested, a
    <2>3. u[1].op # "destroy" BY <1>2, <2>2 DEF Nested
    <2>4. ASSUME u[1].op = "create"
          PROVE  /\ ms[u[1].node].parent = 0
                 /\ ms[u[1].node].instance = SplitOSCAddress(u[1].address).instance
                 /\ ms[y.node].instance = SplitOSCAddress(y.address).instance
      <3>1. /\ ns[u[1].node].parent = 0
            /\ ns[u[1].node].instance = SplitOSCAddress(u[1].address).instance
        BY <1>1, <2>1, <2>4 DEF Related
      <3>2. u[1].pc = "setChild" /\ Base(ns, H, u[1])
        BY <1>1, <1>2, <2>1, <2>2, <2>4 DEF Nested
      <3>3. u[1].node \in DOMAIN ns BY <1>5, <2>4, <3>2 DEF Base, CreateBase
      <3>4. ms[u[1].node] = ns[u[1].node] BY <1>3, <3>3
      <3>5. instance = SplitOSCAddress(a).instance BY <1>10, <2>4 DEF a
      <3> QED BY <1>2, <1>3, <3>1, <3>4, <3>5
    <2>5. Related(ms, y, u[1]) BY <1>2, <2>3, <2>4 DEF Related
    <2> QED BY <2>2, <2>5
  <1>11. ASSUME NEW g \in Range(u) PROVE Apart(y, g)
    BY <1>1, <1>5, <1>2, <1>3 DEF Base, CreateBase, Apart, a
  <1>12. Accounted(ms, H, {y} \cup Range(u))
    <2>1. ASSUME NEW i \in Linked(ms) \ H
          PROVE  \E f \in {y} \cup Range(u) : f.op = "destroy" /\ f.node = i
      BY <1>1, <1>3 DEF Accounted
    <2>2. ASSUME NEW i \in Pending(ms)
          PROVE  \E f \in {y} \cup Range(u) : f.op = "create" /\ f.pc = "setChild" /\ f.node = i
      <3>1. CASE i = new BY <1>2, <3>1
      <3>2. CASE i # new BY <1>1, <1>3, <3>2 DEF Accounted
      <3> QED BY <3>1, <3>2
    <2>3. ASSUME NEW i \in DOMAIN ms
          PROVE  ms[i].destroyed = IF ms[i].live
                                      /\ \A f \in {y} \cup Range(u) : f.op = "remove" => f.node # i
                                   THEN 0 ELSE 1
      BY <1>1, <1>5, <1>2, <1>3, <2>3 DEF Base, RemoveBase, Accounted
    <2> QED BY <2>1, <2>2, <2>3 DEF Accounted
  <1> QED BY <1>3, <1>6, <1>7, <1>8, <1>9, <1>10, <1>11, <1>12 DEF H

(* The address that a creation is for.                                     *)
LEMMA StartingAt ==
  ASSUME NEW ns, NEW d, NEW x, NEW u, Starting(ns, d, x, u)
  PROVE  LET parts == SplitOSCAddress(x.address)
         IN  /\ x.address \in Sites \ {Separator} /\ x.address \in Places
             /\ parts.parent \in Sites /\ parts.name \in Singles /\ parts.instance \in Instances
             /\ x.address = Join(parts.parent, parts.name, parts.instance)
             /\ AtOrBelow(x.address, x.address) /\ AtOrBelow(x.address, parts.parent)
             /\ ~ AtOrBelow(parts.parent, x.address)
             /\ TreeOK(ns) /\ DirOK(ns, d) /\ Len(ns) <= Len(Numerals)
             /\ Separator \in DOMAIN d
  <1> DEFINE a == x.address
             parts == SplitOSCAddress(a)
  <1>1. a \in Sites \ {Separator} /\ a \in Places BY DEF Starting, Base, CreateBase
  <1>2. /\ parts.parent \in Sites /\ parts.name \in Singles /\ parts.instance \in Instances
        /\ a = Join(parts.parent, parts.name, parts.instance)
    BY <1>1, PathParts
  <1>3. /\ AtOrBelow(a, a) /\ AtOrBelow(a, parts.parent) /\ ~ AtOrBelow(parts.parent, a)
    BY <1>1, <1>2, BelowAll
  <1>4. TreeOK(ns) /\ DirOK(ns, d) /\ Len(ns) <= Len(Numerals) /\ Separator \in DOMAIN d
    BY DEF Starting, DirOK
  <1> QED BY <1>1, <1>2, <1>3, <1>4

(* An address that is taken: the parent is known, an instance is free.     *)
LEMMA FoundFree ==
  ASSUME NEW ns, NEW d, NEW x, NEW u, Starting(ns, d, x, u), x.address \in DOMAIN d
  PROVE  LET parts == SplitOSCAddress(x.address)
             f == d[x.address]
             instance == GenerateInstance(ns, ns[f].parent, ns[f].name)
         IN  /\ f # 0 /\ parts.parent \in DOMAIN d
             /\ instance \in Numbers /\ instance \in Instances
             /\ <<parts.name, instance>> \notin DOMAIN ns[d[parts.parent]].children
  <1> DEFINE a == x.address
             Q == SplitOSCAddress(a).parent
             f == d[x.address]
             p == ns[f].parent
             name == ns[f].name
             instance == GenerateInstance(ns, p, name)
  <1>1. /\ TreeOK(ns) /\ DirOK(ns, d) /\ Len(ns) <= Len(Numerals)
        /\ a \in Sites \ {Separator} /\ AtOrBelow(a, Q)
    BY StartingAt
  <1>2. f \in Linked(ns) /\ OscAddressIn(ns, f) = a /\ f # Root
    BY <1>1, DirIs DEF DirOK
  <1>3. /\ p \in Linked(ns) /\ name \in Singles /\ OscAddressIn(ns, p) = Q
        /\ SplitOSCAddress(a).name = name
    BY <1>1, <1>2, AdrIs DEF ParentOf
  <1>4. Q \in DOMAIN d /\ d[Q] = p BY <1>1, <1>3, StillHanded
  <1>5. f # 0 /\ p \in DOMAIN ns BY <1>1, <1>2, <1>3, TreeIs
  <1>6. /\ instance \in Instances /\ instance \in Numbers
        /\ <<name, instance>> \notin DOMAIN ns[p].children
    BY <1>1, <1>3, <1>5, TableFree DEF Numbers
  <1> QED BY <1>3, <1>4, <1>5, <1>6

(* One that is not taken is free in the table of the parent, too.          *)
LEMMA NotFoundFree ==
  ASSUME NEW ns, NEW d, NEW x, NEW u, Starting(ns, d, x, u), x.address \notin DOMAIN d,
         SplitOSCAddress(x.address).parent \in DOMAIN d
  PROVE  LET parts == SplitOSCAddress(x.address)
         IN  <<parts.name, parts.instance>> \notin DOMAIN ns[d[parts.parent]].children
  <1> DEFINE a == x.address
             parts == SplitOSCAddress(a)
             p == d[parts.parent]
             k == <<parts.name, parts.instance>>
             c == ns[p].children[k]
  <1>1. /\ TreeOK(ns) /\ DirOK(ns, d) /\ a = Join(parts.parent, parts.name, parts.instance)
        /\ AtOrBelow(a, a)
    BY StartingAt
  <1>2. p \in Linked(ns) /\ OscAddressIn(ns, p) = parts.parent BY <1>1 DEF DirOK
  <1>3. ASSUME k \in DOMAIN ns[p].children PROVE FALSE
    <2>1. c \in Linked(ns) \ {Root} /\ ns[c].parent = p /\ ChildKey(ns, c) = k
      BY <1>1, <1>2, <1>3, ChildIs
    <2>2. OscAddressIn(ns, c) = Join(OscAddressIn(ns, ns[c].parent), ns[c].name, ns[c].instance)
      BY <1>1, <2>1, AdrIs, SMTT(20)
    <2>3. ns[c].name = parts.name /\ ns[c].instance = parts.instance
      BY <2>1, Zenon DEF ChildKey
    <2>4. OscAddressIn(ns, c) = a BY <1>1, <1>2, <2>1, <2>2, <2>3, Zenon
    <2>5. OscAddressIn(ns, c) \in DOMAIN d BY <1>1, <2>4, <2>1, StillHanded
    <2> QED BY <2>4, <2>5
  <1> QED BY <1>3

(* The parent is known: the node can be attached.                          *)
LEMMA ParentKnown ==
  ASSUME NEW ns, NEW d, NEW x, NEW u, Starting(ns, d, x, u), NEW y, Holding(ns, x, y),
         NEW instance \in Instances,
         instance \in {SplitOSCAddress(x.address).instance} \cup Numbers,
         u # <<>> /\ u[1].op = "create" => instance = SplitOSCAddress(x.address).instance,
         SplitOSCAddress(x.address).parent \in DOMAIN d,
         <<SplitOSCAddress(x.address).name, instance>>
            \notin DOMAIN ns[d[SplitOSCAddress(x.address).parent]].children
  PROVE  Sound(Append(ns, Node(SplitOSCAddress(x.address).name, instance,
                               d[SplitOSCAddress(x.address).parent])), d, Pushed(u, y))
  <1> DEFINE a == x.address
             name == SplitOSCAddress(x.address).name
             Q == SplitOSCAddress(x.address).parent
             p == d[Q]
             ms == Append(ns, Node(name, instance, p))
             new == Len(ns) + 1
  <1>1. /\ TreeOK(ns) /\ DirOK(ns, d) /\ name \in Singles BY StartingAt
  <1>2. p \in Linked(ns) /\ p \in HandedIn(d) /\ p \in DOMAIN ns
    BY <1>1, TreeIs, DirIs DEF DirOK
  <1>3. <<name, instance>> \notin DOMAIN ns[p].children OBVIOUS
  <1>4. y \in FrameType /\ y.op = "create" /\ y.pc = "setChild" /\ y.address = a /\ y.node = new
    BY DEF Holding
  <1> HIDE DEF p
  <1>5. Added(ns, ms, name, instance, p) BY <1>1, <1>2, NewNode
  <1> HIDE DEF ms
  <1>6. /\ TreeOK(ms) /\ DirOK(ms, d) /\ Len(ms) <= Len(Numerals)
        /\ Chain(ms, HandedIn(d), u) /\ Base(ms, HandedIn(d), y)
        /\ u # <<>> => Nested(y, u[1]) /\ Related(ms, y, u[1])
        /\ \A g \in Range(u) : Apart(y, g)
        /\ Accounted(ms, HandedIn(d), {y} \cup Range(u))
    BY <1>5, Placed
  <1>7. TopOK(ms, d, y, u)
    <2>1. /\ ms[new].parent = p /\ ms[p] = ns[p] /\ ms[new].name = name
          /\ ms[new].instance = instance
      BY <1>2, <1>5 DEF Added, new
    <2>2. OscAddressIn(ms, p) = Q BY <1>6 DEF DirOK, p
    <2>3. ChildKey(ms, new) = <<name, instance>> BY <2>1 DEF ChildKey
    <2> HIDE DEF name, Q, new
    <2>4. ParentOf(a) = Q BY DEF Q, ParentOf
    <2> QED BY <1>2, <1>3, <1>4, <2>1, <2>2, <2>3, <2>4 DEF TopOK, CreateTop
  <1>8. u = <<>> => y.op \in {"create", "remove"} BY <1>4
  <1>9. Sound(ms, d, Pushed(u, y)) BY <1>4, <1>6, <1>7, <1>8, SoundPush
  <1> QED BY <1>9 DEF ms, p

(* The parent is not known: its creation begins.                           *)
LEMMA ParentUnknown ==
  ASSUME NEW ns, NEW d, NEW x, NEW u, Starting(ns, d, x, u), NEW y, Holding(ns, x, y),
         SplitOSCAddress(x.address).parent \notin DOMAIN d,
         NEW z \in FrameType, z.op = "create", z.pc = "instantiate",
         z.address = SplitOSCAddress(x.address).parent, z.node = 0
  PROVE  Sound(Append(ns, Node(SplitOSCAddress(x.address).name,
                               SplitOSCAddress(x.address).instance, 0)), d,
               Pushed(Pushed(u, y), z))
  <1> DEFINE a == x.address
             name == SplitOSCAddress(x.address).name
             instance == SplitOSCAddress(x.address).instance
             Q == SplitOSCAddress(x.address).parent
             ms == Append(ns, Node(name, instance, 0))
             new == Len(ns) + 1
             H == HandedIn(d)
             v == Pushed(u, y)
  <1>1. /\ TreeOK(ns) /\ DirOK(ns, d) /\ name \in Singles /\ instance \in Instances
        /\ Q \in Sites /\ a \in Sites \ {Separator} /\ a \in Places
        /\ a = Join(Q, name, instance) /\ AtOrBelow(a, Q) /\ ~ AtOrBelow(Q, a)
        /\ Separator \in DOMAIN d
    BY StartingAt
  <1>2. Q \in Sites \ {Separator} /\ Q \in Places BY <1>1, PlacesAssumption
  <1>3. y \in FrameType /\ y.op = "create" /\ y.pc = "setChild" /\ y.address = a /\ y.node = new
    BY DEF Holding
  <1>4. /\ u \in Seq(FrameType) /\ TopOK(ns, d, x, u) /\ x.op = "create" /\ x.pc = "instantiate"
        /\ \A g \in Range(u) : Apart(x, g) /\ Base(ns, H, g) /\ g \in FrameType
    BY DEF Starting, Chain
  <1>5. z.address = Q /\ instance \in {instance} \cup Numbers OBVIOUS
  <1>6. Added(ns, ms, name, instance, 0) BY <1>1, NewNode
  <1>7. /\ TreeOK(ms) /\ DirOK(ms, d) /\ Len(ms) <= Len(Numerals)
        /\ Chain(ms, H, u) /\ Base(ms, H, y)
        /\ u # <<>> => Nested(y, u[1]) /\ Related(ms, y, u[1])
        /\ \A g \in Range(u) : Apart(y, g)
        /\ Accounted(ms, H, {y} \cup Range(u))
    BY <1>5, <1>6, Placed
  <1>8. ms[new].parent = 0 /\ ms[new].instance = instance /\ Len(ms) = new
    BY <1>6 DEF Added
  <1>9. a # None /\ ParentOf(a) = Q /\ \A b \in Sites : b # None
    BY <1>1, SiteAddress DEF ParentOf
  <1>10. Len(ns) + CountSeparator(a) <= Len(Numerals) BY <1>4 DEF TopOK, CreateTop
  <1>11. CountSeparator(a) = CountSeparator(Q) + 1 BY <1>1, <1>2, CountJoin
  <1>12. instance = SplitOSCAddress(a).instance OBVIOUS
  <1> HIDE DEF a, name, instance, Q, ms, new, H
  <1>13. /\ v \in Seq(FrameType) /\ v # <<>> /\ v[1] = y /\ Range(v) = {y} \cup Range(u)
    BY <1>3, <1>4, Push
  <1>14. Chain(ms, H, v) BY <1>3, <1>7, ChainPush
  <1> HIDE DEF v
  <1>15. Base(ms, H, z) BY <1>2, <1>5 DEF Base, CreateBase
  <1>16. Nested(z, v[1]) /\ Related(ms, z, v[1])
    BY <1>3, <1>8, <1>9, <1>12, <1>5, <1>13 DEF Nested, Related
  <1>17. ASSUME NEW g \in Range(v) PROVE Apart(z, g)
    <2>1. g.address # None => ~ AtOrBelow(Q, g.address)
      <3>1. CASE g = y BY <1>1, <1>3, <3>1
      <3>2. CASE g \in Range(u)
        BY <1>4, <3>2, <1>1, AddressIsSite, BelowTransitive DEF Apart, a
      <3> QED BY <1>13, <3>1, <3>2
    <2> QED BY <1>5, <2>1 DEF Apart
  <1>18. TopOK(ms, d, z, v)
    BY <1>1, TreeIs, CountPositive, NodeDirectoryAssumption, <1>8, <1>10, <1>11, <1>5 DEF new,
       Q, TopOK, CreateTop
  <1>19. Accounted(ms, H, {z} \cup Range(v)) BY <1>7, <1>13 DEF Accounted
  <1>20. Sound(ms, d, Pushed(v, z))
    BY <1>16, <1>7, <1>14, <1>15, <1>17, <1>18, <1>19, SoundPush DEF H
  <1> QED BY <1>20 DEF v, ms, name, instance

(* The node of a creation is made.                                         *)
LEMMA InstantiateKeeps ==
  ASSUME IInv, Instantiate
  PROVE  IInv'
  <1> DEFINE x == Top
             u == Tail(stack)
             a == x.address
             parts == SplitOSCAddress(a)
             found == IF a \in DOMAIN directory THEN directory[a] ELSE 0
             instance == IF found = 0 THEN parts.instance
                         ELSE GenerateInstance(nodes, nodes[found].parent, nodes[found].name)
             known == parts.parent \in DOMAIN directory
             y == [x EXCEPT !.pc = "setChild", !.node = Len(nodes) + 1]
             z == Frame("create", "instantiate", parts.parent, 0)
             ms == Append(nodes, Node(parts.name, instance,
                                      IF known THEN directory[parts.parent] ELSE 0))
  <1>1. /\ nodes' = ms /\ directory' = directory /\ observers' = observers
        /\ stack' = (IF known THEN <<y>> ELSE <<z, y>>) \o u
    BY DEF Instantiate, Replace
  <1>2. /\ x \in FrameType /\ x.op = "create" /\ x.pc = "instantiate" /\ stack # <<>>
        /\ x = Head(stack) /\ Sound(nodes, directory, stack) /\ stack \in Seq(FrameType)
        /\ ObsOK(observers, {x} \cup Range(u)) /\ Base(nodes, HandedIn(directory), x)
        /\ TopOK(nodes, directory, x, u)
    BY Opened DEF Instantiate
  <1>3. /\ TreeOK(nodes) /\ DirOK(nodes, directory) /\ Len(nodes) <= Len(Numerals)
        /\ Chain(nodes, HandedIn(directory), u) /\ u \in Seq(FrameType)
        /\ u # <<>> => Nested(x, u[1]) /\ Related(nodes, x, u[1])
        /\ \A g \in Range(u) : Apart(x, g) /\ Base(nodes, HandedIn(directory), g) /\ g \in FrameType
        /\ Accounted(nodes, HandedIn(directory), {x} \cup Range(u))
    BY <1>2, SoundPop
  <1>4. Starting(nodes, directory, x, u) BY <1>2, <1>3 DEF Starting
  <1> HIDE DEF x, u
  <1>5. /\ parts.parent \in Sites /\ parts.name \in Singles /\ parts.instance \in Instances
        /\ Len(nodes) \in Nat
    BY <1>3, <1>4, StartingAt, TreeIs
  <1>6. Holding(nodes, x, y)
    <2>1. y \in FrameType /\ y.op = x.op /\ y.pc = "setChild" /\ y.address = x.address
          /\ y.node = Len(nodes) + 1
      <3>1. ASSUME NEW i \in Nat
            PROVE  LET r == [x EXCEPT !.pc = "setChild", !.node = i]
                   IN  /\ r \in FrameType /\ r.op = x.op /\ r.pc = "setChild"
                       /\ r.address = x.address /\ r.node = i
        BY <1>2 DEF FrameType
      <3>2. Len(nodes) + 1 \in Nat BY <1>5
      <3> QED BY <3>1, <3>2, Zenon
    <2> HIDE DEF y
    <2> QED BY <1>2, <2>1 DEF Holding
  <1>7. y \in FrameType /\ y.op = "create" BY <1>6 DEF Holding
  <1>8. /\ z \in FrameType /\ z.op = "create" /\ z.pc = "instantiate"
        /\ z.address = parts.parent /\ z.node = 0
    BY <1>5, SiteAddress, FrameIs
  <1> HIDE DEF y, z
  (* The instance.                                                         *)
  <1>9. CASE found # 0
    <2>1. a \in DOMAIN directory BY <1>9
    <2>2. known /\ instance \in Numbers /\ instance \in Instances
          /\ <<parts.name, instance>> \notin DOMAIN nodes[directory[parts.parent]].children
      BY <1>9, <2>1, <1>4, FoundFree
    <2>3. u # <<>> /\ u[1].op = "create" => instance = SplitOSCAddress(x.address).instance
      BY <1>2, <2>1 DEF TopOK, CreateTop
    <2>4. Sound(Append(nodes, Node(SplitOSCAddress(x.address).name, instance,
                                   directory[SplitOSCAddress(x.address).parent])),
                directory, Pushed(u, y))
      BY <1>4, <1>6, <2>2, <2>3, ParentKnown
    <2>5. Sound(ms, directory, Pushed(u, y)) BY <2>2, <2>4
    <2>6. stack' = Pushed(u, y) BY <1>1, <2>2 DEF Pushed
    <2>7. ObsOK(observers, Range(Pushed(u, y)))
      <3>1. Range(Pushed(u, y)) = {y} \cup Range(u) BY <1>3, <1>7, Push
      <3> QED BY <1>2, <1>7, <3>1 DEF ObsOK
    <2> QED BY <1>1, <2>5, <2>6, <2>7 DEF IInv
  <1>10. ASSUME found = 0 PROVE a \notin DOMAIN directory /\ instance = parts.instance
    BY <1>4, FoundFree, <1>10
  <1>11. CASE found = 0 /\ known
    <2>1. <<parts.name, parts.instance>> \notin DOMAIN nodes[directory[parts.parent]].children
      BY <1>4, <1>10, <1>11, NotFoundFree
    <2>2. Sound(Append(nodes, Node(SplitOSCAddress(x.address).name,
                                   SplitOSCAddress(x.address).instance,
                                   directory[SplitOSCAddress(x.address).parent])),
                directory, Pushed(u, y))
      BY <1>4, <1>5, <1>6, <1>11, <2>1, ParentKnown
    <2>3. Sound(ms, directory, Pushed(u, y)) BY <1>10, <1>11, <2>2
    <2>4. stack' = Pushed(u, y) BY <1>1, <1>11 DEF Pushed
    <2>5. ObsOK(observers, Range(Pushed(u, y)))
      <3>1. Range(Pushed(u, y)) = {y} \cup Range(u) BY <1>3, <1>7, Push
      <3> QED BY <1>2, <1>7, <3>1 DEF ObsOK
    <2> QED BY <1>1, <2>3, <2>4, <2>5 DEF IInv
  <1>12. CASE found = 0 /\ ~ known
    <2>1. Sound(Append(nodes, Node(SplitOSCAddress(x.address).name,
                                   SplitOSCAddress(x.address).instance, 0)), directory,
                Pushed(Pushed(u, y), z))
      BY <1>4, <1>6, <1>8, <1>12, ParentUnknown
    <2>2. Sound(ms, directory, Pushed(Pushed(u, y), z)) BY <1>10, <1>12, <2>1
    <2>3. /\ stack' = Pushed(Pushed(u, y), z)
          /\ Range(Pushed(Pushed(u, y), z)) = {z, y} \cup Range(u)
      <3>1. /\ <<z, y>> \o u = Pushed(Pushed(u, y), z)
            /\ Range(Pushed(Pushed(u, y), z)) = {z, y} \cup Range(u)
        BY <1>3, <1>7, <1>8, PushTwo
      <3> QED BY <1>1, <1>12, <3>1
    <2>4. ObsOK(observers, Range(Pushed(Pushed(u, y), z)))
      BY <1>2, <1>7, <1>8, <2>3 DEF ObsOK
    <2> QED BY <1>1, <2>2, <2>3, <2>4 DEF IInv
  <1> QED BY <1>9, <1>11, <1>12

-----------------------------------------------------------------------------
(* A creation puts its node into the tree.                                 *)

(* The node of a creation comes into the tree and into the directory.      *)
Attaching(ns, d, x, u) ==
  /\ TreeOK(ns) /\ DirOK(ns, d) /\ Len(ns) <= Len(Numerals)
  /\ x \in FrameType /\ x.op = "create" /\ x.pc = "setChild" /\ Base(ns, HandedIn(d), x)
  /\ Chain(ns, HandedIn(d), u) /\ TopOK(ns, d, x, u)
  /\ u # <<>> => Nested(x, u[1]) /\ Related(ns, x, u[1])
  /\ \A g \in Range(u) : Apart(x, g) /\ Base(ns, HandedIn(d), g) /\ g \in FrameType
  /\ Accounted(ns, HandedIn(d), {x} \cup Range(u))

LEMMA AttachingAt ==
  ASSUME NEW ns, NEW d, NEW x, NEW u, Attaching(ns, d, x, u)
  PROVE  LET parts == SplitOSCAddress(x.address)
             n == x.node
             p == ns[n].parent
             got == Join(parts.parent, parts.name, ns[n].instance)
         IN  /\ x.address \in Sites \ {Separator} /\ x.address \in Places
             /\ n \in Pending(ns) /\ p \in HandedIn(d) /\ p \in Linked(ns)
             /\ OscAddressIn(ns, p) = parts.parent
             /\ ns[n].name = parts.name /\ ns[n].instance \in Instances
             /\ ChildKey(ns, n) \notin DOMAIN ns[p].children
             /\ got = Join(OscAddressIn(ns, p), ns[n].name, ns[n].instance)
             /\ got \in Places /\ got \in Sites \ {Separator} /\ ParentOf(got) = parts.parent
             /\ AtOrBelow(x.address, parts.parent)
             /\ ns[n].instance = parts.instance => got = x.address
  <1> DEFINE a == x.address
             parts == SplitOSCAddress(a)
             n == x.node
             p == ns[n].parent
             instance == ns[n].instance
             got == Join(parts.parent, parts.name, instance)
  <1>1. /\ a \in Sites \ {Separator} /\ a \in Places /\ n \in Pending(ns)
        /\ ns[n].name = parts.name /\ instance \in {parts.instance} \cup Numbers
        /\ TreeOK(ns) /\ DirOK(ns, d)
    BY DEF Attaching, Base, CreateBase
  <1>2. /\ parts.parent \in Sites /\ parts.name \in Singles /\ parts.instance \in Instances
        /\ a = Join(parts.parent, parts.name, parts.instance)
    BY <1>1, PathParts
  <1>3. AtOrBelow(a, parts.parent) BY <1>1, <1>2, BelowAll
  <1>4. /\ p \in HandedIn(d) /\ OscAddressIn(ns, p) = parts.parent
        /\ ChildKey(ns, n) \notin DOMAIN ns[p].children
    BY DEF Attaching, TopOK, CreateTop, ParentOf
  <1>5. p \in Linked(ns) BY <1>1, <1>4, DirIs
  <1>6. instance \in Instances BY <1>1, TreeIs
  <1>7. MergeOSCAddress(parts.parent, parts.name, instance, None) \in Places
    BY <1>1, PlacesAssumption DEF Numbers
  <1>8. MergeOSCAddress(parts.parent, parts.name, instance, None) = got
    BY <1>2, <1>6, MergeIsJoin
  <1>9. got \in Sites /\ got # Separator /\ ParentOf(got) = parts.parent
    BY <1>2, <1>6, JoinParts
  <1>10. got = Join(OscAddressIn(ns, p), ns[n].name, ns[n].instance) BY <1>1, <1>4
  <1>11. got \in Places BY <1>7, <1>8
  <1> QED BY <1>1, <1>2, <1>3, <1>4, <1>5, <1>6, <1>9, <1>10, <1>11

(* What becomes of the nodes, the directory and the innermost calls.       *)
Entering(ns, ms, d, e, x, got, y, m) ==
  /\ Grown(ns, ms, x.node, ns[x.node].parent)
  /\ got = Join(OscAddressIn(ns, ns[x.node].parent), ns[x.node].name, ns[x.node].instance)
  /\ e = With(d, got, x.node)
  /\ y \in FrameType /\ y.op = "create" /\ y.pc = "return" /\ y.address = x.address
  /\ y.node = x.node
  /\ m \in FrameType /\ m.op = "notify" /\ m.pc = "keys" /\ m.address = got /\ m.node = x.node

LEMMA EnteredNodes ==
  ASSUME NEW ns, NEW ms, NEW d, NEW e, NEW x, NEW u, NEW got, NEW y, NEW m,
         Attaching(ns, d, x, u), Entering(ns, ms, d, e, x, got, y, m)
  PROVE  /\ TreeOK(ms) /\ Linked(ms) = Linked(ns) \cup {x.node}
         /\ Pending(ms) = Pending(ns) \ {x.node} /\ Len(ms) = Len(ns)
         /\ \A i \in Linked(ns) : OscAddressIn(ms, i) = OscAddressIn(ns, i)
         /\ OscAddressIn(ms, x.node) = got /\ got \notin DOMAIN d
         /\ DirOK(ms, e) /\ HandedIn(e) = HandedIn(d) \cup {x.node}
         /\ x.node \notin Linked(ns) /\ x.node # Root
  <1> DEFINE n == x.node
             p == ns[n].parent
  <1>1. /\ n \in Pending(ns) /\ p \in Linked(ns) /\ got \in Places
        /\ ChildKey(ns, n) \notin DOMAIN ns[p].children
    BY AttachingAt DEF Entering
  <1>2. TreeOK(ns) /\ DirOK(ns, d) BY DEF Attaching
  <1>3. /\ Grown(ns, ms, n, p) /\ e = With(d, got, n)
        /\ got = Join(OscAddressIn(ns, p), ns[n].name, ns[n].instance)
    BY DEF Entering
  <1>4. p = ns[n].parent OBVIOUS
  <1> HIDE DEF n, p
  <1>5. /\ TreeOK(ms) /\ Linked(ms) = Linked(ns) \cup {n} /\ Pending(ms) = Pending(ns) \ {n}
        /\ Len(ms) = Len(ns)
        /\ \A i \in Linked(ns) : OscAddressIn(ms, i) = OscAddressIn(ns, i)
        /\ OscAddressIn(ms, n) = Join(OscAddressIn(ns, p), ns[n].name, ns[n].instance)
    BY <1>1, <1>2, <1>3, <1>4, NodeAttached
  <1>6. OscAddressIn(ms, n) = got BY <1>3, <1>5
  <1>7. n \notin Linked(ns) /\ n # Root BY <1>1, <1>2, TreeIs
  <1>8. got \notin DOMAIN d BY <1>2, <1>5, <1>6, AdrInjective, <1>7 DEF DirOK
  <1>9. /\ DOMAIN e = DOMAIN d \cup {got} /\ e[got] = n
        /\ \A b \in DOMAIN d : e[b] = d[b]
    BY <1>3, <1>8, TablePut
  <1>10. HandedIn(e) = HandedIn(d) \cup {n} BY <1>8, <1>9 DEF HandedIn
  <1>11. DirOK(ms, e) BY <1>1, <1>2, <1>5, <1>6, <1>8, <1>9 DEF DirOK
  <1> QED BY <1>5, <1>6, <1>7, <1>8, <1>10, <1>11 DEF n

LEMMA Attached ==
  ASSUME NEW ns, NEW ms, NEW d, NEW e, NEW x, NEW u, NEW got, NEW y, NEW m,
         Attaching(ns, d, x, u), Entering(ns, ms, d, e, x, got, y, m)
  PROVE  Sound(ms, e, Pushed(Pushed(u, y), m))
  <1> DEFINE n == x.node
             p == ns[n].parent
             a == x.address
             Q == SplitOSCAddress(a).parent
             H == HandedIn(d)
             I == HandedIn(e)
             v == Pushed(u, y)
  <1>1. /\ TreeOK(ns) /\ DirOK(ns, d) /\ Len(ns) <= Len(Numerals)
        /\ x \in FrameType /\ x.op = "create" /\ x.pc = "setChild" /\ Base(ns, H, x)
        /\ Chain(ns, H, u)
        /\ u # <<>> => Nested(x, u[1]) /\ Related(ns, x, u[1])
        /\ \A g \in Range(u) : Apart(x, g) /\ Base(ns, H, g) /\ g \in FrameType
        /\ Accounted(ns, H, {x} \cup Range(u))
    BY DEF Attaching
  <1>2. /\ a \in Sites \ {Separator} /\ a \in Places
        /\ n \in Pending(ns) /\ p \in H /\ p \in Linked(ns)
        /\ OscAddressIn(ns, p) = Q /\ AtOrBelow(a, Q)
        /\ got \in Sites \ {Separator} /\ ParentOf(got) = Q
        /\ ns[n].instance = SplitOSCAddress(a).instance => got = a
    BY AttachingAt DEF Entering
  <1>3. /\ TreeOK(ms) /\ Linked(ms) = Linked(ns) \cup {n} /\ Pending(ms) = Pending(ns) \ {n}
        /\ Len(ms) = Len(ns)
        /\ \A i \in Linked(ns) : OscAddressIn(ms, i) = OscAddressIn(ns, i)
        /\ OscAddressIn(ms, n) = got /\ DirOK(ms, e) /\ I = H \cup {n}
        /\ n \notin Linked(ns) /\ n # Root
    BY EnteredNodes
  <1>4. /\ y \in FrameType /\ y.op = "create" /\ y.pc = "return" /\ y.address = a
        /\ y.node = n
        /\ m \in FrameType /\ m.op = "notify" /\ m.pc = "keys" /\ m.address = got /\ m.node = n
        /\ Grown(ns, ms, n, p)
    BY DEF Entering
  <1>5. ParentOf(a) = Q BY DEF ParentOf
  <1>6. x.node = n /\ x.address = a OBVIOUS
  <1> HIDE DEF n, p, a, Q, H, I
  <1>7. /\ DOMAIN ms = DOMAIN ns
        /\ \A i \in DOMAIN ns :
             /\ ms[i].name = ns[i].name /\ ms[i].instance = ns[i].instance
             /\ ms[i].parent = ns[i].parent /\ ms[i].live = ns[i].live
             /\ ms[i].destroyed = ns[i].destroyed
             /\ i # p => ms[i].children = ns[i].children
    BY <1>4 DEF Grown
  <1>8. /\ Linked(ns) \subseteq DOMAIN ns /\ Pending(ns) \subseteq DOMAIN ns /\ H \subseteq Linked(ns)
        /\ 0 \notin DOMAIN ns /\ DOMAIN ns[n].children = {} /\ Linked(ns) \cap Pending(ns) = {}
    BY <1>1, <1>2, TreeIs, DirIs DEF H
  <1>9. ASSUME NEW g \in Range(u), g.node \in Linked(ns) \cup Pending(ns)
        PROVE  g.node # n /\ g.node \in DOMAIN ns
    BY <1>1, <1>3, <1>8, <1>6, <1>9 DEF Base, CreateBase, RemoveBase, DestroyBase, NotifyBase,
       FrameType, Apart
  <1>10. Chain(ms, I, u)
    <2>1. ASSUME NEW g \in Range(u), g.node \in Linked(ns) \cup Pending(ns)
          PROVE  Undisturbed(ns, H, ms, I, g.node)
      BY <1>9, <2>1, <1>3, <1>7 DEF Undisturbed
    <2>2. ASSUME NEW g \in Range(u) PROVE NoMoreChildren(ns, ms, g)
      <3>1. Base(ns, H, g) /\ Apart(x, g) /\ g \in FrameType BY <1>1
      <3>2. CASE g.op = "destroy"
        BY <1>2, <1>8, <3>1, <3>2, <1>7 DEF Base, DestroyBase, NoMoreChildren
      <3>3. CASE g.op = "create" /\ g.pc = "return" /\ OscAddressIn(ns, g.node) = g.address
        BY <1>1, <3>1, <3>3, AddressIsSite, <1>8, <1>6, <1>2, <1>7 DEF Base, CreateBase,
           Apart, NoMoreChildren
      <3> QED BY <3>2, <3>3 DEF NoMoreChildren
    <2> QED BY <1>1, <2>1, <2>2, ChainStable
  <1>11. Base(ms, I, y) BY <1>2, <1>3, <1>4, <1>5 DEF Base, CreateBase
  <1>12. ASSUME u # <<>> PROVE Nested(y, u[1]) /\ Related(ms, y, u[1])
    <2>1. Nested(x, u[1]) /\ Related(ns, x, u[1]) /\ u[1] \in Range(u)
      BY <1>1, <1>12, Pop DEF Chain
    <2>2. Nested(y, u[1]) BY <1>1, <1>4, <1>6, <2>1 DEF Nested
    <2>3. u[1].op # "destroy" BY <1>4, <2>2 DEF Nested
    <2>4. ASSUME u[1].op = "create"
          PROVE  /\ ms[u[1].node].parent = 0
                 /\ ms[u[1].node].instance = SplitOSCAddress(u[1].address).instance
                 /\ OscAddressIn(ms, y.node) = y.address
                 /\ ChildKey(ms, u[1].node) \notin DOMAIN ms[y.node].children
      <3>1. /\ ns[u[1].node].parent = 0
            /\ ns[u[1].node].instance = SplitOSCAddress(u[1].address).instance
            /\ ns[n].instance = SplitOSCAddress(a).instance
        BY <1>1, <1>6, <2>1, <2>4 DEF Related
      <3>2. u[1].pc = "setChild" /\ Base(ns, H, u[1])
        BY <1>1, <1>4, <2>1, <2>2, <2>4 DEF Nested
      <3>3. u[1].node \in DOMAIN ns BY <1>8, <2>4, <3>2 DEF Base, CreateBase
      <3>4. OscAddressIn(ms, y.node) = y.address BY <1>2, <1>3, <1>4, <3>1
      <3>5. n # p /\ n \in DOMAIN ns BY <1>2, <1>3, <1>8
      <3>6. DOMAIN ms[y.node].children = {} BY <1>4, <1>7, <1>8, <3>5
      <3> QED BY <1>7, <3>1, <3>3, <3>4, <3>6
    <2>5. Related(ms, y, u[1]) BY <1>4, <2>3, <2>4 DEF Related
    <2> QED BY <2>2, <2>5
  <1>13. Chain(ms, I, v) BY <1>4, <1>10, <1>11, <1>12, ChainPush DEF Apart
  <1>14. /\ v \in Seq(FrameType) /\ v # <<>> /\ v[1] = y /\ Range(v) = {y} \cup Range(u)
    BY <1>1, <1>4, Push DEF Chain
  <1> HIDE DEF v
  <1>15. Base(ms, I, m) BY <1>3, <1>4 DEF Base, NotifyBase
  <1>16. v # <<>> => Nested(m, v[1]) /\ Related(ms, m, v[1])
    BY <1>4, <1>14 DEF Nested, Related
  <1>17. \A g \in Range(v) : Apart(m, g) BY <1>4 DEF Apart
  <1>18. TopOK(ms, e, m, v) /\ (v = <<>> => m.op \in {"create", "remove"})
    BY <1>4, <1>14 DEF TopOK
  <1>19. Accounted(ms, I, {m} \cup Range(v))
    <2>1. ASSUME NEW i \in Linked(ms) \ I
          PROVE  \E f \in {m} \cup Range(v) : f.op = "destroy" /\ f.node = i
      BY <1>1, <1>3, <1>14 DEF Accounted
    <2>2. ASSUME NEW i \in Pending(ms)
          PROVE  \E f \in {m} \cup Range(v) : f.op = "create" /\ f.pc = "setChild" /\ f.node = i
      BY <1>1, <1>3, <1>6, <1>14 DEF Accounted
    <2>3. ASSUME NEW i \in DOMAIN ms
          PROVE  ms[i].destroyed = IF ms[i].live
                                      /\ \A f \in {m} \cup Range(v) : f.op = "remove" => f.node # i
                                   THEN 0 ELSE 1
      BY <1>1, <1>7, <2>3, <1>4, <1>14 DEF Accounted
    <2> QED BY <2>1, <2>2, <2>3 DEF Accounted
  <1>20. Len(ms) <= Len(Numerals) BY <1>1, <1>3
  <1>21. Sound(ms, e, Pushed(v, m))
    BY <1>3, <1>4, <1>13, <1>15, <1>16, <1>17, <1>18, <1>19, <1>20, SoundPush DEF I
  <1> QED BY <1>21 DEF v

(* The node of a creation comes into the tree and into the directory.      *)
LEMMA AttachingTop ==
  ASSUME IInv, At("create", "setChild")
  PROVE  /\ Attaching(nodes, directory, Top, Tail(stack)) /\ Top \in FrameType
         /\ Top.op = "create" /\ Tail(stack) \in Seq(FrameType)
         /\ ObsOK(observers, {Top} \cup Range(Tail(stack)))
  <1> DEFINE x == Top
             u == Tail(stack)
  <1>1. /\ x \in FrameType /\ x.op = "create" /\ x.pc = "setChild" /\ stack # <<>>
        /\ x = Head(stack) /\ Sound(nodes, directory, stack) /\ stack \in Seq(FrameType)
        /\ ObsOK(observers, {x} \cup Range(u)) /\ Base(nodes, HandedIn(directory), x)
        /\ TopOK(nodes, directory, x, u)
    BY Opened
  <1>2. /\ TreeOK(nodes) /\ DirOK(nodes, directory) /\ Len(nodes) <= Len(Numerals)
        /\ Chain(nodes, HandedIn(directory), u) /\ u \in Seq(FrameType)
        /\ u # <<>> => Nested(x, u[1]) /\ Related(nodes, x, u[1])
        /\ \A g \in Range(u) : Apart(x, g) /\ Base(nodes, HandedIn(directory), g) /\ g \in FrameType
        /\ Accounted(nodes, HandedIn(directory), {x} \cup Range(u))
    BY <1>1, SoundPop
  <1>3. Attaching(nodes, directory, x, u) BY <1>1, <1>2 DEF Attaching
  <1> QED BY <1>1, <1>2, <1>3

LEMMA AttachKeeps ==
  ASSUME IInv, Attach
  PROVE  IInv'
  <1> DEFINE x == Top
             u == Tail(stack)
             n == x.node
             p == nodes[n].parent
             linked == SetChild(nodes, n)
             got == OscAddressIn(linked, n)
             ms == [linked EXCEPT ![n].created = @ + 1]
             e == With(directory, got, n)
             y == [x EXCEPT !.pc = "return"]
             m == NotifyFrame(got, n)
  <1>1. /\ nodes' = ms /\ directory' = e /\ observers' = observers /\ stack' = <<m, y>> \o u
        /\ At("create", "setChild")
    BY DEF Attach, Replace
  <1>2. /\ Attaching(nodes, directory, x, u) /\ x \in FrameType /\ x.op = "create"
        /\ u \in Seq(FrameType) /\ ObsOK(observers, {x} \cup Range(u))
    BY <1>1, AttachingTop
  <1> HIDE DEF x, u
  <1>3. /\ n \in Pending(nodes) /\ p \in Linked(nodes)
        /\ ChildKey(nodes, n) \notin DOMAIN nodes[p].children
        /\ Join(OscAddressIn(nodes, p), nodes[n].name, nodes[n].instance) \in Places
    BY <1>2, AttachingAt
  <1>4. TreeOK(nodes) /\ DOMAIN observers \subseteq Keys
    BY <1>2 DEF Attaching, ObsOK
  <1>5. n \in Nat BY <1>3, <1>4, TreeIs
  <1>6. /\ Grown(nodes, ms, n, p)
        /\ got = Join(OscAddressIn(nodes, p), nodes[n].name, nodes[n].instance)
    BY <1>3, <1>4, AttachedNodes
  <1>7. got \in Address BY <1>3, <1>6, NodeDirectoryAssumption
  <1>8. y \in FrameType /\ y.op = "create" /\ y.pc = "return" /\ y.address = x.address /\ y.node = n
    BY <1>2 DEF FrameType
  <1>9. /\ m \in FrameType /\ m.op = "notify" /\ m.pc = "keys" /\ m.address = got
        /\ m.node = n /\ m.todo \subseteq DOMAIN observers
    BY <1>4, <1>5, <1>7, NotifyFrameIs
  <1> HIDE DEF y, m, ms, got
  <1>10. Entering(nodes, ms, directory, e, x, got, y, m)
    BY <1>6, <1>8, <1>9 DEF Entering
  <1> HIDE DEF n, p, e
  <1>11. Sound(ms, e, Pushed(Pushed(u, y), m)) BY <1>2, <1>10, Attached
  <1>12. /\ <<m, y>> \o u = Pushed(Pushed(u, y), m)
         /\ Range(Pushed(Pushed(u, y), m)) = {m, y} \cup Range(u)
    BY <1>2, <1>8, <1>9, PushTwo
  <1>13. ObsOK(observers, {m, y} \cup Range(u)) BY <1>2, <1>8, <1>9 DEF ObsOK
  <1> QED BY <1>1, <1>11, <1>12, <1>13 DEF IInv

-----------------------------------------------------------------------------
(* setName and setInstance.                                                *)

(* A leaf gets another name and instance.                                  *)
Renaming(ns, d, s, n) ==
  /\ Sound(ns, d, s) /\ n \in HandedIn(d) /\ n # Root /\ DOMAIN ns[n].children = {}
  /\ s # <<>> => s[1].op = "notify" /\ Head(s) = s[1]
  /\ \A g \in Range(s) : g.address # None => ~ AtOrBelow(OscAddressIn(ns, n), g.address)

Rekeying(ns, ms, d, e, n, name, instance) ==
  /\ name \in Singles /\ instance \in Instances
  /\ <<name, instance>> \notin DOMAIN ns[ns[n].parent].children \ {ChildKey(ns, n)}
  /\ Moved(ns, ms, n, ns[n].parent, name, instance)
  /\ Join(OscAddressIn(ns, ns[n].parent), name, instance) \in Places
  /\ e = With(Without(d, OscAddressIn(ns, n)),
              Join(OscAddressIn(ns, ns[n].parent), name, instance), n)

LEMMA RenamingAt ==
  ASSUME NEW ns, NEW d, NEW s, NEW n, Renaming(ns, d, s, n)
  PROVE  /\ TreeOK(ns) /\ DirOK(ns, d) /\ Len(ns) <= Len(Numerals) /\ s \in Seq(FrameType)
         /\ Chain(ns, HandedIn(d), s) /\ Accounted(ns, HandedIn(d), Range(s))
         /\ n \in Linked(ns) \ {Root} /\ OscAddressIn(ns, n) \in Sites
         /\ OscAddressIn(ns, n) # Separator
         /\ OscAddressIn(ns, n) \in DOMAIN d /\ d[OscAddressIn(ns, n)] = n
         /\ ns[n].parent \in Linked(ns) /\ ns[n].parent \in DOMAIN ns /\ n \in DOMAIN ns
         /\ ns[n].name \in Singles /\ ns[n].instance \in Instances
         /\ AtOrBelow(OscAddressIn(ns, n), OscAddressIn(ns, n))
         /\ AtOrBelow(OscAddressIn(ns, n), OscAddressIn(ns, ns[n].parent))
  <1> DEFINE p == ns[n].parent
             a == OscAddressIn(ns, n)
  <1>1. /\ TreeOK(ns) /\ DirOK(ns, d) /\ Len(ns) <= Len(Numerals) /\ n # Root
        /\ Chain(ns, HandedIn(d), s) /\ Accounted(ns, HandedIn(d), Range(s))
        /\ n \in HandedIn(d) /\ s \in Seq(FrameType)
    BY DEF Renaming, Sound, Chain
  <1>2. /\ n \in Linked(ns) \ {Root} /\ a \in DOMAIN d /\ d[a] = n BY <1>1, DirIs
  <1>3. /\ a \in Sites /\ a # Separator /\ p \in Linked(ns) /\ OscAddressIn(ns, p) \in Sites
        /\ ns[n].name \in Singles /\ ns[n].instance \in Instances
        /\ a = Join(OscAddressIn(ns, p), ns[n].name, ns[n].instance)
    BY <1>1, <1>2, AdrIs
  <1>4. AtOrBelow(a, a) /\ AtOrBelow(a, OscAddressIn(ns, p)) BY <1>3, BelowAll
  <1>5. p \in DOMAIN ns /\ n \in DOMAIN ns BY <1>1, <1>2, <1>3, TreeIs
  <1> QED BY <1>1, <1>2, <1>3, <1>4, <1>5

RekeyedIn(ns, ms, d, e, n) ==
  /\ TreeOK(ms) /\ Linked(ms) = Linked(ns) /\ Pending(ms) = Pending(ns)
  /\ Len(ms) = Len(ns)
  /\ \A i \in Linked(ns) \ {n} : OscAddressIn(ms, i) = OscAddressIn(ns, i)
  /\ DirOK(ms, e) /\ HandedIn(e) = HandedIn(d)
  /\ DOMAIN e = (DOMAIN d \ {OscAddressIn(ns, n)}) \cup {OscAddressIn(ms, n)}

LEMMA RekeyedNodes ==
  ASSUME NEW ns, NEW ms, NEW d, NEW e, NEW s, NEW n, NEW name, NEW instance,
         Renaming(ns, d, s, n), Rekeying(ns, ms, d, e, n, name, instance)
  PROVE  RekeyedIn(ns, ms, d, e, n)
  <1> DEFINE p == ns[n].parent
             old == OscAddressIn(ns, n)
             new == Join(OscAddressIn(ns, p), name, instance)
             c == Without(d, old)
  <1>1. /\ TreeOK(ns) /\ DirOK(ns, d)
        /\ n \in Linked(ns) \ {Root} /\ old # Separator /\ old \in DOMAIN d /\ d[old] = n
    BY RenamingAt
  <1>2. DOMAIN ns[n].children = {} BY DEF Renaming
  <1>3. /\ name \in Singles /\ instance \in Instances
        /\ <<name, instance>> \notin DOMAIN ns[p].children \ {ChildKey(ns, n)}
        /\ Moved(ns, ms, n, p, name, instance) /\ new \in Places /\ e = With(c, new, n)
    BY DEF Rekeying
  <1>4. ns[n].parent = p OBVIOUS
  <1>5. /\ TreeOK(ms) /\ Linked(ms) = Linked(ns) /\ Pending(ms) = Pending(ns)
        /\ Len(ms) = Len(ns)
        /\ \A i \in Linked(ns) \ {n} : OscAddressIn(ms, i) = OscAddressIn(ns, i)
        /\ OscAddressIn(ms, n) = new
    <2> HIDE DEF p
    <2> QED BY <1>1, <1>2, <1>3, <1>4, NodeMoved
  <1>6. DOMAIN c = DOMAIN d \ {old} /\ \A b \in DOMAIN d : b # old => c[b] = d[b]
    BY TableCut
  <1> HIDE DEF p, old, new, c
  <1>7. \A b \in DOMAIN d : b # old => d[b] \in Linked(ns) \ {n} /\ OscAddressIn(ns, d[b]) = b
    BY <1>1 DEF DirOK, old
  <1>8. new \notin DOMAIN c
    <2>1. ASSUME new \in DOMAIN c PROVE FALSE
      BY <1>6, <2>1, <1>7, <1>1, <1>5, AdrInjective
    <2> QED BY <2>1
  <1>9. /\ DOMAIN e = (DOMAIN d \ {old}) \cup {new} /\ e[new] = n
        /\ \A b \in DOMAIN d \ {old} : e[b] = d[b]
    <2>1. /\ DOMAIN With(c, new, n) = DOMAIN c \cup {new} /\ With(c, new, n)[new] = n
          /\ \A b \in DOMAIN c : With(c, new, n)[b] = c[b]
      BY <1>8, TablePut, Zenon
    <2> QED BY <1>3, <1>6, <2>1
  <1>10. new \notin DOMAIN d \ {old} BY <1>6, <1>8
  <1>11. HandedIn(e) = HandedIn(d) BY <1>1, <1>9, <1>10 DEF HandedIn
  <1>12. DirOK(ms, e)
    <2>1. DOMAIN d \subseteq Places /\ Separator \in DOMAIN d /\ d[Separator] = Root
      BY <1>1 DEF DirOK
    <2>2. DOMAIN e \subseteq Places /\ Separator \in DOMAIN e /\ e[Separator] = Root
      BY <1>1, <1>3, <1>9, <2>1
    <2>3. ASSUME NEW b \in DOMAIN e
          PROVE  e[b] \in Linked(ms) /\ OscAddressIn(ms, e[b]) = b
      BY <1>1, <1>5, <1>9, <2>3, <1>7
    <2> QED BY <2>2, <2>3 DEF DirOK
  <1> QED BY <1>5, <1>9, <1>11, <1>12 DEF old, RekeyedIn

LEMMA Renamed ==
  ASSUME NEW ns, NEW ms, NEW d, NEW e, NEW s, NEW n, NEW name, NEW instance,
         Renaming(ns, d, s, n), Rekeying(ns, ms, d, e, n, name, instance)
  PROVE  Sound(ms, e, s)
  <1> DEFINE p == ns[n].parent
             a == OscAddressIn(ns, n)
             H == HandedIn(d)
  <1>1. /\ TreeOK(ns) /\ DirOK(ns, d) /\ Len(ns) <= Len(Numerals) /\ s \in Seq(FrameType)
        /\ Chain(ns, H, s) /\ Accounted(ns, H, Range(s))
        /\ n \in Linked(ns) \ {Root} /\ a \in Sites /\ n \in DOMAIN ns
        /\ p \in Linked(ns) /\ AtOrBelow(a, a) /\ AtOrBelow(a, OscAddressIn(ns, p))
    BY RenamingAt
  <1>2. /\ TreeOK(ms) /\ Linked(ms) = Linked(ns) /\ Pending(ms) = Pending(ns)
        /\ Len(ms) = Len(ns)
        /\ \A i \in Linked(ns) \ {n} : OscAddressIn(ms, i) = OscAddressIn(ns, i)
        /\ DirOK(ms, e) /\ HandedIn(e) = H
    <2>1. RekeyedIn(ns, ms, d, e, n) BY RekeyedNodes
    <2> QED BY <2>1 DEF RekeyedIn
  <1>3. /\ n \in H
        /\ s # <<>> => s[1].op = "notify" /\ Head(s) = s[1]
        /\ \A g \in Range(s) : g.address # None => ~ AtOrBelow(a, g.address)
    BY DEF Renaming
  <1>4. Moved(ns, ms, n, p, name, instance) BY DEF Rekeying
  <1> HIDE DEF p, H
  <1>5. /\ DOMAIN ms = DOMAIN ns
        /\ \A i \in DOMAIN ns :
             /\ ms[i].parent = ns[i].parent /\ ms[i].live = ns[i].live
             /\ ms[i].destroyed = ns[i].destroyed
             /\ i # p => ms[i].children = ns[i].children
             /\ i # n => ms[i].name = ns[i].name /\ ms[i].instance = ns[i].instance
    BY <1>4 DEF Moved
  <1>6. /\ Linked(ns) \subseteq DOMAIN ns /\ Pending(ns) \subseteq DOMAIN ns
        /\ H \subseteq Linked(ns)
    BY <1>1, TreeIs, DirIs DEF H
  <1>7. \A g \in Range(s) : g.node # n
    BY <1>1, Neighbours, AddressIsSite, <1>3, NodesElsewhere
  <1>8. Chain(ms, H, s)
    <2>1. ASSUME NEW g \in Range(s), g.node \in Linked(ns) \cup Pending(ns)
          PROVE  Undisturbed(ns, H, ms, H, g.node)
      BY <1>6, <1>7, <2>1, <1>2, <1>5 DEF Undisturbed
    <2>2. ASSUME NEW g \in Range(s) PROVE NoMoreChildren(ns, ms, g)
      <3>1. Base(ns, H, g) /\ g \in FrameType BY <1>1, Neighbours
      <3>2. CASE g.op = "destroy"
        <4>1. PICK h \in Range(s) : h.op = "remove" /\ h.pc = "destroying" /\ h.node = g.node
          BY <1>1, <3>2, DestroyBelow
        <4>2. Base(ns, H, h) /\ h \in FrameType BY <1>1, Neighbours
        <4>3. h.address # None /\ h.address = OscAddressIn(ns, g.node)
          BY <1>1, <4>1, <4>2, AddressIsSite
        <4>4. g.node # p BY <1>1, <1>3, <4>3
        <4>5. g.node \in DOMAIN ns BY <1>6, <3>1, <3>2 DEF Base, DestroyBase
        <4> QED BY <1>5, <4>4, <4>5 DEF NoMoreChildren
      <3>3. CASE g.op = "create" /\ g.pc = "return" /\ OscAddressIn(ns, g.node) = g.address
        <4>1. g.address # None BY <1>1, <3>1, <3>3, AddressIsSite
        <4>2. g.node \in DOMAIN ns BY <1>6, <3>1, <3>3 DEF Base, CreateBase
        <4>3. g.node # p BY <1>1, <1>3, <3>3, <4>1
        <4> QED BY <1>5, <4>2, <4>3 DEF NoMoreChildren
      <3> QED BY <3>2, <3>3 DEF NoMoreChildren
    <2> QED BY <1>1, <2>1, <2>2, ChainStable
  <1>9. s # <<>> => TopOK(ms, e, Head(s), Tail(s)) BY <1>3 DEF TopOK
  <1>10. Accounted(ms, H, Range(s)) BY <1>1, <1>2, <1>5 DEF Accounted
  <1>11. Len(ms) <= Len(Numerals) BY <1>1, <1>2
  <1> QED BY <1>2, <1>8, <1>9, <1>10, <1>11 DEF Sound

(* setName and setInstance.                                                *)
LEMMA RenamingTop ==
  ASSUME IInv, CallerRules \subseteq Rules, NEW n \in Handed, n # Root,
         MayCall("ChangeElsewhere", OscAddress(n)),
         "RenameLeaves" \in Rules => nodes[n].children = EmptyTable
  PROVE  Renaming(nodes, directory, stack, n)
  <1> DEFINE a == OscAddressIn(nodes, n)
  <1>1. /\ Sound(nodes, directory, stack) /\ TreeOK(nodes) /\ DirOK(nodes, directory)
    BY DEF IInv, Sound
  <1>2. "ChangeElsewhere" \in Rules /\ "RenameLeaves" \in Rules BY DEF CallerRules
  <1>3. n \in HandedIn(directory) /\ n \in Linked(nodes)
    BY <1>1, DirIs DEF Handed, HandedIn
  <1>4. a \in Address BY <1>1, <1>3, AdrIs, SiteAddress
  <1>5. MayCall("ChangeElsewhere", a) BY DEF OscAddress
  <1> HIDE DEF a
  <1>6. /\ stack # <<>> => stack[1].op = "notify" /\ Head(stack) = stack[1]
        /\ \A g \in Range(stack) : g.address # None => ~ AtOrBelow(a, g.address)
    BY <1>2, <1>4, <1>5, MayCallIs
  <1>7. DOMAIN nodes[n].children = {} BY <1>2, EmptyTableIs
  <1> QED BY <1>1, <1>3, <1>6, <1>7 DEF Renaming, a

LEMMA RenameKeeps ==
  ASSUME IInv, CallerRules \subseteq Rules, NEW n \in Handed,
         NEW name \in NewNames \cup {nodes[n].name},
         NEW instance \in NewInstances \cup {nodes[n].instance}, Rename(n, name, instance)
  PROVE  IInv'
  <1> DEFINE p == nodes[n].parent
             a == OscAddress(n)
             got == InstanceFor(nodes, n, p, name, instance)
             named == RenamedAs(nodes, n, p, name, instance)
             ms == SetChild(named, n)
             new == OscAddressIn(named, n)
             e == Rekeyed(a, new)
  <1>1. /\ nodes' = ms /\ directory' = e /\ observers' = observers /\ stack' = stack
        /\ MayCall("ChangeElsewhere", a) /\ n # Root
        /\ "RenameLeaves" \in Rules => nodes[n].children = EmptyTable
    BY Zenon DEF Rename, RenamedAs, InstanceFor, TakenOut
  <1>2. Renaming(nodes, directory, stack, n) BY <1>1, RenamingTop
  <1>3. /\ TreeOK(nodes) /\ DirOK(nodes, directory) /\ Len(nodes) <= Len(Numerals)
        /\ n \in Linked(nodes) \ {Root} /\ a \in Sites /\ a # Separator
        /\ a \in DOMAIN directory /\ directory[a] = n
        /\ p \in Linked(nodes) /\ p \in DOMAIN nodes /\ n \in DOMAIN nodes
        /\ nodes[n].name \in Singles /\ nodes[n].instance \in Instances
    BY <1>2, RenamingAt DEF OscAddress
  <1>4. DOMAIN nodes[n].children = {} BY <1>2 DEF Renaming
  <1>5. name \in Singles /\ instance \in Instances
    BY <1>3, NodeDirectoryAssumption DEF Singles, Instances
  <1>6. /\ got \in Instances
        /\ got \in {instance} \cup Numbers
        /\ <<name, got>> \notin DOMAIN nodes[p].children \ {ChildKey(nodes, n)}
        /\ new = Join(OscAddressIn(nodes, p), name, got)
        /\ Moved(nodes, ms, n, p, name, got)
    <2>1. nodes[n].parent = p OBVIOUS
    <2> HIDE DEF p
    <2>2. /\ TreeOK(nodes) /\ Len(nodes) <= Len(Numerals) /\ n \in Linked(nodes) \ {Root}
          /\ DOMAIN nodes[n].children = {} /\ p \in DOMAIN nodes
      BY <1>3, <1>4
    <2> HIDE DEF got, named
    <2>3. RenamedIn(nodes, named, n, p, name, instance, got)
      BY <1>5, <2>1, <2>2, RenamedNodes DEF got, named
    <2> QED BY <2>3 DEF RenamedIn, Numbers
  <1> HIDE DEF got, named, ms, new
  <1>7. Join(OscAddressIn(nodes, p), name, got) \in Places
    <2>1. /\ SplitOSCAddress(a).parent = OscAddressIn(nodes, p) /\ OscAddressIn(nodes, p) \in Sites
          /\ SplitOSCAddress(a).name = nodes[n].name
          /\ SplitOSCAddress(a).instance = nodes[n].instance
      BY <1>3, AdrIs DEF OscAddress, ParentOf
    <2>2. a \in Places \ {Separator} BY <1>3 DEF DirOK
    <2>3. /\ name \in NewNames \cup {SplitOSCAddress(a).name}
          /\ got \in NewInstances \cup {SplitOSCAddress(a).instance}
                       \cup {<<Numerals[i]>> : i \in DOMAIN Numerals}
      BY <1>6, <2>1 DEF Numbers
    <2> HIDE DEF a, p
    <2>4. MergeOSCAddress(SplitOSCAddress(a).parent, name, got, None) \in Places
      BY <2>2, <2>3, PlacesAssumption
    <2>5. MergeOSCAddress(OscAddressIn(nodes, p), name, got, None)
            = Join(OscAddressIn(nodes, p), name, got)
      BY <1>5, <1>6, <2>1, MergeIsJoin
    <2> QED BY <2>1, <2>4, <2>5
  <1>8. e = With(Without(directory, OscAddressIn(nodes, n)),
                 Join(OscAddressIn(nodes, p), name, got), n)
    BY <1>3, <1>6 DEF Rekeyed, OscAddress
  <1> HIDE DEF e
  <1>9. Rekeying(nodes, ms, directory, e, n, name, got)
    BY <1>5, <1>6, <1>7, <1>8 DEF Rekeying
  <1>10. Sound(ms, e, stack) BY <1>2, <1>9, Renamed
  <1> QED BY <1>1, <1>10 DEF IInv

LEMMA SetNameKeeps ==
  ASSUME IInv, CallerRules \subseteq Rules, NEW n \in Handed, NEW name \in NewNames,
         SetName(n, name)
  PROVE  IInv'
  BY RenameKeeps DEF SetName

LEMMA SetInstanceKeeps ==
  ASSUME IInv, CallerRules \subseteq Rules, NEW n \in Handed, NEW instance \in NewInstances,
         SetInstance(n, instance)
  PROVE  IInv'
  BY RenameKeeps DEF SetInstance

(* Observers come and go.                                                  *)
LEMMA ListingIs ==
  ASSUME NEW list \in Seq(Observers) \ {<<>>}
  PROVE  /\ Listing(list) \in Listings /\ Listing(list).list = list
         /\ Listing(list).iter \in 1..Len(list) + 1
  BY DEF Listing, Listings

LEMMA ObserversSet ==
  ASSUME IInv, stack = <<>>, NEW obs, DOMAIN obs \subseteq Keys,
         \A k \in DOMAIN obs :
           obs[k] \in Listings /\ obs[k].iter \in 1..Len(obs[k].list) + 1,
         obs = [k \in DOMAIN obs |-> obs[k]],
         nodes' = nodes, directory' = directory, stack' = stack, observers' = obs
  PROVE  IInv'
  <1>1. Sound(nodes, directory, stack) /\ Range(stack) = {} BY DEF IInv, Range
  <1>2. obs \in [DOMAIN obs -> Listings] OBVIOUS
  <1>3. ObsOK(obs, {}) BY <1>2 DEF ObsOK
  <1> QED BY <1>1, <1>3 DEF IInv

LEMMA AddObserverKeeps ==
  ASSUME IInv, NEW k \in Keys, NEW o \in Observers, AddObserver(k, o)
  PROVE  IInv'
  <1> DEFINE old == IF k \in DOMAIN observers THEN observers[k].list ELSE <<>>
             r == Listing(Append(old, o))
             obs == With(Without(observers, k), k, r)
  <1>1. /\ stack = <<>> /\ nodes' = nodes /\ directory' = directory /\ stack' = stack
        /\ observers' = obs
    BY DEF AddObserver
  <1>2. /\ DOMAIN observers \subseteq Keys /\ observers \in [DOMAIN observers -> Listings]
        /\ \A l \in DOMAIN observers : observers[l].iter \in 1..Len(observers[l].list) + 1
    BY DEF IInv, ObsOK
  <1>3. old \in Seq(Observers) BY <1>2 DEF Listings
  <1>4. r \in Listings /\ r.iter \in 1..Len(r.list) + 1
    <2> HIDE DEF old
    <2>1. Append(old, o) \in Seq(Observers) \ {<<>>} BY <1>3, AppendProperties
    <2> QED BY <2>1, ListingIs
  <1> HIDE DEF r
  <1>5. /\ DOMAIN Without(observers, k) = DOMAIN observers \ {k}
        /\ \A l \in DOMAIN observers : l # k => Without(observers, k)[l] = observers[l]
    BY TableCut
  <1>6. /\ DOMAIN obs = (DOMAIN observers \ {k}) \cup {k} /\ obs[k] = r
        /\ \A l \in DOMAIN observers \ {k} : obs[l] = observers[l]
    <2>1. /\ DOMAIN obs = DOMAIN Without(observers, k) \cup {k}
          /\ \A l \in DOMAIN Without(observers, k) : obs[l] = Without(observers, k)[l]
          /\ obs[k] = r
      BY <1>5, TablePut, Zenon
    <2> QED BY <1>5, <2>1
  <1>7. obs = [l \in DOMAIN obs |-> obs[l]] BY DEF With
  <1> HIDE DEF obs
  <1>8. /\ DOMAIN obs \subseteq Keys
        /\ \A l \in DOMAIN obs : obs[l] \in Listings /\ obs[l].iter \in 1..Len(obs[l].list) + 1
    BY <1>2, <1>4, <1>6
  <1> QED BY <1>1, <1>7, <1>8, ObserversSet

LEMMA RemoveObserverKeeps ==
  ASSUME IInv, NEW k \in Keys, NEW o \in Observers, RemoveObserver(k, o)
  PROVE  IInv'
  <1> DEFINE list == observers[k].list
             less == Without(observers, k)
             r == Listing(RemoveFirst(list, o))
             obs == [observers EXCEPT ![k] = r]
  <1>1. /\ stack = <<>> /\ nodes' = nodes /\ directory' = directory /\ stack' = stack
        /\ k \in DOMAIN observers /\ o \in Range(list)
        /\ observers' = IF Len(list) = 1 THEN less ELSE obs
    BY DEF RemoveObserver
  <1>2. /\ DOMAIN observers \subseteq Keys /\ observers \in [DOMAIN observers -> Listings]
        /\ \A l \in DOMAIN observers : observers[l].iter \in 1..Len(observers[l].list) + 1
    BY DEF IInv, ObsOK
  <1>3. CASE Len(list) = 1
    <2>1. /\ DOMAIN less = DOMAIN observers \ {k}
          /\ \A l \in DOMAIN observers : l # k => less[l] = observers[l]
      BY TableCut
    <2>2. less = [l \in DOMAIN less |-> less[l]] BY DEF Without, Pick
    <2> HIDE DEF less
    <2>3. /\ DOMAIN less \subseteq Keys
          /\ \A l \in DOMAIN less : less[l] \in Listings /\ less[l].iter \in 1..Len(less[l].list) + 1
      BY <1>2, <2>1
    <2> QED BY <1>1, <1>3, <2>2, <2>3, ObserversSet
  <1>4. CASE Len(list) # 1
    <2>1. list \in Seq(Observers) BY <1>1, <1>2 DEF Listings
    <2>2. RemoveFirst(list, o) \in Seq(Observers) \ {<<>>}
      BY <1>1, <1>4, <2>1, ListRemoved
    <2>3. r \in Listings /\ r.iter \in 1..Len(r.list) + 1 BY <2>2, ListingIs
    <2> HIDE DEF r
    <2>4. obs = [l \in DOMAIN obs |-> obs[l]] /\ DOMAIN obs = DOMAIN observers
      BY <1>2
    <2>5. \A l \in DOMAIN observers : obs[l] = IF l = k THEN r ELSE observers[l]
      BY <1>2
    <2> HIDE DEF obs
    <2>6. /\ DOMAIN obs \subseteq Keys
          /\ \A l \in DOMAIN obs : obs[l] \in Listings /\ obs[l].iter \in 1..Len(obs[l].list) + 1
      BY <1>2, <2>3, <2>4, <2>5
    <2> QED BY <1>1, <1>4, <2>4, <2>6, ObserversSet
  <1> QED BY <1>3, <1>4

-----------------------------------------------------------------------------
(* The invariant holds always.                                             *)

LEMMA FirstNode ==
  ASSUME Init
  PROVE  /\ TreeOK(nodes) /\ Linked(nodes) = {Root} /\ Pending(nodes) = {}
         /\ DOMAIN nodes = {Root} /\ Len(nodes) = 1 /\ nodes[Root].live
         /\ nodes[Root].destroyed = 0 /\ DOMAIN nodes[Root].children = {}
         /\ OscAddressIn(nodes, Root) = Separator
  <1> DEFINE r == [Node(Separator, None, 0) EXCEPT !.created = 1]
  <1>1. /\ r \in NodeType /\ r.name = Separator /\ r.instance = None /\ r.parent = 0
        /\ r.children = EmptyTable /\ r.live /\ r.created = 1 /\ r.destroyed = 0
    <2>1. None \in Instances BY DEF Instances
    <2>2. Node(Separator, None, 0) \in NodeType
      BY <2>1, EmptyTableIs DEF Node, NodeType
    <2> DEFINE q == Node(Separator, None, 0)
    <2>3. /\ q.name = Separator /\ q.instance = None /\ q.parent = 0 /\ q.children = EmptyTable
          /\ q.live /\ q.destroyed = 0
      BY DEF Node
    <2> HIDE DEF q
    <2>4. q \in NodeType /\ 1 \in Nat BY <2>2 DEF q
    <2>5. \A i \in Nat : LET s == [q EXCEPT !.created = i]
                        IN  /\ s \in NodeType /\ s.created = i
                            /\ s.name = q.name /\ s.instance = q.instance /\ s.parent = q.parent
                            /\ s.children = q.children /\ s.live = q.live
                            /\ s.destroyed = q.destroyed
      BY <2>4, NodeFields
    <2>6. r = [q EXCEPT !.created = 1] BY DEF q
    <2> HIDE DEF r
    <2> QED BY <2>3, <2>4, <2>5, <2>6
  <1>2. nodes = <<r>> BY DEF Init
  <1> HIDE DEF r
  <1>3. /\ nodes \in Seq(NodeType) /\ Len(nodes) = 1 /\ DOMAIN nodes = {Root} /\ nodes[Root] = r
    BY <1>1, <1>2 DEF Root
  <1>4. DOMAIN nodes[Root].children = {} BY <1>1, <1>3, EmptyTableIs
  <1>5. Linked(nodes) = {Root} /\ Pending(nodes) = {}
    BY <1>1, <1>3 DEF Linked, Pending
  <1>6. NodesTyped(nodes) BY <1>1, <1>3, <1>4 DEF NodesTyped
  <1>7. Ranked(nodes)
    <2>1. [n \in DOMAIN nodes |-> 0] \in [DOMAIN nodes -> Nat] OBVIOUS
    <2>2. \A n \in DOMAIN nodes : nodes[n].parent = 0 BY <1>1, <1>3
    <2> QED BY <2>1, <2>2 DEF Ranked
  <1>8. TreeOK(nodes) BY <1>1, <1>3, <1>4, <1>5, <1>6, <1>7 DEF TreeOK
  <1>9. OscAddressIn(nodes, Root) = Separator BY <1>5, <1>8, AdrIs
  <1> QED BY <1>1, <1>3, <1>4, <1>5, <1>8, <1>9

LEMMA InitSound ==
  ASSUME Init
  PROVE  IInv
  <1>1. /\ TreeOK(nodes) /\ Linked(nodes) = {Root} /\ Pending(nodes) = {}
        /\ DOMAIN nodes = {Root} /\ Len(nodes) = 1 /\ nodes[Root].live
        /\ nodes[Root].destroyed = 0 /\ OscAddressIn(nodes, Root) = Separator
    BY FirstNode
  <1>2. /\ directory = [a \in {Separator} |-> Root] /\ observers = EmptyTable /\ stack = <<>>
    BY DEF Init
  <1>3. DOMAIN directory = {Separator} /\ directory[Separator] = Root BY <1>2
  <1>4. HandedIn(directory) = {Root} BY <1>3 DEF HandedIn
  <1>5. DirOK(nodes, directory) BY <1>1, <1>3, PlacesAssumption DEF DirOK
  <1>6. Len(nodes) <= Len(Numerals) BY NodeDirectoryAssumption, EmptySeq, <1>1
  <1>7. Range(stack) = {} /\ DOMAIN stack = {} /\ stack \in Seq(FrameType)
    BY <1>2 DEF Range
  <1>8. Chain(nodes, HandedIn(directory), stack) BY <1>2, <1>7 DEF Chain
  <1>9. Accounted(nodes, HandedIn(directory), Range(stack))
    BY <1>1, <1>4, <1>7 DEF Accounted
  <1>10. Sound(nodes, directory, stack)
    BY <1>1, <1>2, <1>5, <1>6, <1>8, <1>9 DEF Sound
  <1>11. ObsOK(observers, Range(stack))
    BY <1>2, EmptyTableIs, <1>7 DEF EmptyTable, ObsOK
  <1> QED BY <1>10, <1>11 DEF IInv

(* Every step keeps the invariant.                                         *)
LEMMA NextKeeps ==
  ASSUME IInv, CallerRules \subseteq Rules, Next
  PROVE  IInv'
  <1>1. CASE Call
    <2>1. ASSUME NEW a \in Requests, CallCreate(a) PROVE IInv'
      BY <2>1, CallCreateKeeps
    <2>2. ASSUME NEW a \in DOMAIN directory, CallRemove(a) PROVE IInv'
      BY <2>2, CallRemoveKeeps
    <2>3. ASSUME NEW n \in Handed, NEW name \in NewNames, SetName(n, name) PROVE IInv'
      BY <2>3, SetNameKeeps
    <2>4. ASSUME NEW n \in Handed, NEW instance \in NewInstances, SetInstance(n, instance)
          PROVE  IInv'
      BY <2>4, SetInstanceKeeps
    <2>5. ASSUME NEW k \in Keys, NEW o \in Observers, AddObserver(k, o) \/ RemoveObserver(k, o)
          PROVE  IInv'
      BY <2>5, AddObserverKeeps, RemoveObserverKeeps
    <2> QED BY <1>1, <2>1, <2>2, <2>3, <2>4, <2>5 DEF Call
  <1>2. CASE Step
    BY <1>2, InstantiateKeeps, AttachKeeps, ReturnNodeKeeps, EraseKeeps, NextNameKeeps,
       DestroyChildKeeps, UnlinkKeeps, NextKeyKeeps, TellKeeps, ToldKeeps, EveryoneToldKeeps
       DEF Step
  <1> QED BY <1>1, <1>2 DEF Next

LEMMA StutterKeeps ==
  ASSUME IInv, UNCHANGED vars
  PROVE  IInv'
  <1>1. nodes' = nodes /\ directory' = directory /\ observers' = observers /\ stack' = stack
    BY DEF vars
  <1> QED BY <1>1 DEF IInv

(* The whole state stays sound: the tree of nodes, the directory, what each*)
(* call in progress relies on and how it sits in the one below it, who     *)
(* holds the nodes that are not handed out, and the walks of the lists.    *)
THEOREM AlwaysSound ==
  ASSUME CallerRules \subseteq Rules
  PROVE  Spec => []IInv
  <1>1. Init => IInv BY InitSound
  <1>2. IInv /\ [Next]_vars => IInv' BY NextKeeps, StutterKeeps
  <1> QED BY <1>1, <1>2, PTL DEF Spec

-----------------------------------------------------------------------------
(* What the invariant says.                                                *)

(* What the invariant says of a node, and of the calls in progress.        *)
LEMMA LiveIs ==
  ASSUME NEW ns, TreeOK(ns)
  PROVE  {n \in DOMAIN ns : ns[n].live} = Linked(ns) \cup Pending(ns)
  <1>1. \A n \in DOMAIN ns : ns[n].created \in {0, 1} BY DEF TreeOK
  <1> QED BY <1>1 DEF Linked, Pending

LEMMA SoundIs ==
  ASSUME IInv
  PROVE  /\ TreeOK(nodes) /\ DirOK(nodes, directory) /\ stack \in Seq(FrameType)
         /\ Chain(nodes, HandedIn(directory), stack) /\ Handed = HandedIn(directory)
         /\ Accounted(nodes, HandedIn(directory), Range(stack))
         /\ \A i \in DOMAIN stack :
              stack[i] \in FrameType /\ Base(nodes, HandedIn(directory), stack[i])
         /\ stack # <<>> => TopOK(nodes, directory, Top, Tail(stack)) /\ Top = stack[1]
                            /\ 1 \in DOMAIN stack
  <1>1. /\ TreeOK(nodes) /\ DirOK(nodes, directory) /\ stack \in Seq(FrameType)
        /\ Chain(nodes, HandedIn(directory), stack)
        /\ Accounted(nodes, HandedIn(directory), Range(stack))
        /\ stack # <<>> => TopOK(nodes, directory, Head(stack), Tail(stack))
    BY DEF IInv, Sound, Chain
  <1>2. \A i \in DOMAIN stack :
          stack[i] \in FrameType /\ Base(nodes, HandedIn(directory), stack[i])
    BY <1>1 DEF Chain
  <1>3. stack # <<>> => Head(stack) = stack[1] /\ 1 \in DOMAIN stack BY <1>1, Pop
  <1>4. Handed = HandedIn(directory) BY DEF Handed, HandedIn
  <1> QED BY <1>1, <1>2, <1>3, <1>4 DEF Top

(* The node of a call is none, in the tree, or about to come there.        *)
LEMMA CallNode ==
  ASSUME NEW ns, NEW H, NEW g \in FrameType, Base(ns, H, g)
  PROVE  \/ g.node = 0
         \/ g.node \in Linked(ns)
         \/ g.node \in Pending(ns) /\ g.op = "create" /\ g.pc = "setChild"
  BY DEF Base, CreateBase, RemoveBase, DestroyBase, NotifyBase, FrameType

LEMMA SoundTypes ==
  ASSUME IInv
  PROVE  TypeOK
  <1>1. /\ TreeOK(nodes) /\ DirOK(nodes, directory) /\ Handed = HandedIn(directory)
        /\ \A i \in DOMAIN stack :
             stack[i] \in FrameType /\ Base(nodes, HandedIn(directory), stack[i])
    BY SoundIs
  <1>2. /\ Len(nodes) \in Nat /\ DOMAIN nodes = 1..Len(nodes)
        /\ \A n \in DOMAIN nodes : /\ nodes[n] \in NodeType
                                   /\ nodes[n].parent \in Nat
                                   /\ nodes[n].parent # 0 => nodes[n].parent \in DOMAIN nodes
        /\ Linked(nodes) \subseteq DOMAIN nodes /\ Pending(nodes) \subseteq DOMAIN nodes
    BY <1>1, TreeIs
  <1>3. ASSUME NEW n \in DOMAIN nodes
        PROVE  /\ nodes[n].name \in Address /\ nodes[n].instance \in Address
               /\ nodes[n].parent \in 0..Len(nodes)
               /\ \A k \in DOMAIN nodes[n].children : nodes[n].children[k] \in DOMAIN nodes
    BY <1>2, NodeIs, SinglesAddress, SeparatorIs, <1>1 DEF TreeOK, NodesTyped
  <1>4. DOMAIN directory \subseteq Address /\ Handed \subseteq DOMAIN nodes
    BY <1>1, <1>2, DirIs, SiteAddress
  <1>5. /\ DOMAIN observers \subseteq Keys
        /\ \A k \in DOMAIN observers :
             /\ observers[k].list \in Seq(Observers) \ {<<>>}
             /\ observers[k].iter \in 1..Len(observers[k].list) + 1
    BY DEF IInv, ObsOK, Listings
  <1>6. ASSUME NEW i \in DOMAIN stack
        PROVE  /\ stack[i].op \in {"create", "remove", "destroy", "notify"}
               /\ stack[i].node \in 0..Len(nodes)
    BY <1>1, <1>2, CallNode DEF FrameType
  <1> QED BY <1>3, <1>4, <1>5, <1>6 DEF TypeOK

LEMMA SoundFollowsTree ==
  ASSUME IInv
  PROVE  DirectoryFollowsTree
  <1>1. TreeOK(nodes) /\ DirOK(nodes, directory) BY SoundIs
  <1>2. \A a \in DOMAIN directory :
          directory[a] \in Linked(nodes) /\ OscAddressIn(nodes, directory[a]) = a
    BY <1>1 DEF DirOK
  <1>3. \A a \in DOMAIN directory : nodes[directory[a]].live BY <1>2 DEF Linked
  <1> QED BY <1>2, <1>3, SoundTypes DEF DirectoryFollowsTree, OscAddress

LEMMA SoundLosesNothing ==
  ASSUME IInv
  PROVE  NothingLost
  <1> SUFFICES ASSUME stack = <<>>
               PROVE  LET live == {n \in DOMAIN nodes : nodes[n].live}
                      IN  /\ Handed = live
                          /\ \A n \in live \ {Root} :
                               /\ nodes[n].parent \in live
                               /\ ChildKey(nodes, n) \in DOMAIN nodes[nodes[n].parent].children
                               /\ nodes[nodes[n].parent].children[ChildKey(nodes, n)] = n
                          /\ \A n \in live : Range(nodes[n].children) \subseteq live
    BY DEF NothingLost
  <1> DEFINE live == {n \in DOMAIN nodes : nodes[n].live}
  <1>1. /\ TreeOK(nodes) /\ DirOK(nodes, directory) /\ Handed = HandedIn(directory)
        /\ Accounted(nodes, HandedIn(directory), Range(stack))
    BY SoundIs
  <1>2. Range(stack) = {} BY DEF Range
  <1>3. Pending(nodes) = {} /\ Linked(nodes) \subseteq HandedIn(directory)
    BY <1>1, <1>2 DEF Accounted
  <1>4. HandedIn(directory) \subseteq Linked(nodes) BY <1>1, DirIs
  <1>5. live = Linked(nodes) BY <1>1, <1>3, LiveIs
  <1> HIDE DEF live
  <1>6. Handed = live BY <1>1, <1>3, <1>4, <1>5
  <1>7. \A n \in live \ {Root} : Held(nodes, n) BY <1>1, <1>5, TreeIs
  <1>8. \A n \in live : Range(nodes[n].children) \subseteq live
    BY <1>1, <1>5, TreeIs DEF Holds, Range
  <1>9. \A n \in live \ {Root} :
          /\ nodes[n].parent \in live
          /\ ChildKey(nodes, n) \in DOMAIN nodes[nodes[n].parent].children
          /\ nodes[nodes[n].parent].children[ChildKey(nodes, n)] = n
    BY <1>5, <1>7 DEF Held
  <1> QED BY <1>6, <1>8, <1>9 DEF live

LEMMA SoundFreesNoNode ==
  ASSUME IInv
  PROVE  NoFreedNode
  <1> SUFFICES ASSUME NEW i \in DOMAIN stack, stack[i].node # 0
               PROVE  /\ nodes[stack[i].node].live
                      /\ nodes[stack[i].node].parent # 0 =>
                           nodes[nodes[stack[i].node].parent].live
    BY DEF NoFreedNode
  <1> DEFINE g == stack[i]
             n == g.node
             p == nodes[n].parent
             H == HandedIn(directory)
  <1>1. /\ TreeOK(nodes) /\ DirOK(nodes, directory) /\ Chain(nodes, H, stack)
        /\ g \in FrameType /\ Base(nodes, H, g) /\ stack \in Seq(FrameType)
        /\ stack # <<>> => TopOK(nodes, directory, Top, Tail(stack)) /\ Top = stack[1]
    BY SoundIs
  <1>2. CASE n \in Linked(nodes) BY <1>1, <1>2, TreeIs DEF Held, TreeOK, Linked
  <1>3. CASE n \in Pending(nodes) /\ g.op = "create" /\ g.pc = "setChild"
    <2>1. nodes[n].live BY <1>3 DEF Pending
    <2>2. CASE i = 1 BY <1>1, <1>3, <2>2, DirIs, <2>1 DEF TopOK, CreateTop, Linked
    <2>3. CASE i # 1
      <3>1. DOMAIN stack = 1..Len(stack) /\ Len(stack) \in Nat BY <1>1
      <3>2. i > 1 /\ i - 1 \in DOMAIN stack BY <2>3, <3>1
      <3>3. Nested(stack[i - 1], g) /\ Related(nodes, stack[i - 1], g)
        BY <1>1, <3>2 DEF Chain
      <3>4. stack[i - 1].op = "create" BY <1>3, <3>3 DEF Nested
      <3>5. p = 0 BY <1>3, <3>3, <3>4 DEF Related
      <3> QED BY <2>1, <3>5
    <2> QED BY <2>2, <2>3
  <1> QED BY <1>1, <1>2, <1>3, CallNode

LEMMA SoundCreates ==
  ASSUME IInv
  PROVE  CreatedIsInTree
  <1> SUFFICES ASSUME At("create", "return")
               PROVE  /\ Top.node \in Handed
                      /\ OscAddress(Top.node) \in DOMAIN directory
                      /\ directory[OscAddress(Top.node)] = Top.node
                      /\ SplitOSCAddress(OscAddress(Top.node)).parent
                           = SplitOSCAddress(Top.address).parent
    BY DEF CreatedIsInTree
  <1>1. /\ TreeOK(nodes) /\ DirOK(nodes, directory) /\ Handed = HandedIn(directory)
    BY SoundIs
  <1>2. Base(nodes, HandedIn(directory), Top) /\ Top.op = "create" /\ Top.pc = "return"
    BY Opened
  <1>3. /\ Top.node \in HandedIn(directory)
        /\ ParentOf(OscAddressIn(nodes, Top.node)) = ParentOf(Top.address)
    BY <1>2 DEF Base, CreateBase
  <1>4. /\ OscAddressIn(nodes, Top.node) \in DOMAIN directory
        /\ directory[OscAddressIn(nodes, Top.node)] = Top.node
    BY <1>1, <1>3, DirIs
  <1> QED BY <1>1, <1>3, <1>4 DEF OscAddress, ParentOf

LEMMA SoundTells ==
  ASSUME IInv
  PROVE  FindsWhatIsTold
  <1> SUFFICES ASSUME At("notify", "callback")
               PROVE  Top.address \in DOMAIN directory /\ directory[Top.address] = Top.node
    BY DEF FindsWhatIsTold
  <1>1. /\ TreeOK(nodes) /\ DirOK(nodes, directory) BY SoundIs
  <1>2. Base(nodes, HandedIn(directory), Top) /\ Top.op = "notify" BY Opened
  <1>3. Top.node \in HandedIn(directory) /\ Top.address = OscAddressIn(nodes, Top.node)
    BY <1>2 DEF Base, NotifyBase
  <1> QED BY <1>1, <1>3, DirIs

LEMMA SoundAnnounces ==
  ASSUME IInv
  PROVE  AnnouncedOnce
  <1> SUFFICES ASSUME stack = <<>>, NEW n \in DOMAIN nodes
               PROVE  /\ nodes[n].created = 1
                      /\ nodes[n].destroyed = (IF nodes[n].live THEN 0 ELSE 1)
    BY DEF AnnouncedOnce
  <1>1. TreeOK(nodes) /\ Accounted(nodes, HandedIn(directory), Range(stack))
    BY SoundIs
  <1>2. Range(stack) = {} BY DEF Range
  <1>3. Pending(nodes) = {} BY <1>1, <1>2 DEF Accounted
  <1>4. nodes[n].created \in {0, 1} /\ (nodes[n].created = 0 => nodes[n].live)
    BY <1>1 DEF TreeOK
  <1>5. nodes[n].created = 1 BY <1>3, <1>4 DEF Pending
  <1>6. nodes[n].destroyed = (IF nodes[n].live THEN 0 ELSE 1)
    BY <1>1, <1>2 DEF Accounted
  <1> QED BY <1>5, <1>6

-----------------------------------------------------------------------------
(* The addresses that the tree of the specification has.                   *)

(* The addresses that removals hide, and those that they leave.            *)
Quiet(f) == ~ (f.op = "remove" /\ f.pc = "destroying")
Hiding(s) == {f.address : f \in {g \in Range(s) : ~ Quiet(g)}}
Shown(s, a) == \A h \in Hiding(s) : a = h \/ ~ AtOrBelow(a, h)
AddressedIn(d, s) == {a \in DOMAIN d : Shown(s, a)}

LEMMA StrictlyBelow ==
  ASSUME NEW a \in Sites, NEW b \in Sites, b # Separator
  PROVE  IsPrefix(b \o Separator, a) <=> a # b /\ AtOrBelow(a, b)
  <1>1. a \in Address /\ b \in Address BY SiteAddress
  <1>2. IsPrefix(b \o Separator, a) <=> Under(a, b) BY <1>1, UnderIs
  <1>3. Under(a, b) => a # b BY SiteBegins DEF Under
  <1> QED BY <1>2, <1>3 DEF AtOrBelow

LEMMA HidingSites ==
  ASSUME NEW ns, NEW d, NEW s, Sound(ns, d, s)
  PROVE  Hiding(s) \subseteq Sites \ {Separator}
  <1>1. TreeOK(ns) /\ Chain(ns, HandedIn(d), s) BY DEF Sound
  <1>2. ASSUME NEW f \in Range(s), ~ Quiet(f) PROVE f.address \in Sites \ {Separator}
    BY <1>1, Neighbours, <1>2, AdrIs DEF Quiet, Base, RemoveBase
  <1> QED BY <1>2 DEF Hiding

LEMMA ShownIs ==
  ASSUME NEW s, Hiding(s) \subseteq Sites \ {Separator}, NEW a \in Sites
  PROVE  Shown(s, a) <=> \A f \in Range(s) : f.op = "remove" /\ f.pc = "destroying" =>
                                               ~ IsPrefix(f.address \o Separator, a)
  <1>1. ASSUME NEW f \in Range(s), f.op = "remove" /\ f.pc = "destroying"
        PROVE  f.address \in Hiding(s)
    BY <1>1 DEF Hiding, Quiet
  <1>2. ASSUME NEW h \in Hiding(s)
        PROVE  IsPrefix(h \o Separator, a) <=> a # h /\ AtOrBelow(a, h)
    BY <1>2, StrictlyBelow
  <1>3. ASSUME NEW h \in Hiding(s)
        PROVE  \E f \in Range(s) : f.op = "remove" /\ f.pc = "destroying" /\ f.address = h
    BY <1>3 DEF Hiding, Quiet
  <1>4. ASSUME Shown(s, a), NEW f \in Range(s), f.op = "remove" /\ f.pc = "destroying"
        PROVE  ~ IsPrefix(f.address \o Separator, a)
    BY <1>1, <1>2, <1>4 DEF Shown
  <1>5. ASSUME \A f \in Range(s) : f.op = "remove" /\ f.pc = "destroying" =>
                                     ~ IsPrefix(f.address \o Separator, a),
               NEW h \in Hiding(s)
        PROVE  a = h \/ ~ AtOrBelow(a, h)
    BY <1>2, <1>3, <1>5
  <1> QED BY <1>4, <1>5 DEF Shown

LEMMA AddressedIs ==
  ASSUME IInv
  PROVE  Addressed = AddressedIn(directory, stack)
  <1>1. Sound(nodes, directory, stack) /\ DOMAIN directory \subseteq Sites
    BY DirIs DEF IInv, Sound
  <1>2. Hiding(stack) \subseteq Sites \ {Separator} BY <1>1, HidingSites
  <1>3. ASSUME NEW a \in DOMAIN directory PROVE Visible(a) <=> Shown(stack, a)
    BY <1>1, <1>2, ShownIs DEF Range, Visible
  <1> QED BY <1>3 DEF Addressed, AddressedIn

LEMMA AddressedNext ==
  ASSUME IInv'
  PROVE  Addressed' = AddressedIn(directory', stack')
  <1>1. Sound(nodes', directory', stack') /\ DOMAIN directory' \subseteq Sites
    BY DirIs DEF IInv, Sound
  <1>2. Hiding(stack') \subseteq Sites \ {Separator} BY <1>1, HidingSites
  <1>3. ASSUME NEW a \in DOMAIN directory'
        PROVE  (\A i \in DOMAIN stack' :
                  stack'[i].op = "remove" /\ stack'[i].pc = "destroying" =>
                    ~ IsPrefix(stack'[i].address \o Separator, a)) <=> Shown(stack', a)
    BY <1>1, <1>2, ShownIs DEF Range
  <1>4. Addressed' = {a \in DOMAIN directory' :
                        \A i \in DOMAIN stack' :
                          stack'[i].op = "remove" /\ stack'[i].pc = "destroying" =>
                            ~ IsPrefix(stack'[i].address \o Separator, a)}
    BY DEF Addressed, Visible
  <1> QED BY <1>3, <1>4 DEF AddressedIn

(* A step that changes neither the directory nor what is hidden.           *)
LEMMA KeptFrames ==
  ASSUME IInv, IInv', directory' = directory, NEW A, NEW B, NEW R,
         Range(stack) = A \cup R, Range(stack') = B \cup R, \A f \in A \cup B : Quiet(f)
  PROVE  Addressed' = Addressed
  <1>1. Hiding(stack') = Hiding(stack) BY DEF Hiding
  <1>2. AddressedIn(directory', stack') = AddressedIn(directory, stack)
    BY <1>1 DEF AddressedIn, Shown
  <1> QED BY <1>2, AddressedIs, AddressedNext

(* The calls in progress once frames come on top.                          *)
LEMMA RangeOne ==
  ASSUME NEW t \in Seq(FrameType), NEW y
  PROVE  Range(<<y>> \o t) = {y} \cup Range(t)
  <1>1. t \in Seq(FrameType \cup {y}) BY SeqMonotonic
  <1> QED BY <1>1, Push DEF Pushed

LEMMA RangeTwo ==
  ASSUME NEW t \in Seq(FrameType), NEW x, NEW y
  PROVE  Range(<<y, x>> \o t) = {y, x} \cup Range(t)
  <1>1. t \in Seq(FrameType \cup {x, y}) BY SeqMonotonic
  <1>2. /\ <<y, x>> \o t = Pushed(Pushed(t, x), y)
        /\ Range(Pushed(Pushed(t, x), y)) = {y, x} \cup Range(t)
    BY <1>1, PushTwo
  <1> QED BY <1>2

LEMMA RangeThree ==
  ASSUME NEW t \in Seq(FrameType), NEW x, NEW y, NEW z
  PROVE  Range((<<z, y>> \o <<x>>) \o t) = {z, y, x} \cup Range(t)
  <1> DEFINE S == FrameType \cup {x, y, z}
  <1>1. t \in Seq(S) BY SeqMonotonic
  <1>2. x \in S /\ y \in S /\ z \in S OBVIOUS
  <1> HIDE DEF S
  <1>3. (<<z, y>> \o <<x>>) \o t = <<z, y>> \o Pushed(t, x) BY <1>1, <1>2 DEF Pushed
  <1>4. Pushed(t, x) \in Seq(S) /\ Range(Pushed(t, x)) = {x} \cup Range(t)
    BY <1>1, <1>2, Push
  <1> HIDE DEF Pushed
  <1>5. Range(<<z, y>> \o Pushed(t, x)) = {z, y} \cup Range(Pushed(t, x))
    <2> DEFINE u == Pushed(t, x)
    <2>1. u \in Seq(S) BY <1>4
    <2> HIDE DEF u
    <2>2. /\ <<z, y>> \o u = Pushed(Pushed(u, y), z)
          /\ Range(Pushed(Pushed(u, y), z)) = {z, y} \cup Range(u)
      BY <1>2, <2>1, PushTwo
    <2> QED BY <2>2 DEF u
  <1> QED BY <1>3, <1>4, <1>5

-----------------------------------------------------------------------------
(* Steps that change none of these addresses.                              *)

(* The calls that the steps start from.                                    *)
LEMMA TopOf ==
  ASSUME IInv, NEW op, NEW pc, At(op, pc)
  PROVE  /\ Tail(stack) \in Seq(FrameType) /\ Range(stack) = {Top} \cup Range(Tail(stack))
         /\ Top \in FrameType /\ Top.op = op /\ Top.pc = pc
  <1>1. /\ Top \in FrameType /\ Top.op = op /\ Top.pc = pc /\ stack # <<>>
        /\ Sound(nodes, directory, stack) /\ Range(stack) = {Top} \cup Range(Tail(stack))
    BY Opened
  <1>2. Tail(stack) \in Seq(FrameType) BY <1>1, SoundPop
  <1> QED BY <1>1, <1>2

(* One frame in the place of the innermost one.                            *)
LEMMA TopKept ==
  ASSUME IInv, IInv', NEW op, NEW pc, At(op, pc), op # "remove", directory' = directory,
         NEW y, y.op # "remove", stack' = <<y>> \o Tail(stack)
  PROVE  Addressed' = Addressed
  <1>1. /\ Range(stack) = {Top} \cup Range(Tail(stack)) /\ Top.op = op
        /\ Tail(stack) \in Seq(FrameType)
    BY TopOf
  <1>2. Range(stack') = {y} \cup Range(Tail(stack)) BY <1>1, RangeOne
  <1>3. \A f \in {Top} \cup {y} : Quiet(f) BY <1>1 DEF Quiet
  <1> QED BY <1>1, <1>2, <1>3, KeptFrames

LEMMA CallCreateShows ==
  ASSUME IInv, IInv', NEW a, CallCreate(a)
  PROVE  Addressed' = Addressed
  <1> DEFINE x == Frame("create", "instantiate", a, 0)
  <1>1. directory' = directory /\ stack' = <<x>> \o stack BY DEF CallCreate
  <1>2. stack \in Seq(FrameType) /\ x.op = "create" BY SoundIs DEF Frame
  <1> HIDE DEF x
  <1>3. Range(stack') = {x} \cup Range(stack) /\ Range(stack) = {} \cup Range(stack)
    BY <1>1, <1>2, RangeOne
  <1>4. \A f \in {} \cup {x} : Quiet(f) BY <1>2 DEF Quiet
  <1> QED BY <1>1, <1>3, <1>4, KeptFrames

LEMMA CallRemoveShows ==
  ASSUME IInv, IInv', NEW a, CallRemove(a)
  PROVE  Addressed' = Addressed
  <1> DEFINE m == NotifyFrame(a, directory[a])
             r == Frame("remove", "erase", a, directory[a])
  <1>1. directory' = directory /\ stack' = <<m, r>> \o stack
    BY DEF CallRemove, RemoveFrames
  <1>2. stack \in Seq(FrameType) /\ m.op = "notify" /\ r.pc = "erase"
    BY SoundIs DEF Frame, NotifyFrame
  <1> HIDE DEF m, r
  <1>3. Range(stack') = {m, r} \cup Range(stack) /\ Range(stack) = {} \cup Range(stack)
    BY <1>1, <1>2, RangeTwo
  <1>4. \A f \in {} \cup {m, r} : Quiet(f) BY <1>2 DEF Quiet
  <1> QED BY <1>1, <1>3, <1>4, KeptFrames

LEMMA InstantiateShows ==
  ASSUME IInv, IInv', Instantiate
  PROVE  Addressed' = Addressed
  <1> DEFINE y == [Top EXCEPT !.pc = "setChild", !.node = Len(nodes) + 1]
             z == Frame("create", "instantiate", SplitOSCAddress(Top.address).parent, 0)
  <1>1. /\ At("create", "instantiate") /\ directory' = directory
        /\ stack' = <<y>> \o Tail(stack) \/ stack' = <<z, y>> \o Tail(stack)
    BY Zenon DEF Instantiate, Replace
  <1>2. /\ Range(stack) = {Top} \cup Range(Tail(stack)) /\ Top.op = "create"
        /\ Tail(stack) \in Seq(FrameType) /\ Top \in FrameType
    BY <1>1, TopOf
  <1>3. y.op = "create" /\ z.op = "create" BY <1>2 DEF FrameType, Frame
  <1> HIDE DEF y, z
  <1>4. \/ Range(stack') = {y} \cup Range(Tail(stack))
        \/ Range(stack') = {z, y} \cup Range(Tail(stack))
    BY <1>1, <1>2, RangeOne, RangeTwo, Zenon
  <1>5. /\ \A f \in {Top} \cup {y} : Quiet(f)
        /\ \A f \in {Top} \cup {z, y} : Quiet(f)
    BY <1>2, <1>3 DEF Quiet
  <1> QED BY <1>1, <1>2, <1>4, <1>5, KeptFrames

LEMMA ReturnNodeShows ==
  ASSUME IInv, IInv', ReturnNode
  PROVE  Addressed' = Addressed
  <1>1. At("create", "return") /\ directory' = directory /\ stack' = Tail(stack)
    BY DEF ReturnNode
  <1>2. Range(stack) = {Top} \cup Range(Tail(stack)) /\ Top.op = "create"
    BY <1>1, TopOf
  <1>3. Range(stack') = {} \cup Range(Tail(stack)) /\ \A f \in {Top} \cup {} : Quiet(f)
    BY <1>1, <1>2 DEF Quiet
  <1> QED BY <1>1, <1>2, <1>3, KeptFrames

LEMMA EveryoneToldShows ==
  ASSUME IInv, IInv', EveryoneTold
  PROVE  Addressed' = Addressed
  <1>1. At("notify", "keys") /\ directory' = directory /\ stack' = Tail(stack)
    BY DEF EveryoneTold
  <1>2. Range(stack) = {Top} \cup Range(Tail(stack)) /\ Top.op = "notify"
    BY <1>1, TopOf
  <1>3. Range(stack') = {} \cup Range(Tail(stack)) /\ \A f \in {Top} \cup {} : Quiet(f)
    BY <1>1, <1>2 DEF Quiet
  <1> QED BY <1>1, <1>2, <1>3, KeptFrames

LEMMA NextNameShows ==
  ASSUME IInv, IInv', NextName
  PROVE  Addressed' = Addressed
  <1>1. At("destroy", "children") /\ directory' = directory BY DEF NextName
  <1>2. PICK name \in Top.todo :
          stack' = <<[Top EXCEPT !.todo = @ \ {name},
                        !.group = {k \in DOMAIN nodes[Top.node].children : k[1] = name}]>>
                      \o Tail(stack)
    BY Zenon DEF NextName, Replace
  <1> DEFINE y == [Top EXCEPT !.todo = @ \ {name},
                     !.group = {k \in DOMAIN nodes[Top.node].children : k[1] = name}]
  <1>3. y.op = "destroy" BY <1>1, TopOf DEF FrameType
  <1> HIDE DEF y
  <1>4. stack' = <<y>> \o Tail(stack) BY <1>2, Zenon DEF y
  <1> QED BY <1>1, <1>3, <1>4, TopKept

LEMMA DestroyChildShows ==
  ASSUME IInv, IInv', DestroyChild
  PROVE  Addressed' = Addressed
  <1>1. At("destroy", "children") /\ directory' = directory BY DEF DestroyChild
  <1>2. PICK k \in Top.group :
          LET y == [Top EXCEPT !.group = @ \ {k}]
              a == OscAddress(nodes[Top.node].children[k])
          IN  \/ stack' = (RemoveFrames(a) \o <<y>>) \o Tail(stack)
              \/ stack' = <<y>> \o Tail(stack)
    BY Zenon DEF DestroyChild, Replace
  <1> DEFINE y == [Top EXCEPT !.group = @ \ {k}]
             a == OscAddress(nodes[Top.node].children[k])
             m == NotifyFrame(a, directory[a])
             r == Frame("remove", "erase", a, directory[a])
  <1>3. /\ Range(stack) = {Top} \cup Range(Tail(stack)) /\ Top.op = "destroy"
        /\ Tail(stack) \in Seq(FrameType) /\ Top \in FrameType
    BY <1>1, TopOf
  <1>4. y.op = "destroy" /\ m.op = "notify" /\ r.pc = "erase"
    BY <1>3 DEF FrameType, Frame, NotifyFrame
  <1>5. stack' = (<<m, r>> \o <<y>>) \o Tail(stack) \/ stack' = <<y>> \o Tail(stack)
    BY <1>2, Zenon DEF RemoveFrames
  <1> HIDE DEF y, a, m, r
  <1>6. CASE stack' = <<y>> \o Tail(stack) BY <1>1, <1>3, <1>4, <1>6, TopKept
  <1>7. CASE stack' = (<<m, r>> \o <<y>>) \o Tail(stack)
    <2> DEFINE t == Tail(stack)
               A == {Top}
               B == {m, r, y}
    <2>1. t \in Seq(FrameType) /\ stack' = (<<m, r>> \o <<y>>) \o t
          /\ Range(stack) = A \cup Range(t)
      BY <1>3, <1>7
    <2> HIDE DEF t
    <2>2. Range((<<m, r>> \o <<y>>) \o t) = {m, r, y} \cup Range(t)
      BY <2>1, RangeThree
    <2>3. Range(stack') = B \cup Range(t) BY <2>1, <2>2
    <2>4. \A f \in A \cup B : Quiet(f) BY <1>3, <1>4 DEF Quiet
    <2> HIDE DEF A, B
    <2> QED BY <1>1, <2>1, <2>3, <2>4, KeptFrames
  <1> QED BY <1>5, <1>6, <1>7

LEMMA NextKeyShows ==
  ASSUME IInv, IInv', NextKey
  PROVE  Addressed' = Addressed
  <1>1. At("notify", "keys") /\ directory' = directory BY DEF NextKey
  <1>2. PICK k \in Top.todo :
          stack' = <<[Top EXCEPT !.todo = @ \ {k}, !.key = k, !.pc = "observers"]>>
                      \o Tail(stack)
    BY Zenon DEF NextKey, Replace
  <1> DEFINE y == [Top EXCEPT !.todo = @ \ {k}, !.key = k, !.pc = "observers"]
  <1>3. y.op = "notify" BY <1>1, TopOf DEF FrameType
  <1> HIDE DEF y
  <1>4. stack' = <<y>> \o Tail(stack) BY <1>2 DEF y
  <1> QED BY <1>1, <1>3, <1>4, TopKept

LEMMA TellShows ==
  ASSUME IInv, IInv', Tell
  PROVE  Addressed' = Addressed
  <1> DEFINE y == [Top EXCEPT !.pc = "callback"]
  <1>1. At("notify", "observers") /\ directory' = directory /\ stack' = <<y>> \o Tail(stack)
    BY DEF Tell, Replace
  <1>2. y.op = "notify" BY <1>1, TopOf DEF FrameType
  <1> HIDE DEF y
  <1> QED BY <1>1, <1>2, TopKept

LEMMA ToldShows ==
  ASSUME IInv, IInv', Told
  PROVE  Addressed' = Addressed
  <1> DEFINE o == observers[Top.key]
             next == (o.iter % (Len(o.list) + 1)) + 1
             ended == next > Len(o.list)
             y == [Top EXCEPT !.pc = IF ended THEN "keys" ELSE "observers",
                              !.key = IF ended THEN None ELSE @]
  <1>1. At("notify", "callback") /\ directory' = directory /\ stack' = <<y>> \o Tail(stack)
    BY DEF Told, Replace
  <1> HIDE DEF ended
  <1>2. y.op = "notify" BY <1>1, TopOf DEF FrameType
  <1> HIDE DEF y
  <1> QED BY <1>1, <1>2, TopKept

LEMMA ObserversShow ==
  ASSUME IInv, IInv', NEW k, NEW o, AddObserver(k, o) \/ RemoveObserver(k, o)
  PROVE  Addressed' = Addressed
  <1>1. directory' = directory /\ stack' = stack BY DEF AddObserver, RemoveObserver
  <1>2. Range(stack) = {} \cup Range(stack) /\ Range(stack') = {} \cup Range(stack)
    BY <1>1
  <1>3. \A f \in {} \cup {} : Quiet(f) OBVIOUS
  <1> QED BY <1>1, <1>2, <1>3, KeptFrames

-----------------------------------------------------------------------------
(* Steps that do.                                                          *)

(* What a set of hidden addresses leaves of the addresses.                 *)
Left(D, H) == {a \in D : \A h \in H : a = h \/ ~ AtOrBelow(a, h)}

LEMMA LeftIs ==
  ASSUME NEW d, NEW s
  PROVE  AddressedIn(d, s) = Left(DOMAIN d, Hiding(s))
  BY DEF AddressedIn, Left, Shown

(* No node is below one without children.                                  *)
LEMMA LeafBelow ==
  ASSUME NEW ns, TreeOK(ns), NEW n \in Linked(ns), DOMAIN ns[n].children = {}
  PROVE  \A m \in Linked(ns) : AtOrBelow(OscAddressIn(ns, m), OscAddressIn(ns, n)) => m = n
  <1>1. PICK D \in [DOMAIN ns -> Nat] :
          \A m \in DOMAIN ns : ns[m].parent # 0 => D[ns[m].parent] < D[m]
    BY DEF TreeOK, Ranked
  <1>2. /\ Linked(ns) \subseteq DOMAIN ns
        /\ \A m \in Linked(ns) \ {Root} : Held(ns, m) /\ ns[m].parent # 0
    BY TreeIs
  <1> DEFINE Bad == {m \in Linked(ns) :
                       AtOrBelow(OscAddressIn(ns, m), OscAddressIn(ns, n)) /\ m # n}
             Ranks == {D[m] : m \in Bad}
  <1>3. ASSUME Bad # {} PROVE FALSE
    <2>1. Ranks \in SUBSET Nat /\ Ranks # {} BY <1>1, <1>2, <1>3
    <2>2. PICK r \in Ranks : \A q \in Ranks : r <= q BY <2>1, Least
    <2>3. PICK m \in Bad : D[m] = r BY <2>2
    <2>4. /\ m \in Linked(ns) /\ m # n /\ m \in DOMAIN ns
          /\ AtOrBelow(OscAddressIn(ns, m), OscAddressIn(ns, n))
          /\ OscAddressIn(ns, n) \in Sites /\ OscAddressIn(ns, m) \in Sites
      BY <1>2, <2>3, AdrIs
    <2>5. m # Root BY <2>4, AdrIs, BelowRoot, AdrInjective
    <2> DEFINE p == ns[m].parent
    <2>6. /\ p \in Linked(ns) /\ OscAddressIn(ns, p) \in Sites
          /\ ns[m].name \in Singles /\ ns[m].instance \in Instances
          /\ OscAddressIn(ns, m) = Join(OscAddressIn(ns, p), ns[m].name, ns[m].instance)
      BY <2>4, <2>5, AdrIs
    <2>7. OscAddressIn(ns, m) # OscAddressIn(ns, n) BY <2>4, AdrInjective
    <2>8. AtOrBelow(OscAddressIn(ns, p), OscAddressIn(ns, n))
      BY <2>4, <2>6, <2>7, BelowJoin
    <2>9. D[p] < D[m] /\ D[p] \in Nat /\ D[m] \in Nat
      BY <1>1, <1>2, <2>4, <2>5, <2>6
    <2>10. p = n
      <3>1. ASSUME p # n PROVE FALSE
        <4>1. p \in Bad BY <2>6, <2>8, <3>1
        <4>2. D[m] <= D[p] BY <2>2, <2>3, <4>1
        <4> HIDE DEF p, Bad
        <4> QED BY <2>9, <4>2
      <3> QED BY <3>1
    <2> QED BY <1>2, <2>4, <2>5, <2>10 DEF Held
  <1> QED BY <1>3

(* An address comes below one that is there.                               *)
LEMMA LeftAdd ==
  ASSUME NEW D \in SUBSET Sites, NEW H \in SUBSET (Sites \ {Separator}),
         NEW Q \in D, NEW name \in Singles, NEW instance \in Instances
  PROVE  LET got == Join(Q, name, instance)
         IN  \/ Left(D \cup {got}, H) = Left(D, H)
             \/ Left(D \cup {got}, H) = Left(D, H) \cup {got} /\ Q \in Left(D, H)
  <1> DEFINE got == Join(Q, name, instance)
  <1>1. got \in Sites /\ AtOrBelow(got, Q) /\ ~ AtOrBelow(Q, got) /\ Q \in Sites
    BY JoinParts, BelowAll
  <1> HIDE DEF got
  <1>2. ASSUME \A h \in H : got = h \/ ~ AtOrBelow(got, h)
        PROVE  \A h \in H : Q = h \/ ~ AtOrBelow(Q, h)
    BY <1>1, BelowTransitive, <1>2
  <1>3. CASE \A h \in H : got = h \/ ~ AtOrBelow(got, h) BY <1>2, <1>3 DEF Left, got
  <1>4. CASE ~ \A h \in H : got = h \/ ~ AtOrBelow(got, h) BY <1>4 DEF Left, got
  <1> QED BY <1>3, <1>4

(* An address goes, and what is below it is hidden.                        *)
LEMMA LeftPrune ==
  ASSUME NEW D \in SUBSET Sites, NEW H \in SUBSET (Sites \ {Separator}), NEW a \in D
  PROVE  \/ Left(D \ {a}, H \cup {a}) = Left(D, H)
         \/ /\ a \in Left(D, H)
            /\ Left(D \ {a}, H \cup {a}) = {b \in Left(D, H) : ~ AtOrBelow(b, a)}
  <1>1. Left(D \ {a}, H \cup {a}) = {b \in Left(D, H) : b # a /\ ~ AtOrBelow(b, a)}
    BY DEF Left
  <1>2. AtOrBelow(a, a) BY BelowAll
  <1>3. CASE a \in Left(D, H) BY <1>1, <1>2, <1>3
  <1>4. CASE a \notin Left(D, H)
    <2>1. PICK h \in H : a # h /\ AtOrBelow(a, h) BY <1>4 DEF Left
    <2>2. ASSUME NEW b \in Left(D, H) PROVE ~ AtOrBelow(b, a)
      BY <2>1, BelowTransitive, BelowBoth DEF Left
    <2>3. \A b \in Left(D, H) : b # a BY <1>4
    <2> QED BY <1>1, <2>2, <2>3
  <1> QED BY <1>3, <1>4

(* Nothing is below an address that is not hidden any more.                *)
LEMMA LeftShown ==
  ASSUME NEW D \in SUBSET Sites, NEW H, NEW a \in Sites,
         \A b \in D : AtOrBelow(b, a) => b = a
  PROVE  Left(D, H \cup {a}) = Left(D, H)
  BY DEF Left

(* An address is replaced by one with the same parent.                     *)
Moving(D, H, Q, old) ==
  /\ D \subseteq Sites /\ H \subseteq Sites \ {Separator} /\ Q \in Sites /\ old \in D
  /\ AtOrBelow(old, Q) /\ \A h \in H : ~ AtOrBelow(old, h)

LeftWith(D, H, old, new) ==
  old \in Left(D, H) /\ Left((D \ {old}) \cup {new}, H) = (Left(D, H) \ {old}) \cup {new}

LEMMA LeftMoved ==
  ASSUME NEW D, NEW H, NEW Q, NEW old, Moving(D, H, Q, old),
         NEW name \in Singles, NEW instance \in Instances
  PROVE  LeftWith(D, H, old, Join(Q, name, instance))
  <1> DEFINE new == Join(Q, name, instance)
  <1>1. /\ D \subseteq Sites /\ H \subseteq Sites \ {Separator} /\ Q \in Sites /\ old \in D
        /\ AtOrBelow(old, Q) /\ \A h \in H : ~ AtOrBelow(old, h)
    BY DEF Moving
  <1>2. \A h \in H : ~ AtOrBelow(Q, h) BY <1>1, BelowTransitive
  <1>3. \A h \in H : new = h \/ ~ AtOrBelow(new, h) BY <1>1, <1>2, BelowJoin
  <1> HIDE DEF new
  <1>4. old \in Left(D, H) BY <1>1 DEF Left
  <1>5. Left((D \ {old}) \cup {new}, H) = (Left(D, H) \ {old}) \cup {new}
    BY <1>3 DEF Left
  <1> QED BY <1>4, <1>5 DEF new, LeftWith

(* A step of the tree, or none.                                            *)
Shows == Addressed' = Addressed \/ Tree!Next

(* What is addressed before and after a step, from what is hidden.         *)
LEMMA LeftBefore ==
  ASSUME IInv
  PROVE  /\ Addressed = Left(DOMAIN directory, Hiding(stack))
         /\ DOMAIN directory \in SUBSET Sites /\ DOMAIN directory \subseteq Places
         /\ Hiding(stack) \in SUBSET (Sites \ {Separator})
  <1>1. TreeOK(nodes) /\ DirOK(nodes, directory) /\ Sound(nodes, directory, stack)
    BY DEF IInv, Sound
  <1>2. DOMAIN directory \subseteq Places BY <1>1 DEF DirOK
  <1> QED BY <1>1, <1>2, AddressedIs, LeftIs, DirIs, HidingSites

LEMMA LeftAfter ==
  ASSUME IInv'
  PROVE  Addressed' = Left(DOMAIN directory', Hiding(stack'))
  BY AddressedNext, LeftIs

LEMMA AttachShows ==
  ASSUME IInv, IInv', Attach
  PROVE  Shows
  <1> DEFINE x == Top
             u == Tail(stack)
             n == x.node
             p == nodes[n].parent
             linked == SetChild(nodes, n)
             got == OscAddressIn(linked, n)
             y == [x EXCEPT !.pc = "return"]
             m == NotifyFrame(got, n)
             Q == OscAddressIn(nodes, p)
  <1>1. /\ directory' = With(directory, got, n) /\ stack' = <<m, y>> \o u
        /\ At("create", "setChild")
    BY DEF Attach, Replace
  <1>2. /\ Attaching(nodes, directory, x, u) /\ x \in FrameType /\ x.op = "create"
        /\ u \in Seq(FrameType) /\ Range(stack) = {x} \cup Range(u)
    BY <1>1, AttachingTop, TopOf
  <1> HIDE DEF x, u
  <1>3. /\ n \in Pending(nodes) /\ p \in Linked(nodes) /\ p \in HandedIn(directory)
        /\ ChildKey(nodes, n) \notin DOMAIN nodes[p].children
        /\ Join(Q, nodes[n].name, nodes[n].instance) \in Places
        /\ nodes[n].instance \in Instances
    BY <1>2, AttachingAt
  <1>4. TreeOK(nodes) /\ DirOK(nodes, directory) BY <1>2 DEF Attaching
  <1>5. nodes[n].name \in Singles BY <1>3, <1>4, TreeIs DEF TreeOK
  <1>6. got = Join(Q, nodes[n].name, nodes[n].instance) BY <1>3, <1>4, AttachedNodes
  <1>7. m.op = "notify" /\ y.op = "create" BY <1>2 DEF FrameType, NotifyFrame, Frame
  <1>8. DOMAIN directory' = DOMAIN directory \cup {got} BY <1>1, TablePut
  <1>9. Q \in DOMAIN directory /\ Q \in Sites BY <1>3, <1>4, DirIs
  <1> DEFINE name == nodes[n].name
             instance == nodes[n].instance
  <1>10. name \in Singles /\ instance \in Instances /\ got = Join(Q, name, instance)
         /\ got \in Places
    BY <1>3, <1>5, <1>6
  <1> HIDE DEF m, y, got, Q, name, instance
  <1>11. Hiding(stack') = Hiding(stack)
    <2>1. Range(stack') = {m, y} \cup Range(u) BY <1>1, <1>2, RangeTwo
    <2>2. Quiet(x) /\ Quiet(m) /\ Quiet(y) BY <1>2, <1>7 DEF Quiet
    <2> QED BY <1>2, <2>1, <2>2 DEF Hiding
  <1>12. /\ DOMAIN directory \in SUBSET Sites /\ Hiding(stack) \in SUBSET (Sites \ {Separator})
         /\ Addressed = Left(DOMAIN directory, Hiding(stack))
         /\ Addressed' = Left(DOMAIN directory \cup {got}, Hiding(stack))
    BY <1>8, <1>11, LeftBefore, LeftAfter
  <1>13. \/ Addressed' = Addressed
         \/ Addressed' = Addressed \cup {got} /\ Q \in Addressed
    BY <1>9, <1>10, <1>12, LeftAdd
  <1>14. ParentOf(got) = Q BY <1>9, <1>10, JoinParts
  <1>15. CASE got \in Addressed BY <1>13, <1>15 DEF Shows
  <1>16. CASE got \notin Addressed /\ Addressed' # Addressed
    BY <1>13, <1>14, <1>16, <1>10 DEF Tree!Add, ParentOf, Tree!Next, Shows
  <1>17. CASE Addressed' = Addressed BY <1>17 DEF Shows
  <1> QED BY <1>15, <1>16, <1>17

LEMMA EraseShows ==
  ASSUME IInv, IInv', Erase
  PROVE  Shows
  <1> DEFINE x == Top
             u == Tail(stack)
             n == Top.node
             a == Top.address
             names == {k[1] : k \in DOMAIN nodes[n].children}
             z == [Frame("destroy", "children", None, n) EXCEPT !.todo = names]
             y == [Top EXCEPT !.pc = "destroying"]
  <1>1. /\ directory' = Without(directory, a) /\ stack' = <<z, y>> \o u
        /\ At("remove", "erase")
    BY DEF Erase, Replace
  <1>2. /\ x \in FrameType /\ x.op = "remove" /\ x.pc = "erase" /\ u \in Seq(FrameType)
        /\ Range(stack) = {x} \cup Range(u) /\ Base(nodes, HandedIn(directory), x)
        /\ Sound(nodes, directory, stack)
    BY <1>1, TopOf, Opened
  <1>3. n \in HandedIn(directory) /\ a = OscAddressIn(nodes, n) /\ n # Root
    BY <1>2 DEF Base, RemoveBase
  <1>4. TreeOK(nodes) /\ DirOK(nodes, directory) BY <1>2 DEF Sound
  <1>5. a \in DOMAIN directory /\ a # Separator BY <1>3, <1>4, DirIs, AdrIs
  <1>6. z.op = "destroy" BY DEF Frame
  <1>7. y.op = "remove" /\ y.pc = "destroying" /\ y.address = a
    BY <1>2 DEF FrameType
  <1>8. DOMAIN directory' = DOMAIN directory \ {a} BY <1>1, TableCut
  <1> HIDE DEF z, y, x, u, a
  <1>9. Hiding(stack') = Hiding(stack) \cup {a}
    BY <1>1, <1>2, RangeTwo, <1>6, <1>7 DEF Quiet, Hiding
  <1>10. /\ DOMAIN directory \in SUBSET Sites /\ Hiding(stack) \in SUBSET (Sites \ {Separator})
         /\ DOMAIN directory \subseteq Places
         /\ Addressed = Left(DOMAIN directory, Hiding(stack))
         /\ Addressed' = Left(DOMAIN directory \ {a}, Hiding(stack) \cup {a})
    BY <1>8, <1>9, LeftBefore, LeftAfter
  <1>11. \/ Addressed' = Addressed
         \/ a \in Addressed /\ Addressed' = {b \in Addressed : ~ AtOrBelow(b, a)}
    BY <1>5, <1>10, LeftPrune
  <1>12. CASE a \in Addressed /\ Addressed' = {b \in Addressed : ~ AtOrBelow(b, a)}
    BY <1>5, <1>12, <1>10 DEF Tree!Prune, AtOrBelow, Tree!Next, Shows
  <1> QED BY <1>11, <1>12 DEF Shows

LEMMA UnlinkShows ==
  ASSUME IInv, IInv', Unlink
  PROVE  Addressed' = Addressed
  <1> DEFINE x == Top
             u == Tail(stack)
             v == Tail(u)
             n == Top.node
             a == OscAddressIn(nodes, n)
             h == Head(u)
             H == HandedIn(directory)
  <1>1. /\ directory' = directory /\ stack' = v /\ x.todo = {} /\ x.group = {}
        /\ At("destroy", "children")
    BY DEF Unlink
  <1>2. /\ x \in FrameType /\ x.op = "destroy" /\ u \in Seq(FrameType) /\ stack # <<>>
        /\ Range(stack) = {x} \cup Range(u) /\ Base(nodes, H, x)
        /\ Sound(nodes, directory, stack) /\ TopOK(nodes, directory, x, u) /\ x = Head(stack)
    BY <1>1, TopOf, Opened
  <1>3. /\ TreeOK(nodes) /\ DirOK(nodes, directory) /\ Chain(nodes, H, u)
        /\ u # <<>> /\ Nested(x, u[1])
    BY <1>2, SoundPop
  <1>4. /\ h.op = "remove" /\ h.pc = "destroying" /\ h.address = a
        /\ n \in Linked(nodes) \ {Root}
    <2>1. x \in FrameType /\ x.op = "destroy" /\ Base(nodes, H, x) BY <1>2
    <2>2. x.node = n OBVIOUS
    <2> HIDE DEF x, u, n, H
    <2>3. /\ u[1].op = "remove" /\ u[1].pc = "destroying" /\ u[1].node = x.node
          /\ u[1].address = OscAddressIn(nodes, x.node) /\ x.node \in Linked(nodes) \ {Root}
          /\ u[1] = Head(u)
      BY <1>3, <2>1, BelowDestroyed
    <2> QED BY <2>2, <2>3
  <1>5. DOMAIN nodes[n].children = {} BY <1>1, <1>2 DEF TopOK, Covered
  <1>6. Range(u) = {h} \cup Range(v) BY <1>3, ChainPop
  <1>7. \A b \in DOMAIN directory : AtOrBelow(b, a) => b = a
    BY <1>3, <1>4, <1>5, LeafBelow DEF DirOK
  <1>8. a \in Sites BY <1>3, <1>4, AdrIs
  <1> HIDE DEF x, u, v, h, a
  <1>9. Hiding(stack) = Hiding(stack') \cup {a}
    BY <1>2, <1>4, <1>6, <1>1 DEF Quiet, Hiding
  <1>10. /\ DOMAIN directory \in SUBSET Sites
         /\ Addressed = Left(DOMAIN directory, Hiding(stack') \cup {a})
         /\ Addressed' = Left(DOMAIN directory, Hiding(stack'))
    BY <1>1, <1>9, LeftBefore, LeftAfter
  <1> QED BY <1>7, <1>8, <1>10, LeftShown

LEMMA RenameShows ==
  ASSUME IInv, IInv', CallerRules \subseteq Rules, NEW n \in Handed,
         NEW name \in NewNames \cup {nodes[n].name},
         NEW instance \in NewInstances \cup {nodes[n].instance}, Rename(n, name, instance)
  PROVE  Shows
  <1> DEFINE p == nodes[n].parent
             old == OscAddress(n)
             got == InstanceFor(nodes, n, p, name, instance)
             named == RenamedAs(nodes, n, p, name, instance)
             new == OscAddressIn(named, n)
             Q == OscAddressIn(nodes, p)
  <1>1. /\ directory' = Rekeyed(old, new) /\ stack' = stack
        /\ MayCall("ChangeElsewhere", old) /\ n # Root
        /\ "RenameLeaves" \in Rules => nodes[n].children = EmptyTable
    BY Zenon DEF Rename, RenamedAs, InstanceFor, TakenOut
  <1>2. Renaming(nodes, directory, stack, n) BY <1>1, RenamingTop
  <1>3. /\ TreeOK(nodes) /\ DirOK(nodes, directory) /\ Len(nodes) <= Len(Numerals)
        /\ n \in Linked(nodes) \ {Root} /\ old \in Sites /\ old # Separator
        /\ old \in DOMAIN directory /\ directory[old] = n /\ AtOrBelow(old, Q)
        /\ p \in Linked(nodes) /\ p \in DOMAIN nodes /\ n \in DOMAIN nodes
        /\ nodes[n].name \in Singles /\ nodes[n].instance \in Instances
    BY <1>2, RenamingAt DEF OscAddress
  <1>4. /\ DOMAIN nodes[n].children = {}
        /\ \A g \in Range(stack) : g.address # None => ~ AtOrBelow(old, g.address)
    BY <1>2 DEF Renaming, OscAddress
  <1>5. name \in Singles /\ instance \in Instances
    BY <1>3, NodeDirectoryAssumption DEF Singles, Instances
  <1>6. /\ got \in Instances /\ new = Join(Q, name, got)
        /\ <<name, got>> \notin DOMAIN nodes[p].children \ {ChildKey(nodes, n)}
    <2>1. nodes[n].parent = p OBVIOUS
    <2> HIDE DEF p
    <2>2. /\ TreeOK(nodes) /\ Len(nodes) <= Len(Numerals) /\ n \in Linked(nodes) \ {Root}
          /\ DOMAIN nodes[n].children = {} /\ p \in DOMAIN nodes
      BY <1>3, <1>4
    <2> HIDE DEF got, named
    <2>3. RenamedIn(nodes, named, n, p, name, instance, got)
      BY <1>5, <2>1, <2>2, RenamedNodes DEF got, named
    <2> QED BY <2>3 DEF RenamedIn
  <1>7. Q \in Sites /\ ParentOf(old) = Q BY <1>3, AdrIs DEF OscAddress
  <1> HIDE DEF new, Q, old, got
  <1>8. DOMAIN directory' = (DOMAIN directory \ {old}) \cup {new}
    <2> DEFINE c == Without(directory, old)
    <2>1. directory' = With(c, new, directory[old]) BY <1>1, <1>3 DEF Rekeyed
    <2>2. DOMAIN c = DOMAIN directory \ {old} BY TableCut
    <2> HIDE DEF c
    <2>3. DOMAIN directory' = DOMAIN c \cup {new} BY <2>1, TablePut
    <2> QED BY <2>2, <2>3
  <1>9. \A h \in Hiding(stack) : ~ AtOrBelow(old, h)
    BY LeftBefore, SiteAddress, <1>4 DEF Hiding
  <1>10. \A b \in DOMAIN directory : AtOrBelow(b, old) => b = old
    <2>1. ASSUME NEW b \in DOMAIN directory, AtOrBelow(b, old) PROVE b = old
      BY <1>3, <1>4, <2>1, LeafBelow DEF DirOK, old, OscAddress
    <2> QED BY <2>1
  <1>11. /\ DOMAIN directory \in SUBSET Sites /\ Hiding(stack) \in SUBSET (Sites \ {Separator})
         /\ Addressed = Left(DOMAIN directory, Hiding(stack))
         /\ Addressed' = Left((DOMAIN directory \ {old}) \cup {new}, Hiding(stack))
         /\ Addressed \subseteq DOMAIN directory
    BY <1>1, <1>8, LeftBefore, LeftAfter DEF Left
  <1> DEFINE D == DOMAIN directory
             H == Hiding(stack)
  <1>12. old \in Addressed /\ Addressed' = (Addressed \ {old}) \cup {new}
    <2>1. name \in Singles /\ got \in Instances /\ new = Join(Q, name, got)
      BY <1>5, <1>6
    <2>2. Moving(D, H, Q, old) BY <1>3, <1>7, <1>9, <1>11 DEF Moving
    <2> HIDE DEF D, H
    <2>3. LeftWith(D, H, old, new) BY <2>1, <2>2, LeftMoved
    <2> QED BY <1>11, <2>3 DEF D, H, LeftWith
  <1>13. ParentOf(new) = ParentOf(old) BY <1>5, <1>6, <1>7, JoinParts
  <1>14. new \in Places /\ old \in Places BY <1>8, <1>3 DEF IInv, Sound, DirOK
  <1>15. CASE new \in Addressed
    <2>1. CASE new = old BY <1>12, <2>1 DEF Shows
    <2>2. CASE new # old
      (* No other node has the new address.                                *)
      <3> DEFINE m == directory[new]
      <3>1. m \in Linked(nodes) /\ OscAddressIn(nodes, m) = new /\ n \in Linked(nodes)
        BY <1>3, <1>11, <1>15 DEF DirOK
      <3>2. m # n BY <2>2, <3>1 DEF old, OscAddress
      <3> HIDE DEF m, p
      <3>3. new # Separator /\ new \in Sites BY <1>5, <1>6, <1>7, JoinParts
      <3>4. m # Root BY <1>3, <3>1, <3>3, AdrIs
      <3> DEFINE q == nodes[m].parent
      <3>5. /\ q \in Linked(nodes) /\ OscAddressIn(nodes, q) \in Sites
            /\ nodes[m].name \in Singles /\ nodes[m].instance \in Instances
            /\ new = Join(OscAddressIn(nodes, q), nodes[m].name, nodes[m].instance)
        BY <1>3, <3>1, <3>4, AdrIs
      <3>6. OscAddressIn(nodes, q) = Q /\ nodes[m].name = name /\ nodes[m].instance = got
        <4>1. Join(Q, name, got) = Join(OscAddressIn(nodes, q), nodes[m].name, nodes[m].instance)
          BY <1>6, <3>5
        <4> HIDE DEF q
        <4> QED BY <1>5, <1>6, <1>7, <3>5, <4>1, JoinInjective
      <3>7. q = p BY <1>3, <3>5, <3>6, AdrInjective DEF Q
      <3>8. Held(nodes, m) /\ Held(nodes, n) /\ nodes[n].parent = p
        BY <1>3, <3>1, <3>4, TreeIs DEF p
      <3>9. /\ ChildKey(nodes, m) \in DOMAIN nodes[p].children
            /\ nodes[p].children[ChildKey(nodes, m)] = m
            /\ nodes[p].children[ChildKey(nodes, n)] = n
        BY <3>7, <3>8 DEF Held
      <3>10. ChildKey(nodes, m) = <<name, got>> BY <3>6 DEF ChildKey
      <3> QED BY <1>6, <3>2, <3>9, <3>10
    <2> QED BY <2>1, <2>2
  <1>16. CASE new \notin Addressed
    <2>1. Tree!Leaf(old)
      <3>1. \A b \in Addressed : ~ (old = Separator \/ IsPrefix(old \o Separator, b))
        BY <1>11, <1>3, StrictlyBelow, <1>10
      <3> QED BY <1>3, <1>12, <3>1 DEF Tree!Leaf
    <2>2. Tree!Move(old) BY <1>12, <1>13, <1>14, <1>16, <2>1 DEF Tree!Move, ParentOf
    <2>3. Tree!Next BY <1>14, <2>2 DEF Tree!Next
    <2> QED BY <2>3 DEF Shows
  <1> QED BY <1>15, <1>16

(* Every step is one of the tree, or none.                                 *)
LEMMA NextShows ==
  ASSUME IInv, IInv', CallerRules \subseteq Rules, Next
  PROVE  Shows
  <1>1. CASE Call
    <2>1. ASSUME NEW a \in Requests, CallCreate(a) PROVE Shows
      BY <2>1, CallCreateShows DEF Shows
    <2>2. ASSUME NEW a \in DOMAIN directory, CallRemove(a) PROVE Shows
      BY <2>2, CallRemoveShows DEF Shows
    <2>3. ASSUME NEW n \in Handed, NEW name \in NewNames, SetName(n, name) PROVE Shows
      BY <2>3, RenameShows DEF SetName
    <2>4. ASSUME NEW n \in Handed, NEW instance \in NewInstances, SetInstance(n, instance)
          PROVE  Shows
      BY <2>4, RenameShows DEF SetInstance
    <2>5. ASSUME NEW k \in Keys, NEW o \in Observers, AddObserver(k, o) \/ RemoveObserver(k, o)
          PROVE  Shows
      BY <2>5, ObserversShow DEF Shows
    <2> QED BY <1>1, <2>1, <2>2, <2>3, <2>4, <2>5 DEF Call
  <1>2. CASE Step
    <2>1. ASSUME Instantiate \/ ReturnNode \/ NextName \/ DestroyChild \/ Unlink
                 \/ NextKey \/ Tell \/ Told \/ EveryoneTold
          PROVE  Addressed' = Addressed
      BY <2>1, InstantiateShows, ReturnNodeShows, NextNameShows, DestroyChildShows, UnlinkShows,
         NextKeyShows, TellShows, ToldShows, EveryoneToldShows
    <2> QED BY <1>2, <2>1, AttachShows, EraseShows DEF Step, Shows
  <1> QED BY <1>1, <1>2 DEF Next

LEMMA InitShows ==
  ASSUME Init
  PROVE  Tree!Init
  <1>1. IInv BY InitSound
  <1>2. DOMAIN directory = {Separator} /\ stack = <<>> BY DEF Init
  <1>3. Addressed = {Separator} BY <1>2 DEF Addressed, Visible
  <1> QED BY <1>3 DEF Tree!Init

-----------------------------------------------------------------------------
(* The rules of the callers (CallerRules) are what these theorems assume.  *)

(* TTNode.cpp:162-197, TTNodeDirectory.cpp:187-189.  Whatever calls are in *)
(* progress, every entry of the directory leads to a live node whose place *)
(* in the tree is that address.                                            *)
THEOREM AlwaysFollowsTree ==
  ASSUME CallerRules \subseteq Rules
  PROVE  Spec => []DirectoryFollowsTree
  BY AlwaysSound, SoundFollowsTree, PTL

(* TTNodeDirectory.cpp:215-242, TTNode.cpp:33-107.  Between the calls, the *)
(* live nodes are those of the directory and those that the tables of      *)
(* children hold below the root.                                           *)
THEOREM AlwaysLosesNothing ==
  ASSUME CallerRules \subseteq Rules
  PROVE  Spec => []NothingLost
  BY AlwaysSound, SoundLosesNothing, PTL

(* TTNode.cpp:84, TTNodeDirectory.cpp:205,228,235.  No call in progress    *)
(* works on a freed node, however deep the calls of observers nest.        *)
THEOREM AlwaysFreesNoNode ==
  ASSUME CallerRules \subseteq Rules
  PROVE  Spec => []NoFreedNode
  BY AlwaysSound, SoundFreesNoNode, PTL

(* TTNodeDirectory.h:56, TTNodeDirectory.cpp:176-208.  What TTNodeCreate   *)
(* returns is in the directory, below the parent asked for.                *)
THEOREM AlwaysCreatesInTree ==
  ASSUME CallerRules \subseteq Rules
  PROVE  Spec => []CreatedIsInTree
  BY AlwaysSound, SoundCreates, PTL

(* TTNodeDirectory.cpp:204-228, TTNode.cpp:67-77.  Whoever is told of a    *)
(* node finds it at the address told.                                      *)
THEOREM AlwaysFindsWhatIsTold ==
  ASSUME CallerRules \subseteq Rules
  PROVE  Spec => []FindsWhatIsTold
  BY AlwaysSound, SoundTells, PTL

(* TTNodeDirectory.cpp:205,228.  A node is announced once when it is       *)
(* created and once before it is freed.                                    *)
THEOREM AlwaysAnnouncedOnce ==
  ASSUME CallerRules \subseteq Rules
  PROVE  Spec => []AnnouncedOnce
  BY AlwaysSound, SoundAnnounces, PTL

(* TTNodeDirectory.h:56-59, TTNodeDirectory.cpp:215-242.  The directory    *)
(* with its nested calls implements AddressTree: on the addresses that are *)
(* not about to go with an ancestor, every step adds one below one that is *)
(* there, prunes one with all below it, moves a leaf, or changes nothing.  *)
THEOREM DirectoryImplementsTree ==
  ASSUME CallerRules \subseteq Rules
  PROVE  Spec => ImplementsTree
  <1>1. Init => Tree!Init BY InitShows
  <1>2. IInv /\ IInv' /\ [Next]_vars => [Addressed' # Addressed => Tree!Next]_vars
    BY NextShows DEF Shows
  <1>3. Spec => []IInv BY AlwaysSound
  <1> QED BY <1>1, <1>2, <1>3, PTL DEF Spec, ImplementsTree

=============================================================================

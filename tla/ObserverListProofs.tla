------------------------- MODULE ObserverListProofs -------------------------
(***************************************************************************)
(* For any threads, subjects and watchers: a list holds a watcher once, a  *)
(* notification tells every watcher that is valid, it reaches none that is *)
(* gone, and no two notifications wait for each other's mutexes, each under*)
(* the rule of the callers it needs.                                       *)
(***************************************************************************)
EXTENDS ObserverList, SequenceTheorems, WellFoundedInduction, TLAPS

-----------------------------------------------------------------------------
(* The least-number principle.                                             *)
LEMMA Least ==
  ASSUME NEW S \in SUBSET Nat, S # {}
  PROVE  \E n \in S : \A m \in S : n <= m
  <1> DEFINE R == OpToRel(<, Nat)
  <1>1. \A m, n \in Nat : m < n => <<m, n>> \in R
    BY DEF OpToRel
  <1>2. IsWellFoundedOn(R, Nat)
    BY NatLessThanWellFounded
  <1> HIDE DEF R
  <1>3. PICK n \in S : \A m \in S : ~ (<<m, n>> \in R)
    BY <1>2, WFMin
  <1>4. \A m \in S : ~ (m < n)
    BY <1>1, <1>3
  <1> QED
    BY <1>4

(* A sequence as a stack: what a push, a change of the top and a pop do.   *)
Pushed(s, x) == <<x>> \o s

LEMMA Push ==
  ASSUME NEW S, NEW s \in Seq(S), NEW x \in S
  PROVE  LET r == Pushed(s, x)
         IN  /\ r \in Seq(S) /\ r # <<>>
             /\ DOMAIN r = 1..Len(s) + 1 /\ Head(r) = x /\ r[1] = x
             /\ \A i \in 2..Len(s) + 1 : r[i] = s[i - 1]
  <1>1. <<x>> \in Seq(S) /\ Len(<<x>>) = 1 /\ <<x>>[1] = x
    OBVIOUS
  <1> DEFINE r == <<x>> \o s
  <1>2. /\ r \in Seq(S) /\ Len(r) = 1 + Len(s)
        /\ \A i \in 1..1 + Len(s) : r[i] = IF i <= 1 THEN <<x>>[i] ELSE s[i - 1]
    BY <1>1, ConcatProperties
  <1>3. Len(s) \in Nat /\ DOMAIN s = 1..Len(s)
    BY LenProperties
  <1>4. DOMAIN r = 1..Len(s) + 1
    BY <1>2, <1>3, LenProperties
  <1> HIDE DEF r
  <1>5. r # <<>>
    BY <1>2, <1>3
  <1>6. r[1] = x
    BY <1>1, <1>2, <1>3
  <1>7. \A i \in 2..Len(s) + 1 : r[i] = s[i - 1]
    BY <1>2, <1>3
  <1>8. Head(r) = r[1]
    BY <1>2, <1>5
  <1> QED
    BY <1>2, <1>4, <1>5, <1>6, <1>7, <1>8 DEF r, Pushed

LEMMA Pop ==
  ASSUME NEW S, NEW s \in Seq(S), s # <<>>
  PROVE  /\ Tail(s) \in Seq(S) /\ Len(s) \in Nat \ {0}
         /\ DOMAIN s = 1..Len(s) /\ Head(s) = s[1] /\ Head(s) \in S
         /\ Len(Tail(s)) = Len(s) - 1 /\ DOMAIN Tail(s) = 1..Len(s) - 1
         /\ Tail(s) = <<>> <=> Len(s) = 1
         /\ \A i \in 1..Len(s) - 1 : Tail(s)[i] = s[i + 1]
  <1>1. Len(s) \in Nat \ {0} /\ DOMAIN s = 1..Len(s) /\ Head(s) = s[1]
    BY EmptySeq, LenProperties
  <1>2. /\ Head(s) \in S /\ Tail(s) \in Seq(S) /\ Len(Tail(s)) = Len(s) - 1
        /\ \A i \in 1..Len(Tail(s)) : Tail(s)[i] = s[i + 1]
    BY HeadTailProperties
  <1>3. Tail(s) = <<>> <=> Len(s) = 1
    <2> DEFINE u == Tail(s)
    <2>1. u \in Seq(S) /\ Len(u) = Len(s) - 1
      BY <1>2
    <2> HIDE DEF u
    <2>2. u = <<>> <=> Len(u) = 0
      BY <2>1, EmptySeq
    <2> QED
      BY <1>1, <2>1, <2>2 DEF u
  <1> QED
    BY <1>1, <1>2, <1>3

LEMMA Retop ==
  ASSUME NEW S, NEW s \in Seq(S), s # <<>>, NEW x \in S
  PROVE  LET r == Pushed(Tail(s), x)
         IN  /\ r \in Seq(S) /\ r # <<>>
             /\ DOMAIN r = DOMAIN s /\ Head(r) = x /\ r[1] = x
             /\ \A i \in DOMAIN s : i # 1 => r[i] = s[i]
  <1> DEFINE u == Tail(s)
  <1>1. /\ u \in Seq(S) /\ Len(s) \in Nat \ {0} /\ DOMAIN s = 1..Len(s)
        /\ Len(u) = Len(s) - 1 /\ \A i \in 1..Len(s) - 1 : u[i] = s[i + 1]
    BY Pop
  <1> HIDE DEF u
  <1> DEFINE v == Pushed(u, x)
  <1>2. /\ v \in Seq(S) /\ v # <<>> /\ DOMAIN v = 1..Len(u) + 1
        /\ Head(v) = x /\ v[1] = x
        /\ \A i \in 2..Len(u) + 1 : v[i] = u[i - 1]
    BY <1>1, Push
  <1> HIDE DEF v
  <1>3. \A i \in 2..Len(s) : v[i] = s[i]
    BY <1>1, <1>2
  <1>4. v = Pushed(Tail(s), x)
    BY DEF v, u
  <1> QED
    BY <1>1, <1>2, <1>3, <1>4

(* Append adds one element behind, RemoveFirst takes one out.              *)
LEMMA Appended ==
  ASSUME NEW S, NEW s \in Seq(S), NEW x \in S
  PROVE  LET r == Append(s, x)
         IN  /\ r \in Seq(S) /\ Len(s) \in Nat /\ DOMAIN s = 1..Len(s)
             /\ DOMAIN r = 1..Len(s) + 1 /\ r[Len(s) + 1] = x
             /\ \A i \in 1..Len(s) : r[i] = s[i]
  <1> DEFINE r == Append(s, x)
  <1>1. /\ r \in Seq(S) /\ Len(r) = Len(s) + 1
        /\ \A i \in 1..Len(s) : r[i] = s[i]
        /\ r[Len(s) + 1] = x
    BY AppendProperties
  <1>2. Len(s) \in Nat /\ DOMAIN s = 1..Len(s) /\ DOMAIN r = 1..Len(r)
    BY <1>1, LenProperties
  <1> QED
    BY <1>1, <1>2

LEMMA Removed ==
  ASSUME NEW S, NEW s \in Seq(S), NEW w
  PROVE  LET r == RemoveFirst(s, w)
         IN  /\ r \in Seq(S)
             /\ \/ r = s /\ \A i \in DOMAIN s : s[i] # w
                \/ \E k \in DOMAIN s :
                     /\ s[k] = w /\ DOMAIN r = 1..Len(s) - 1
                     /\ \A i \in DOMAIN r : r[i] = IF i < k THEN s[i] ELSE s[i + 1]
  <1> DEFINE at == {i \in DOMAIN s : s[i] = w}
             r == RemoveFirst(s, w)
  <1>1. Len(s) \in Nat /\ DOMAIN s = 1..Len(s) /\ \A i \in DOMAIN s : s[i] \in S
    BY LenProperties, ElementOfSeq
  <1>2. CASE at = {}
    BY <1>2 DEF RemoveFirst
  <1>3. CASE at # {}
    <2> DEFINE first == CHOOSE i \in at : \A j \in at : i <= j
    <2>1. at \in SUBSET Nat
      BY <1>1
    <2>2. \E i \in at : \A j \in at : i <= j
      <3> HIDE DEF at
      <3> QED
        BY <1>3, <2>1, Least
    <2>3. first \in at
      <3> HIDE DEF at
      <3> QED
        BY <2>2
    <2>4. r = [i \in 1..Len(s) - 1 |-> IF i < first THEN s[i] ELSE s[i + 1]]
      BY <1>3 DEF RemoveFirst
    <2>5. first \in DOMAIN s /\ s[first] = w
      BY <2>3
    <2> HIDE DEF first, at, r
    <2>6. Len(s) - 1 \in Nat
      BY <1>1, <2>5
    <2>7. \A i \in 1..Len(s) - 1 : r[i] \in S
      BY <1>1, <2>4, <2>5
    <2>8. r \in Seq(S)
      BY <2>4, <2>6, <2>7
    <2> QED
      BY <2>4, <2>5, <2>8 DEF r
  <1> QED
    BY <1>2, <1>3

-----------------------------------------------------------------------------
USE ObserverAssumption

Distinct(seq) == \A i, j \in DOMAIN seq : seq[i] = seq[j] => i = j

(* What a thread is about to append or to remove.                          *)
EditInv ==
  \A t \in Threads :
    IF pc[t] \in {"append", "remove"}
    THEN edit[t].subject \in Subjects /\ edit[t].watcher \in Watchers
    ELSE edit[t] = NoEdit

(* Between findEquals and append nobody else appends the same watcher.     *)
OneWriter ==
  /\ \A t, u \in Threads :
       edit[t].subject = edit[u].subject /\ edit[t].subject # NULL => t = u
  /\ \A t \in Threads :
       pc[t] = "append" => ~ Listed(edit[t].subject, edit[t].watcher)
  /\ \A s \in Subjects : Distinct(list[s])

OnceInv == "OneRegistrar" \in Rules => OneWriter

(* A thread holds the mutexes of the lists it walks, each taken once; so   *)
(* no list changes under a walk.                                           *)
Walking(t) ==
  /\ pc[t] \in {"iterate", "forward"} <=> stack[t] # <<>>
  /\ \A i \in DOMAIN stack[t] :
       /\ mutex[stack[t][i].subject] = t
       /\ stack[t][i].at <= Len(list[stack[t][i].subject]) + 1
  /\ \A i, j \in DOMAIN stack[t] : stack[t][i].subject = stack[t][j].subject => i = j
  /\ pc[t] = "forward" => Here(t).at > 1 /\ Forward[Running(t)] # NULL

WalkInv ==
  /\ \A t \in Threads : Walking(t)
  /\ \A s \in Subjects :
       mutex[s] # NoThread =>
         \E i \in DOMAIN stack[mutex[s]] : stack[mutex[s]][i].subject = s

(* The watchers before the iterator that are valid were told, and no other.*)
Told(f) ==
  LET all == list[f.subject]
  IN  /\ \A i \in 1..f.at - 1 :
           watcher[all[i]] = "valid" => \E j \in DOMAIN f.told : f.told[j] = all[i]
      /\ \A j \in DOMAIN f.told : \E i \in 1..f.at - 1 : f.told[j] = all[i]

ToldInv ==
  \A t \in Threads : \A i \in DOMAIN stack[t] :
    /\ Told(stack[t][i])
    /\ "OneRegistrar" \in Rules => Distinct(stack[t][i].told)

(* The owners' ledgers know every list a watcher is in, or about to be in, *)
(* and the memory of a watcher stays while its ledger is not empty.        *)
Accounted ==
  /\ \A s \in Subjects : \A i \in DOMAIN list[s] : s \in ledger[list[s][i]]
  /\ \A t \in Threads :
       pc[t] \in {"append", "remove"} => edit[t].subject \in ledger[edit[t].watcher]
  /\ \A w \in Watchers : ledger[w] # {} => watcher[w] # "deleted"

LedgerInv == "OneRegistrar" \in Rules /\ "UnregisterFirst" \in Rules => Accounted

Downwards(s, w) == Forward[w] # NULL => Level[Forward[w]] < Level[s]

AllDownwards ==
  /\ \A s \in Subjects : \A i \in DOMAIN list[s] : Downwards(s, list[s][i])
  /\ \A t \in Threads :
       pc[t] \in {"append", "remove"} => Downwards(edit[t].subject, edit[t].watcher)
  /\ \A t \in Threads : \A i, j \in DOMAIN stack[t] :
       i < j => Level[stack[t][i].subject] < Level[stack[t][j].subject]

OrderInv == "Ordered" \in Rules => AllDownwards

IInv == TypeOK /\ EditInv /\ OnceInv /\ WalkInv /\ ToldInv /\ LedgerInv /\ OrderInv

-----------------------------------------------------------------------------
(* Where a walk is.                                                        *)
LEMMA AtHere ==
  ASSUME IInv, NEW t \in Threads, pc[t] \in {"iterate", "forward"}
  PROVE  /\ stack[t] \in Seq(Frames) /\ stack[t] # <<>>
         /\ 1 \in DOMAIN stack[t] /\ Here(t) = stack[t][1] /\ Here(t) \in Frames
         /\ mutex[Here(t).subject] = t
         /\ Here(t).at \in 1..Len(list[Here(t).subject]) + 1
         /\ DOMAIN list[Here(t).subject] = 1..Len(list[Here(t).subject])
         /\ Len(list[Here(t).subject]) \in Nat
  <1>1. stack[t] \in Seq(Frames) /\ stack[t] # <<>>
    BY DEF IInv, TypeOK, WalkInv, Walking
  <1>2. 1 \in DOMAIN stack[t] /\ Here(t) = stack[t][1] /\ Here(t) \in Frames
    BY <1>1, Pop DEF Here
  <1>3. list[Here(t).subject] \in Seq(Watchers)
    BY <1>2 DEF Frames, IInv, TypeOK
  <1>4. /\ DOMAIN list[Here(t).subject] = 1..Len(list[Here(t).subject])
        /\ Len(list[Here(t).subject]) \in Nat
    BY <1>3, LenProperties
  <1>5. mutex[Here(t).subject] = t /\ Here(t).at <= Len(list[Here(t).subject]) + 1
    BY <1>2 DEF IInv, WalkInv, Walking
  <1>6. Here(t).at \in Nat \ {0}
    BY <1>2 DEF Frames
  <1> QED
    BY <1>1, <1>2, <1>4, <1>5, <1>6

LEMMA AtCurrent ==
  ASSUME IInv, NEW t \in Threads, pc[t] = "iterate", ~ AtEnd(t)
  PROVE  Here(t).at \in DOMAIN list[Here(t).subject] /\ Current(t) \in Watchers
  <1>1. /\ Here(t).at \in 1..Len(list[Here(t).subject]) + 1 /\ Here(t) \in Frames
        /\ DOMAIN list[Here(t).subject] = 1..Len(list[Here(t).subject])
        /\ Len(list[Here(t).subject]) \in Nat
    BY AtHere
  <1>2. list[Here(t).subject] \in Seq(Watchers)
    BY <1>1 DEF Frames, IInv, TypeOK
  <1>3. Here(t).at \in DOMAIN list[Here(t).subject]
    BY <1>1 DEF AtEnd
  <1> QED
    BY <1>1, <1>2, <1>3, ElementOfSeq DEF Current

LEMMA AtRunning ==
  ASSUME IInv, NEW t \in Threads, pc[t] = "forward"
  PROVE  /\ Here(t).at - 1 \in DOMAIN list[Here(t).subject]
         /\ Running(t) \in Watchers /\ Forward[Running(t)] \in Subjects
  <1>1. /\ Here(t).at \in 1..Len(list[Here(t).subject]) + 1 /\ Here(t) \in Frames
        /\ DOMAIN list[Here(t).subject] = 1..Len(list[Here(t).subject])
        /\ Len(list[Here(t).subject]) \in Nat
    BY AtHere
  <1>2. list[Here(t).subject] \in Seq(Watchers)
    BY <1>1 DEF Frames, IInv, TypeOK
  <1>3. Here(t).at > 1 /\ Forward[Running(t)] # NULL
    BY DEF IInv, WalkInv, Walking
  <1>4. Here(t).at - 1 \in DOMAIN list[Here(t).subject]
    BY <1>1, <1>3
  <1>5. Running(t) \in Watchers
    BY <1>1, <1>2, <1>4, ElementOfSeq DEF Running
  <1> QED
    BY <1>3, <1>4, <1>5

(* What the steps do to the stack of a thread.                             *)
LEMMA EnterPushes ==
  ASSUME IInv, NEW t \in Threads, NEW s \in Subjects, Enter(t, s)
  PROVE  /\ mutex[s] = NoThread /\ mutex' = [mutex EXCEPT ![s] = t]
         /\ UNCHANGED <<list, watcher, edit, ledger>>
         /\ stack' \in [Threads -> Seq(Frames)]
         /\ \A u \in Threads \ {t} : stack'[u] = stack[u]
         /\ stack'[t] # <<>> /\ Head(stack'[t]) = Frame(s)
         /\ 1 \in DOMAIN stack'[t] /\ stack'[t][1] = Frame(s)
         /\ DOMAIN stack[t] \subseteq Nat /\ DOMAIN stack'[t] \subseteq Nat \ {0}
         /\ \A i \in DOMAIN stack'[t] :
              i # 1 => i - 1 \in DOMAIN stack[t] /\ stack'[t][i] = stack[t][i - 1]
         /\ \A i \in DOMAIN stack[t] :
              i + 1 \in DOMAIN stack'[t] /\ stack'[t][i + 1] = stack[t][i]
  <1>1. stack \in [Threads -> Seq(Frames)]
    BY DEF IInv, TypeOK
  <1>2. Frame(s) \in Frames
    BY DEF Frame, Frames
  <1> DEFINE r == Pushed(stack[t], Frame(s))
  <1>3. stack' = [stack EXCEPT ![t] = r]
    BY DEF Enter, Pushed
  <1>4. /\ r \in Seq(Frames) /\ r # <<>>
        /\ DOMAIN r = 1..Len(stack[t]) + 1 /\ Head(r) = Frame(s) /\ r[1] = Frame(s)
        /\ \A i \in 2..Len(stack[t]) + 1 : r[i] = stack[t][i - 1]
    BY <1>1, <1>2, Push
  <1>5. DOMAIN stack[t] = 1..Len(stack[t]) /\ Len(stack[t]) \in Nat
    BY <1>1, LenProperties
  <1> HIDE DEF r
  <1>6. stack'[t] = r /\ stack' \in [Threads -> Seq(Frames)]
        /\ \A u \in Threads \ {t} : stack'[u] = stack[u]
    BY <1>1, <1>3, <1>4
  <1>7. \A i \in DOMAIN r : i # 1 => i - 1 \in DOMAIN stack[t] /\ r[i] = stack[t][i - 1]
    BY <1>4, <1>5
  <1>8. \A i \in DOMAIN stack[t] : i + 1 \in DOMAIN r /\ r[i + 1] = stack[t][i]
    BY <1>4, <1>5
  <1>9. DOMAIN stack[t] \subseteq Nat /\ DOMAIN r \subseteq Nat \ {0} /\ 1 \in DOMAIN r
    BY <1>4, <1>5
  <1>10. mutex[s] = NoThread /\ mutex' = [mutex EXCEPT ![s] = t]
         /\ UNCHANGED <<list, watcher, edit, ledger>>
    BY DEF Enter
  <1> QED
    BY <1>4, <1>6, <1>7, <1>8, <1>9, <1>10

LEMMA SendAdvances ==
  ASSUME IInv, NEW t \in Threads, Send(t)
  PROVE  LET w == Current(t)
             told == watcher[w] = "valid"
             frame == [Here(t) EXCEPT !.at = @ + 1,
                                      !.told = IF told THEN Append(@, w) ELSE @]
         IN  /\ pc[t] = "iterate" /\ ~ AtEnd(t)
             /\ pc' = [pc EXCEPT ![t] = IF told /\ Forward[w] # NULL
                                        THEN "forward" ELSE "iterate"]
             /\ UNCHANGED <<list, mutex, watcher, edit, ledger>>
             /\ frame \in Frames
             /\ stack' \in [Threads -> Seq(Frames)]
             /\ \A u \in Threads \ {t} : stack'[u] = stack[u]
             /\ stack'[t] # <<>> /\ Head(stack'[t]) = frame
             /\ DOMAIN stack'[t] = DOMAIN stack[t] /\ stack'[t][1] = frame
             /\ \A i \in DOMAIN stack[t] : i # 1 => stack'[t][i] = stack[t][i]
  <1> DEFINE w == Current(t)
             told == watcher[w] = "valid"
             new == IF told THEN Append(Here(t).told, w) ELSE Here(t).told
             frame == [Here(t) EXCEPT !.at = @ + 1,
                                      !.told = IF told THEN Append(@, w) ELSE @]
  <1>1. pc[t] = "iterate" /\ ~ AtEnd(t)
    BY DEF Send
  <1>2. stack[t] \in Seq(Frames) /\ stack[t] # <<>> /\ Here(t) \in Frames
    BY <1>1, AtHere
  <1>3. w \in Watchers
    BY <1>1, AtCurrent
  <1>4. new \in Seq(Watchers)
    BY <1>2, <1>3, AppendProperties DEF Frames
  <1>5. frame = [subject |-> Here(t).subject, at |-> Here(t).at + 1, told |-> new]
    <2> DEFINE here == Here(t)
    <2>1. frame = [here EXCEPT !.at = here.at + 1, !.told = new]
      OBVIOUS
    <2>2. here \in Frames
      BY <1>2
    <2> HIDE DEF here, new, frame
    <2> QED
      BY <2>1, <2>2 DEF Frames, here
  <1>6. frame \in Frames
    <2> HIDE DEF new, frame
    <2> QED
      BY <1>2, <1>4, <1>5 DEF Frames
  <1> DEFINE r == Pushed(Tail(stack[t]), frame)
  <1>7. stack' = [stack EXCEPT ![t] = r]
    BY DEF Send, Pushed
  <1>8. /\ r \in Seq(Frames) /\ r # <<>>
        /\ DOMAIN r = DOMAIN stack[t] /\ Head(r) = frame /\ r[1] = frame
        /\ \A i \in DOMAIN stack[t] : i # 1 => r[i] = stack[t][i]
    <2> DEFINE old == stack[t]
    <2>1. old \in Seq(Frames) /\ old # <<>>
      BY <1>2
    <2> HIDE DEF frame, old, r
    <2>2. LET q == Pushed(Tail(old), frame)
          IN  /\ q \in Seq(Frames) /\ q # <<>>
              /\ DOMAIN q = DOMAIN old /\ Head(q) = frame /\ q[1] = frame
              /\ \A i \in DOMAIN old : i # 1 => q[i] = old[i]
      BY <1>6, <2>1, Retop
    <2> QED
      BY <2>2 DEF r, old
  <1>9. stack \in [Threads -> Seq(Frames)]
    BY DEF IInv, TypeOK
  <1>10. stack'[t] = r /\ stack' \in [Threads -> Seq(Frames)]
         /\ \A u \in Threads \ {t} : stack'[u] = stack[u]
    <2> HIDE DEF r
    <2> QED
      BY <1>7, <1>8, <1>9
  <1>11. /\ pc' = [pc EXCEPT ![t] = IF told /\ Forward[w] # NULL
                                    THEN "forward" ELSE "iterate"]
         /\ UNCHANGED <<list, mutex, watcher, edit, ledger>>
    BY DEF Send, Goto
  <1> HIDE DEF r, frame
  <1>12. /\ stack'[t] # <<>> /\ Head(stack'[t]) = frame
         /\ DOMAIN stack'[t] = DOMAIN stack[t] /\ stack'[t][1] = frame
         /\ \A i \in DOMAIN stack[t] : i # 1 => stack'[t][i] = stack[t][i]
    BY <1>8, <1>10
  <1> QED
    BY <1>1, <1>6, <1>10, <1>11, <1>12 DEF frame

LEMMA LeavePops ==
  ASSUME IInv, NEW t \in Threads, Leave(t)
  PROVE  /\ pc[t] = "iterate" /\ AtEnd(t)
         /\ mutex' = [mutex EXCEPT ![stack[t][1].subject] = NoThread]
         /\ UNCHANGED <<list, watcher, edit, ledger>>
         /\ pc' = [pc EXCEPT ![t] = IF stack'[t] = <<>> THEN "idle" ELSE "iterate"]
         /\ stack' \in [Threads -> Seq(Frames)]
         /\ \A u \in Threads \ {t} : stack'[u] = stack[u]
         /\ 1 \in DOMAIN stack[t] /\ DOMAIN stack[t] \subseteq Nat
         /\ stack[t][1] \in Frames
         /\ DOMAIN stack'[t] \subseteq Nat \ {0}
         /\ \A i \in DOMAIN stack'[t] :
              i + 1 \in DOMAIN stack[t] /\ stack'[t][i] = stack[t][i + 1]
         /\ \A i \in DOMAIN stack[t] :
              i # 1 => i - 1 \in DOMAIN stack'[t] /\ stack'[t][i - 1] = stack[t][i]
  <1>1. pc[t] = "iterate" /\ AtEnd(t)
    BY DEF Leave
  <1>2. stack[t] \in Seq(Frames) /\ stack[t] # <<>> /\ Here(t) = stack[t][1]
    BY <1>1, AtHere
  <1> DEFINE r == Tail(stack[t])
  <1>3. /\ r \in Seq(Frames) /\ Len(stack[t]) \in Nat \ {0}
        /\ DOMAIN stack[t] = 1..Len(stack[t]) /\ stack[t][1] \in Frames
        /\ DOMAIN r = 1..Len(stack[t]) - 1
        /\ r = <<>> <=> Len(stack[t]) = 1
        /\ \A i \in 1..Len(stack[t]) - 1 : r[i] = stack[t][i + 1]
    BY <1>2, Pop
  <1>4. stack' = [stack EXCEPT ![t] = r]
    BY DEF Leave
  <1>5. stack \in [Threads -> Seq(Frames)]
    BY DEF IInv, TypeOK
  <1> HIDE DEF r
  <1>6. stack'[t] = r /\ stack' \in [Threads -> Seq(Frames)]
        /\ \A u \in Threads \ {t} : stack'[u] = stack[u]
    BY <1>3, <1>4, <1>5
  <1>7. /\ mutex' = [mutex EXCEPT ![stack[t][1].subject] = NoThread]
        /\ pc' = [pc EXCEPT ![t] = IF Len(stack[t]) = 1 THEN "idle" ELSE "iterate"]
        /\ UNCHANGED <<list, watcher, edit, ledger>>
    BY <1>2 DEF Leave, Goto
  <1>8. /\ 1 \in DOMAIN stack[t] /\ DOMAIN stack[t] \subseteq Nat
        /\ DOMAIN r \subseteq Nat \ {0}
        /\ \A i \in DOMAIN r : i + 1 \in DOMAIN stack[t] /\ r[i] = stack[t][i + 1]
        /\ \A i \in DOMAIN stack[t] :
             i # 1 => i - 1 \in DOMAIN r /\ r[i - 1] = stack[t][i]
    <2>1. PICK n : n = Len(stack[t])
      OBVIOUS
    <2>2. /\ n \in Nat \ {0} /\ DOMAIN stack[t] = 1..n /\ DOMAIN r = 1..n - 1
          /\ \A i \in 1..n - 1 : r[i] = stack[t][i + 1]
      BY <1>3, <2>1
    <2> QED
      BY ONLY <2>2
  <1>9. pc' = [pc EXCEPT ![t] = IF r = <<>> THEN "idle" ELSE "iterate"]
    BY <1>3, <1>7
  <1> QED
    BY <1>1, <1>3, <1>6, <1>7, <1>8, <1>9

(* A new walk, from idle or from a handler.                                *)
Entering(t, s) ==
  /\ pc[t] \in {"idle", "forward"} /\ pc' = [pc EXCEPT ![t] = "iterate"]
  /\ pc[t] = "forward" => s = Forward[Running(t)]
  /\ Enter(t, s)

LEMMA NotifyEnters ==
  ASSUME NEW t, NEW s, Notify(t, s)
  PROVE  Entering(t, s)
  BY DEF Notify, Goto, Entering

LEMMA ForwardEnters ==
  ASSUME IInv, NEW t \in Threads, ForwardTo(t)
  PROVE  Forward[Running(t)] \in Subjects /\ Entering(t, Forward[Running(t)])
  BY AtRunning DEF ForwardTo, Goto, Entering

(* A step of Next, with the two ways to begin a walk as one.               *)
LEMMA Cases ==
  ASSUME IInv, [Next]_vars
  PROVE  \/ \E t \in Threads, s \in Subjects : Entering(t, s)
         \/ \E t \in Threads, s \in Subjects, w \in Watchers : Register(t, s, w)
         \/ \E t \in Threads, s \in Subjects, w \in Watchers : Unregister(t, s, w)
         \/ \E t \in Threads : Insert(t)
         \/ \E t \in Threads : Remove(t)
         \/ \E t \in Threads : Send(t)
         \/ \E t \in Threads : Leave(t)
         \/ \E w \in Watchers : Invalidate(w)
         \/ \E w \in Watchers : Delete(w)
         \/ UNCHANGED vars
  BY NotifyEnters, ForwardEnters DEF Next, Step

(* Only a list whose mutex is free is changed.                             *)
LEMMA InsertAppends ==
  ASSUME IInv, NEW t \in Threads, Insert(t)
  PROVE  LET s == edit[t].subject
             w == edit[t].watcher
         IN  /\ s \in Subjects /\ w \in Watchers /\ mutex[s] = NoThread
             /\ pc[t] = "append" /\ pc' = [pc EXCEPT ![t] = "idle"]
             /\ edit' = [edit EXCEPT ![t] = NoEdit]
             /\ UNCHANGED <<mutex, watcher, stack, ledger>>
             /\ list' \in [Subjects -> Seq(Watchers)]
             /\ \A x \in Subjects \ {s} : list'[x] = list[x]
             /\ Len(list[s]) \in Nat /\ DOMAIN list[s] = 1..Len(list[s])
             /\ DOMAIN list'[s] = 1..Len(list[s]) + 1 /\ list'[s][Len(list[s]) + 1] = w
             /\ \A i \in 1..Len(list[s]) : list'[s][i] = list[s][i]
  <1> DEFINE s == edit[t].subject
             w == edit[t].watcher
             r == Append(list[s], w)
  <1>1. /\ mutex[s] = NoThread /\ pc[t] = "append" /\ pc' = [pc EXCEPT ![t] = "idle"]
        /\ list' = [list EXCEPT ![s] = r] /\ edit' = [edit EXCEPT ![t] = NoEdit]
        /\ UNCHANGED <<mutex, watcher, stack, ledger>>
    BY DEF Insert, Goto, Atomically
  <1>2. s \in Subjects /\ w \in Watchers
    BY <1>1 DEF IInv, EditInv
  <1>3. list \in [Subjects -> Seq(Watchers)]
    BY DEF IInv, TypeOK
  <1>4. list[s] \in Seq(Watchers)
    BY <1>2, <1>3
  <1>5. /\ r \in Seq(Watchers) /\ Len(list[s]) \in Nat /\ DOMAIN list[s] = 1..Len(list[s])
        /\ DOMAIN r = 1..Len(list[s]) + 1 /\ r[Len(list[s]) + 1] = w
        /\ \A i \in 1..Len(list[s]) : r[i] = list[s][i]
    BY <1>2, <1>4, Appended
  <1> HIDE DEF r
  <1>6. /\ list' \in [Subjects -> Seq(Watchers)] /\ list'[s] = r
        /\ \A x \in Subjects \ {s} : list'[x] = list[x]
    BY <1>1, <1>2, <1>3, <1>5
  <1> QED
    BY <1>1, <1>2, <1>5, <1>6

LEMMA RemoveShortens ==
  ASSUME IInv, NEW t \in Threads, Remove(t)
  PROVE  LET s == edit[t].subject
         IN  /\ s \in Subjects /\ edit[t].watcher \in Watchers /\ mutex[s] = NoThread
             /\ pc[t] = "remove" /\ pc' = [pc EXCEPT ![t] = "idle"]
             /\ edit' = [edit EXCEPT ![t] = NoEdit]
             /\ ledger' = [ledger EXCEPT ![edit[t].watcher] = @ \ {s}]
             /\ UNCHANGED <<mutex, watcher, stack>>
             /\ list' \in [Subjects -> Seq(Watchers)]
             /\ \A x \in Subjects \ {s} : list'[x] = list[x]
             /\ Len(list[s]) \in Nat /\ DOMAIN list[s] = 1..Len(list[s])
             /\ \/ /\ list'[s] = list[s]
                   /\ \A i \in DOMAIN list[s] : list[s][i] # edit[t].watcher
                \/ \E k \in DOMAIN list[s] :
                     /\ list[s][k] = edit[t].watcher
                     /\ DOMAIN list'[s] = 1..Len(list[s]) - 1
                     /\ \A i \in DOMAIN list'[s] :
                          list'[s][i] = IF i < k THEN list[s][i] ELSE list[s][i + 1]
  <1> DEFINE s == edit[t].subject
             r == RemoveFirst(list[s], edit[t].watcher)
  <1>1. /\ mutex[s] = NoThread /\ pc[t] = "remove" /\ pc' = [pc EXCEPT ![t] = "idle"]
        /\ list' = [list EXCEPT ![s] = r] /\ edit' = [edit EXCEPT ![t] = NoEdit]
        /\ ledger' = [ledger EXCEPT ![edit[t].watcher] = @ \ {s}]
        /\ UNCHANGED <<mutex, watcher, stack>>
    BY DEF Remove, Goto, Atomically
  <1>2. s \in Subjects /\ edit[t].watcher \in Watchers
    BY <1>1 DEF IInv, EditInv
  <1>3. list \in [Subjects -> Seq(Watchers)]
    BY DEF IInv, TypeOK
  <1>4. list[s] \in Seq(Watchers)
    BY <1>2, <1>3
  <1>5. /\ r \in Seq(Watchers)
        /\ \/ r = list[s] /\ \A i \in DOMAIN list[s] : list[s][i] # edit[t].watcher
           \/ \E k \in DOMAIN list[s] :
                /\ list[s][k] = edit[t].watcher
                /\ DOMAIN r = 1..Len(list[s]) - 1
                /\ \A i \in DOMAIN r :
                     r[i] = IF i < k THEN list[s][i] ELSE list[s][i + 1]
    <2> DEFINE old == list[s]
               w == edit[t].watcher
    <2>1. old \in Seq(Watchers)
      BY <1>4
    <2> HIDE DEF old, w
    <2>2. LET q == RemoveFirst(old, w)
          IN  /\ q \in Seq(Watchers)
              /\ \/ q = old /\ \A i \in DOMAIN old : old[i] # w
                 \/ \E k \in DOMAIN old :
                      /\ old[k] = w /\ DOMAIN q = 1..Len(old) - 1
                      /\ \A i \in DOMAIN q :
                           q[i] = IF i < k THEN old[i] ELSE old[i + 1]
      BY <2>1, Removed
    <2> QED
      BY <2>2 DEF old, w
  <1>6. Len(list[s]) \in Nat /\ DOMAIN list[s] = 1..Len(list[s])
    BY <1>4, LenProperties
  <1> HIDE DEF r
  <1>7. /\ list' \in [Subjects -> Seq(Watchers)] /\ list'[s] = r
        /\ \A x \in Subjects \ {s} : list'[x] = list[x]
    BY <1>1, <1>2, <1>3, <1>5
  <1> QED
    BY <1>1, <1>2, <1>5, <1>6, <1>7

LEMMA TypeStep == IInv /\ [Next]_vars => TypeOK'
  <1> SUFFICES ASSUME IInv, [Next]_vars PROVE TypeOK'
    OBVIOUS
  <1>0. TypeOK
    BY DEF IInv
  <1> USE DEF TypeOK
  <1>1. ASSUME NEW t \in Threads, NEW s \in Subjects, Entering(t, s)
        PROVE  TypeOK'
    <2>1. /\ mutex' = [mutex EXCEPT ![s] = t] /\ UNCHANGED <<list, watcher, edit, ledger>>
          /\ stack' \in [Threads -> Seq(Frames)]
      BY <1>1, EnterPushes DEF Entering
    <2>2. pc' = [pc EXCEPT ![t] = "iterate"]
      BY <1>1 DEF Entering
    <2> QED
      BY <1>0, <2>1, <2>2
  <1>2. ASSUME NEW t \in Threads, NEW s \in Subjects, NEW w \in Watchers, Register(t, s, w)
        PROVE  TypeOK'
    <2>1. /\ pc' = [pc EXCEPT ![t] = "append"] /\ UNCHANGED <<list, mutex, watcher, stack>>
          /\ edit' = [edit EXCEPT ![t] = [subject |-> s, watcher |-> w]]
          /\ ledger' = [ledger EXCEPT ![w] = @ \cup {s}]
      BY <1>2 DEF Register, Goto, Atomically
    <2> QED
      BY <1>0, <2>1
  <1>3. ASSUME NEW t \in Threads, NEW s \in Subjects, NEW w \in Watchers, Unregister(t, s, w)
        PROVE  TypeOK'
    <2>1. /\ pc' = [pc EXCEPT ![t] = "remove"] /\ UNCHANGED <<list, mutex, watcher, stack, ledger>>
          /\ edit' = [edit EXCEPT ![t] = [subject |-> s, watcher |-> w]]
      BY <1>3 DEF Unregister, Goto, Atomically
    <2> QED
      BY <1>0, <2>1
  <1>4. ASSUME NEW t \in Threads, Insert(t) PROVE TypeOK'
    <2>1. /\ pc' = [pc EXCEPT ![t] = "idle"] /\ edit' = [edit EXCEPT ![t] = NoEdit]
          /\ list' \in [Subjects -> Seq(Watchers)] /\ UNCHANGED <<mutex, watcher, stack, ledger>>
      BY <1>4, InsertAppends
    <2>2. NoEdit \in [subject : Subjects \cup {NULL}, watcher : Watchers \cup {NULL}]
      BY DEF NoEdit
    <2> QED
      BY <1>0, <2>1, <2>2
  <1>5. ASSUME NEW t \in Threads, Remove(t) PROVE TypeOK'
    <2>1. /\ pc' = [pc EXCEPT ![t] = "idle"] /\ edit' = [edit EXCEPT ![t] = NoEdit]
          /\ list' \in [Subjects -> Seq(Watchers)] /\ UNCHANGED <<mutex, watcher, stack>>
          /\ ledger' = [ledger EXCEPT ![edit[t].watcher] = @ \ {edit[t].subject}]
          /\ edit[t].watcher \in Watchers
      BY <1>5, RemoveShortens
    <2>2. NoEdit \in [subject : Subjects \cup {NULL}, watcher : Watchers \cup {NULL}]
      BY DEF NoEdit
    <2> QED
      BY <1>0, <2>1, <2>2
  <1>6. ASSUME NEW t \in Threads, Send(t) PROVE TypeOK'
    <2>1. /\ \E to \in {"forward", "iterate"} : pc' = [pc EXCEPT ![t] = to]
          /\ UNCHANGED <<list, mutex, watcher, edit, ledger>> /\ stack' \in [Threads -> Seq(Frames)]
      BY <1>0, <1>6, SendAdvances
    <2> QED
      BY <1>0, <2>1
  <1>7. ASSUME NEW t \in Threads, Leave(t) PROVE TypeOK'
    <2>1. /\ mutex' = [mutex EXCEPT ![stack[t][1].subject] = NoThread]
          /\ UNCHANGED <<list, watcher, edit, ledger>>
          /\ stack' \in [Threads -> Seq(Frames)]
      BY <1>7, LeavePops
    <2>2. pc' = [pc EXCEPT ![t] = IF stack'[t] = <<>> THEN "idle" ELSE "iterate"]
      BY <1>7, LeavePops
    <2>3. pc' \in [Threads -> {"idle", "append", "remove", "iterate", "forward"}]
      BY <1>0, <2>2
    <2> QED
      BY <1>0, <2>1, <2>3
  <1>8. ASSUME NEW w \in Watchers, Invalidate(w) PROVE TypeOK'
    BY <1>0, <1>8 DEF Invalidate
  <1>9. ASSUME NEW w \in Watchers, Delete(w) PROVE TypeOK'
    BY <1>0, <1>9 DEF Delete
  <1>10. CASE UNCHANGED vars
    BY <1>0, <1>10 DEF vars
  <1> QED
    BY <1>1, <1>2, <1>3, <1>4, <1>5, <1>6, <1>7, <1>8, <1>9, <1>10, Cases

LEMMA EditStep == IInv /\ [Next]_vars => EditInv'
  <1> SUFFICES ASSUME IInv, [Next]_vars PROVE EditInv'
    OBVIOUS
  <1>0. TypeOK /\ EditInv
    BY DEF IInv
  <1> USE DEF TypeOK, EditInv
  <1>1. ASSUME NEW t \in Threads, NEW s \in Subjects, Entering(t, s)
        PROVE  EditInv'
    BY <1>0, <1>1, EnterPushes DEF Entering
  <1>2. ASSUME NEW t \in Threads, NEW s \in Subjects, NEW w \in Watchers, Register(t, s, w)
        PROVE  EditInv'
    BY <1>0, <1>2 DEF Register, Goto, Atomically
  <1>3. ASSUME NEW t \in Threads, NEW s \in Subjects, NEW w \in Watchers, Unregister(t, s, w)
        PROVE  EditInv'
    BY <1>0, <1>3 DEF Unregister, Goto, Atomically
  <1>4. ASSUME NEW t \in Threads, Insert(t) PROVE EditInv'
    <2>1. pc' = [pc EXCEPT ![t] = "idle"] /\ edit' = [edit EXCEPT ![t] = NoEdit]
      BY <1>4 DEF Insert, Goto
    <2> QED
      BY <1>0, <2>1
  <1>5. ASSUME NEW t \in Threads, Remove(t) PROVE EditInv'
    <2>1. pc' = [pc EXCEPT ![t] = "idle"] /\ edit' = [edit EXCEPT ![t] = NoEdit]
      BY <1>5 DEF Remove, Goto
    <2> QED
      BY <1>0, <2>1
  <1>6. ASSUME NEW t \in Threads, Send(t) PROVE EditInv'
    <2>1. /\ pc[t] = "iterate" /\ edit' = edit
          /\ \E to \in {"forward", "iterate"} : pc' = [pc EXCEPT ![t] = to]
      BY <1>0, <1>6, SendAdvances
    <2> QED
      BY <1>0, <2>1
  <1>7. ASSUME NEW t \in Threads, Leave(t) PROVE EditInv'
    BY <1>0, <1>7, LeavePops
  <1>8. ASSUME NEW w \in Watchers, Invalidate(w) PROVE EditInv'
    BY <1>0, <1>8 DEF Invalidate
  <1>9. ASSUME NEW w \in Watchers, Delete(w) PROVE EditInv'
    BY <1>0, <1>9 DEF Delete
  <1>10. CASE UNCHANGED vars
    BY <1>0, <1>10 DEF vars
  <1> QED
    BY <1>1, <1>2, <1>3, <1>4, <1>5, <1>6, <1>7, <1>8, <1>9, <1>10, Cases

LEMMA OnceStep == IInv /\ [Next]_vars => OnceInv'
  <1> SUFFICES ASSUME IInv, [Next]_vars PROVE OnceInv'
    OBVIOUS
  <1>0. TypeOK /\ EditInv /\ OnceInv
    BY DEF IInv
  <1> USE DEF TypeOK, EditInv, OnceInv, OneWriter
  <1>1. ASSUME NEW t \in Threads, NEW s \in Subjects, Entering(t, s)
        PROVE  OnceInv'
    BY <1>0, <1>1, EnterPushes DEF Entering, Listed
  <1>2. ASSUME NEW t \in Threads, NEW s \in Subjects, NEW w \in Watchers, Register(t, s, w)
        PROVE  OnceInv'
    BY <1>0, <1>2 DEF Register, Goto, Atomically, MayEdit, Listed
  <1>3. ASSUME NEW t \in Threads, NEW s \in Subjects, NEW w \in Watchers, Unregister(t, s, w)
        PROVE  OnceInv'
    BY <1>0, <1>3 DEF Unregister, Goto, Atomically, MayEdit, Listed
  <1>4. ASSUME NEW t \in Threads, Insert(t) PROVE OnceInv'
    <2> SUFFICES ASSUME "OneRegistrar" \in Rules PROVE OneWriter'
      OBVIOUS
    <2> DEFINE s == edit[t].subject
               w == edit[t].watcher
    <2>1. /\ s \in Subjects /\ pc[t] = "append" /\ pc' = [pc EXCEPT ![t] = "idle"]
          /\ edit' = [edit EXCEPT ![t] = NoEdit]
          /\ \A x \in Subjects \ {s} : list'[x] = list[x]
      BY <1>4, InsertAppends
    <2>2. /\ Len(list[s]) \in Nat /\ DOMAIN list[s] = 1..Len(list[s])
          /\ DOMAIN list'[s] = 1..Len(list[s]) + 1 /\ list'[s][Len(list[s]) + 1] = w
          /\ \A i \in 1..Len(list[s]) : list'[s][i] = list[s][i]
      BY <1>4, InsertAppends
    <2>3. /\ \A i \in DOMAIN list[s] : list[s][i] # w
          /\ Distinct(list[s])
      BY <1>0, <2>1 DEF Listed
    <2>4. Distinct(list'[s])
      <3> HIDE DEF s, w
      <3> QED
        BY <2>2, <2>3 DEF Distinct
    <2>5. \A x \in Subjects : Distinct(list'[x])
      BY <1>0, <2>1, <2>4
    <2>6. \A u \in Threads \ {t} : edit'[u] = edit[u] /\ pc'[u] = pc[u]
      BY <1>0, <2>1
    <2>7. edit'[t] = NoEdit /\ pc'[t] = "idle"
      BY <1>0, <2>1
    <2>8. ASSUME NEW u \in Threads, pc'[u] = "append"
          PROVE  ~ Listed(edit[u].subject, edit[u].watcher)' /\ edit'[u] = edit[u]
      <3>1. u # t /\ edit'[u] = edit[u] /\ pc[u] = "append"
        BY <2>6, <2>7, <2>8
      <3>2. edit[u].subject \in Subjects \ {s}
        BY <1>0, <2>1, <3>1
      <3>3. list'[edit'[u].subject] = list[edit[u].subject]
        BY <2>1, <3>1, <3>2
      <3> QED
        BY <1>0, <3>1, <3>3 DEF Listed
    <2>9. \A u, v \in Threads :
            edit'[u].subject = edit'[v].subject /\ edit'[u].subject # NULL => u = v
      <3>1. NoEdit.subject = NULL
        BY DEF NoEdit
      <3>2. \A u \in Threads : edit'[u].subject # NULL => edit'[u] = edit[u]
        BY <2>6, <2>7, <3>1
      <3> QED
        BY <1>0, <3>2
    <2> QED
      BY <2>5, <2>8, <2>9
  <1>5. ASSUME NEW t \in Threads, Remove(t) PROVE OnceInv'
    <2> SUFFICES ASSUME "OneRegistrar" \in Rules PROVE OneWriter'
      OBVIOUS
    <2> DEFINE s == edit[t].subject
    <2>1. /\ s \in Subjects /\ pc[t] = "remove" /\ pc' = [pc EXCEPT ![t] = "idle"]
          /\ edit' = [edit EXCEPT ![t] = NoEdit]
          /\ \A x \in Subjects \ {s} : list'[x] = list[x]
      BY <1>5, RemoveShortens
    <2>2. /\ Len(list[s]) \in Nat /\ DOMAIN list[s] = 1..Len(list[s])
          /\ \/ list'[s] = list[s]
             \/ \E k \in DOMAIN list[s] :
                  /\ DOMAIN list'[s] = 1..Len(list[s]) - 1
                  /\ \A i \in DOMAIN list'[s] :
                       list'[s][i] = IF i < k THEN list[s][i] ELSE list[s][i + 1]
      BY <1>5, RemoveShortens
    <2>3. Distinct(list[s])
      BY <1>0, <2>1
    <2>4. Distinct(list'[s])
      <3> DEFINE old == list[s]
                 new == list'[s]
      <3>1. CASE new = old
        BY <2>3, <3>1 DEF Distinct
      <3>2. ASSUME NEW k \in DOMAIN old, DOMAIN new = 1..Len(old) - 1,
                   \A i \in DOMAIN new : new[i] = IF i < k THEN old[i] ELSE old[i + 1]
            PROVE  Distinct(new)
        <4> HIDE DEF new, old, s
        <4>1. Len(old) \in Nat /\ DOMAIN old = 1..Len(old)
          BY <2>2 DEF old
        <4>2. \A i, j \in DOMAIN old : old[i] = old[j] => i = j
          BY <2>3 DEF Distinct, old
        <4> QED
          BY <3>2, <4>1, <4>2 DEF Distinct
      <3> QED
        BY <2>2, <3>1, <3>2
    <2>5. \A x \in Subjects : Distinct(list'[x])
      BY <1>0, <2>1, <2>4
    <2>6. \A u \in Threads \ {t} : edit'[u] = edit[u] /\ pc'[u] = pc[u]
      BY <1>0, <2>1
    <2>7. edit'[t] = NoEdit /\ pc'[t] = "idle"
      BY <1>0, <2>1
    <2>8. ASSUME NEW u \in Threads, pc'[u] = "append"
          PROVE  ~ Listed(edit[u].subject, edit[u].watcher)' /\ edit'[u] = edit[u]
      <3>1. u # t /\ edit'[u] = edit[u] /\ pc[u] = "append"
        BY <2>6, <2>7, <2>8
      <3>2. edit[u].subject \in Subjects \ {s}
        BY <1>0, <2>1, <3>1
      <3>3. list'[edit'[u].subject] = list[edit[u].subject]
        BY <2>1, <3>1, <3>2
      <3> QED
        BY <1>0, <3>1, <3>3 DEF Listed
    <2>9. \A u, v \in Threads :
            edit'[u].subject = edit'[v].subject /\ edit'[u].subject # NULL => u = v
      <3>1. NoEdit.subject = NULL
        BY DEF NoEdit
      <3>2. \A u \in Threads : edit'[u].subject # NULL => edit'[u] = edit[u]
        BY <2>6, <2>7, <3>1
      <3> QED
        BY <1>0, <3>2
    <2> QED
      BY <2>5, <2>8, <2>9
  <1>6. ASSUME NEW t \in Threads, Send(t) PROVE OnceInv'
    <2>1. UNCHANGED <<list, edit>>
      BY <1>6, SendAdvances
    <2>2. \A u \in Threads : pc'[u] = "append" => pc[u] = "append"
      <3>1. \E to \in {"forward", "iterate"} : pc' = [pc EXCEPT ![t] = to]
        BY <1>6, SendAdvances
      <3> QED
        BY <1>0, <3>1
    <2> QED
      BY <1>0, <2>1, <2>2 DEF Listed
  <1>7. ASSUME NEW t \in Threads, Leave(t) PROVE OnceInv'
    <2>1. UNCHANGED <<list, edit>>
      BY <1>7, LeavePops
    <2>2. \A u \in Threads : pc'[u] = "append" => pc[u] = "append"
      BY <1>0, <1>7, LeavePops
    <2> QED
      BY <1>0, <2>1, <2>2 DEF Listed
  <1>8. ASSUME NEW w \in Watchers, Invalidate(w) PROVE OnceInv'
    BY <1>0, <1>8 DEF Invalidate, Listed
  <1>9. ASSUME NEW w \in Watchers, Delete(w) PROVE OnceInv'
    BY <1>0, <1>9 DEF Delete, Listed
  <1>10. CASE UNCHANGED vars
    BY <1>0, <1>10 DEF vars, Listed
  <1> QED
    BY <1>1, <1>2, <1>3, <1>4, <1>5, <1>6, <1>7, <1>8, <1>9, <1>10, Cases

-----------------------------------------------------------------------------
LEMMA FrameTypes ==
  ASSUME TypeOK, NEW t \in Threads
  PROVE  /\ DOMAIN stack[t] \subseteq Nat \ {0}
         /\ \A i \in DOMAIN stack[t] : /\ stack[t][i] \in Frames
                                       /\ stack[t][i].subject \in Subjects
                                       /\ stack[t][i].at \in Nat \ {0}
                                       /\ stack[t][i].told \in Seq(Watchers)
  <1>1. stack[t] \in Seq(Frames)
    BY DEF TypeOK
  <1>2. DOMAIN stack[t] = 1..Len(stack[t]) /\ Len(stack[t]) \in Nat
    BY <1>1, LenProperties
  <1>3. \A i \in DOMAIN stack[t] : stack[t][i] \in Frames
    BY <1>1, <1>2, ElementOfSeq
  <1> QED
    BY <1>2, <1>3 DEF Frames

(* What a change of a list leaves alone: every list that is walked.        *)
LEMMA EditKeepsWalks ==
  ASSUME IInv, NEW t \in Threads, Insert(t) \/ Remove(t)
  PROVE  /\ UNCHANGED <<mutex, watcher, stack>>
         /\ pc[t] \in {"append", "remove"} /\ pc' = [pc EXCEPT ![t] = "idle"]
         /\ \A u \in Threads : \A i \in DOMAIN stack[u] :
              list'[stack[u][i].subject] = list[stack[u][i].subject]
  <1> DEFINE s == edit[t].subject
  <1>1. /\ UNCHANGED <<mutex, watcher, stack>>
        /\ pc[t] \in {"append", "remove"} /\ pc' = [pc EXCEPT ![t] = "idle"]
        /\ mutex[s] = NoThread /\ \A x \in Subjects \ {s} : list'[x] = list[x]
    <2>1. CASE Insert(t)
      BY <2>1, InsertAppends
    <2>2. CASE Remove(t)
      BY <2>2, RemoveShortens
    <2> QED
      BY <2>1, <2>2
  <1>2. ASSUME NEW u \in Threads, NEW i \in DOMAIN stack[u]
        PROVE  list'[stack[u][i].subject] = list[stack[u][i].subject]
    <2>1. stack[u][i].subject \in Subjects
      BY FrameTypes DEF IInv
    <2>2. mutex[stack[u][i].subject] = u
      BY DEF IInv, WalkInv, Walking
    <2>3. stack[u][i].subject # s
      BY <1>1, <2>2
    <2> QED
      BY <1>1, <2>1, <2>3
  <1> QED
    BY <1>1, <1>2

LEMMA TopOfWalk ==
  ASSUME IInv, NEW t \in Threads, stack[t] # <<>>
  PROVE  1 \in DOMAIN stack[t] /\ Here(t) = stack[t][1]
  <1>1. pc[t] \in {"iterate", "forward"}
    BY DEF IInv, WalkInv, Walking
  <1> QED
    BY <1>1, AtHere

(* Steps after which every walk is where it was.                           *)
LEMMA WalkKept ==
  ASSUME IInv, UNCHANGED <<mutex, stack>>,
         \A t \in Threads : pc'[t] \in {"iterate", "forward"} <=> pc[t] \in {"iterate", "forward"},
         \A t \in Threads : pc'[t] = "forward" => pc[t] = "forward",
         \A t \in Threads : \A i \in DOMAIN stack[t] :
           list'[stack[t][i].subject] = list[stack[t][i].subject]
  PROVE  WalkInv'
  <1>1. ASSUME NEW t \in Threads PROVE Walking(t)'
    <2>1. Walking(t)
      BY DEF IInv, WalkInv
    <2>2. \A i \in DOMAIN stack'[t] :
            /\ mutex'[stack'[t][i].subject] = t
            /\ stack'[t][i].at <= Len(list'[stack'[t][i].subject]) + 1
      BY <2>1 DEF Walking
    <2>3. pc'[t] = "forward" => Here(t)'.at > 1 /\ Forward[Running(t)'] # NULL
      <3> SUFFICES ASSUME pc'[t] = "forward" PROVE Here(t)'.at > 1 /\ Forward[Running(t)'] # NULL
        OBVIOUS
      <3>1. pc[t] = "forward" /\ Here(t).at > 1 /\ Forward[Running(t)] # NULL
        BY <2>1 DEF Walking
      <3>2. 1 \in DOMAIN stack[t] /\ Here(t) = stack[t][1]
        BY <3>1, AtHere
      <3>3. Here(t)' = Here(t)
        BY DEF Here
      <3>4. Running(t)' = Running(t)
        BY <3>2, <3>3 DEF Running
      <3> QED
        BY <3>1, <3>3, <3>4
    <2> QED
      BY <2>1, <2>2, <2>3 DEF Walking
  <1>2. \A s \in Subjects :
          mutex'[s] # NoThread =>
            \E i \in DOMAIN stack'[mutex'[s]] : stack'[mutex'[s]][i].subject = s
    BY DEF IInv, WalkInv
  <1> QED
    BY <1>1, <1>2 DEF WalkInv

LEMMA WalkStep == IInv /\ [Next]_vars => WalkInv'
  <1> SUFFICES ASSUME IInv, [Next]_vars PROVE WalkInv'
    OBVIOUS
  <1>0. TypeOK /\ WalkInv
    BY DEF IInv
  <1> USE DEF TypeOK
  <1>1. ASSUME NEW t \in Threads, NEW s \in Subjects, Entering(t, s)
        PROVE  WalkInv'
    <2>1. /\ mutex[s] = NoThread /\ mutex' = [mutex EXCEPT ![s] = t] /\ list' = list
          /\ stack'[t] # <<>> /\ 1 \in DOMAIN stack'[t] /\ stack'[t][1] = Frame(s)
          /\ \A u \in Threads \ {t} : stack'[u] = stack[u]
          /\ DOMAIN stack'[t] \subseteq Nat \ {0}
      BY <1>1, EnterPushes DEF Entering
    <2>2. \A i \in DOMAIN stack'[t] :
            i # 1 => i - 1 \in DOMAIN stack[t] /\ stack'[t][i] = stack[t][i - 1]
      BY <1>1, EnterPushes DEF Entering
    <2>3. \A i \in DOMAIN stack[t] :
            i + 1 \in DOMAIN stack'[t] /\ stack'[t][i + 1] = stack[t][i]
      BY <1>1, EnterPushes DEF Entering
    <2>4. pc'[t] = "iterate" /\ \A u \in Threads \ {t} : pc'[u] = pc[u]
      BY <1>0, <1>1 DEF Entering
    <2>5. \A u \in Threads : \A i \in DOMAIN stack[u] :
            /\ stack[u][i].subject \in Subjects /\ stack[u][i].subject # s
            /\ mutex'[stack[u][i].subject] = u
            /\ stack[u][i].at <= Len(list'[stack[u][i].subject]) + 1
      BY <1>0, <2>1, FrameTypes DEF WalkInv, Walking
    <2>6. ASSUME NEW u \in Threads \ {t} PROVE Walking(u)'
      <3>1. Walking(u) /\ stack'[u] = stack[u] /\ pc'[u] = pc[u]
        BY <1>0, <2>1, <2>4 DEF WalkInv
      <3>2. Here(u)' = Here(u) /\ Running(u)' = Running(u)
        BY <2>1, <3>1 DEF Here, Running
      <3> QED
        BY <2>5, <3>1, <3>2 DEF Walking
    <2>7. Walking(t)'
      <3>1. /\ Frame(s).subject = s /\ Frame(s).at = 1
            /\ 1 <= Len(list'[s]) + 1
        BY <1>0, <2>1, LenProperties DEF Frame, TypeOK
      <3>2. ASSUME NEW i \in DOMAIN stack'[t]
            PROVE  /\ mutex'[stack'[t][i].subject] = t
                   /\ stack'[t][i].at <= Len(list'[stack'[t][i].subject]) + 1
        <4>1. CASE i = 1
          BY <1>0, <2>1, <3>1, <4>1 DEF TypeOK
        <4>2. CASE i # 1
          BY <2>2, <2>5, <4>2
        <4> QED
          BY <4>1, <4>2
      <3>3. ASSUME NEW i \in DOMAIN stack'[t], NEW j \in DOMAIN stack'[t],
                   stack'[t][i].subject = stack'[t][j].subject
            PROVE  i = j
        <4>1. CASE i = 1 \/ j = 1
          BY <2>1, <2>2, <2>5, <3>1, <3>3, <4>1
        <4>2. CASE i # 1 /\ j # 1
          <5>1. /\ i - 1 \in DOMAIN stack[t] /\ j - 1 \in DOMAIN stack[t]
                /\ stack[t][i - 1].subject = stack[t][j - 1].subject
            BY <2>2, <3>3, <4>2
          <5>2. i - 1 = j - 1
            BY <1>0, <5>1 DEF WalkInv, Walking
          <5> QED
            BY <2>1, <5>2
        <4> QED
          BY <4>1, <4>2
      <3> QED
        BY <2>1, <2>4, <3>2, <3>3 DEF Walking
    <2>8. ASSUME NEW x \in Subjects, mutex'[x] # NoThread
          PROVE  \E i \in DOMAIN stack'[mutex'[x]] : stack'[mutex'[x]][i].subject = x
      <3>1. CASE x = s
        BY <1>0, <2>1, <3>1 DEF Frame, TypeOK
      <3>2. CASE x # s
        <4>1. mutex'[x] = mutex[x] /\ mutex[x] \in Threads
          BY <1>0, <2>1, <2>8, <3>2 DEF TypeOK
        <4>2. PICK i \in DOMAIN stack[mutex[x]] : stack[mutex[x]][i].subject = x
          BY <1>0, <2>8, <4>1 DEF WalkInv
        <4>3. CASE mutex[x] = t
          BY <2>3, <4>1, <4>2, <4>3
        <4>4. CASE mutex[x] # t
          BY <2>1, <4>1, <4>2, <4>4
        <4> QED
          BY <4>3, <4>4
      <3> QED
        BY <3>1, <3>2
    <2> QED
      BY <2>6, <2>7, <2>8 DEF WalkInv
  <1>2. ASSUME NEW t \in Threads, NEW s \in Subjects, NEW w \in Watchers, Register(t, s, w)
        PROVE  WalkInv'
    <2>1. UNCHANGED <<mutex, stack, list>>
      BY <1>2 DEF Register, Goto, Atomically
    <2>2. \A u \in Threads :
            /\ pc'[u] \in {"iterate", "forward"} <=> pc[u] \in {"iterate", "forward"}
            /\ pc'[u] = "forward" => pc[u] = "forward"
      BY <1>0, <1>2 DEF Register, Goto, Atomically
    <2> QED
      BY <2>1, <2>2, WalkKept
  <1>3. ASSUME NEW t \in Threads, NEW s \in Subjects, NEW w \in Watchers, Unregister(t, s, w)
        PROVE  WalkInv'
    <2>1. UNCHANGED <<mutex, stack, list>>
      BY <1>3 DEF Unregister, Goto, Atomically
    <2>2. \A u \in Threads :
            /\ pc'[u] \in {"iterate", "forward"} <=> pc[u] \in {"iterate", "forward"}
            /\ pc'[u] = "forward" => pc[u] = "forward"
      BY <1>0, <1>3 DEF Unregister, Goto, Atomically
    <2> QED
      BY <2>1, <2>2, WalkKept
  <1>4. ASSUME NEW t \in Threads, Insert(t) \/ Remove(t) PROVE WalkInv'
    <2>1. pc[t] \in {"append", "remove"} /\ pc' = [pc EXCEPT ![t] = "idle"]
      BY <1>4, EditKeepsWalks
    <2>2. \A u \in Threads :
            /\ pc'[u] \in {"iterate", "forward"} <=> pc[u] \in {"iterate", "forward"}
            /\ pc'[u] = "forward" => pc[u] = "forward"
      BY <1>0, <2>1
    <2> QED
      BY <1>4, <2>2, EditKeepsWalks, WalkKept
  <1>6. ASSUME NEW t \in Threads, Send(t) PROVE WalkInv'
    <2> DEFINE w == Current(t)
               frame == [Here(t) EXCEPT !.at = @ + 1,
                           !.told = IF watcher[w] = "valid" THEN Append(@, w) ELSE @]
    <2>1. /\ pc[t] = "iterate" /\ ~ AtEnd(t)
          /\ UNCHANGED <<list, mutex>>
          /\ \A u \in Threads \ {t} : stack'[u] = stack[u]
          /\ stack'[t] # <<>> /\ Head(stack'[t]) = frame /\ frame \in Frames
          /\ DOMAIN stack'[t] = DOMAIN stack[t] /\ stack'[t][1] = frame
          /\ \A i \in DOMAIN stack[t] : i # 1 => stack'[t][i] = stack[t][i]
      BY <1>6, SendAdvances
    <2>2. pc' = [pc EXCEPT ![t] = IF watcher[w] = "valid" /\ Forward[w] # NULL
                                  THEN "forward" ELSE "iterate"]
      BY <1>6, SendAdvances
    <2>3. Here(t) \in Frames /\ 1 \in DOMAIN stack[t] /\ Here(t) = stack[t][1]
      BY <2>1, AtHere
    <2>4. frame.subject = Here(t).subject /\ frame.at = Here(t).at + 1
      BY <2>3 DEF Frames
    <2> HIDE DEF frame
    <2>5. /\ Here(t).at \in DOMAIN list[Here(t).subject] /\ Here(t).at \in Nat \ {0}
          /\ DOMAIN list[Here(t).subject] = 1..Len(list[Here(t).subject])
          /\ Len(list[Here(t).subject]) \in Nat
      BY <2>1, AtCurrent, AtHere
    <2>6. \A i \in DOMAIN stack[t] : stack'[t][i].subject = stack[t][i].subject
      BY <2>1, <2>3, <2>4
    <2>7. \A u \in Threads \ {t} : pc'[u] = pc[u]
      BY <1>0, <2>2
    <2>8. ASSUME NEW u \in Threads \ {t} PROVE Walking(u)'
      <3>1. Walking(u) /\ stack'[u] = stack[u] /\ pc'[u] = pc[u]
        BY <1>0, <2>1, <2>7 DEF WalkInv
      <3>2. Here(u)' = Here(u) /\ Running(u)' = Running(u)
        BY <2>1, <3>1 DEF Here, Running
      <3> QED
        BY <2>1, <3>1, <3>2 DEF Walking
    <2>9. Walking(t)'
      <3>1. Walking(t)
        BY <1>0 DEF WalkInv
      <3>2. pc'[t] = "iterate" \/ (pc'[t] = "forward" /\ Forward[w] # NULL)
        BY <1>0, <2>2
      <3>3. Here(t)' = frame
        BY <2>1 DEF Here
      <3>4. Running(t)' = w
        BY <2>1, <2>4, <2>5, <3>3 DEF Running, Current
      <3>5. ASSUME NEW i \in DOMAIN stack'[t]
            PROVE  stack'[t][i].at <= Len(list'[stack'[t][i].subject]) + 1
        <4>1. CASE i = 1
          <5>1. frame.at <= Len(list[frame.subject]) + 1
            BY <2>4, <2>5
          <5> QED
            BY <2>1, <4>1, <5>1
        <4>2. CASE i # 1
          BY <2>1, <3>1, <4>2 DEF Walking
        <4> QED
          BY <4>1, <4>2
      <3>6. \A i \in DOMAIN stack'[t] : mutex'[stack'[t][i].subject] = t
        BY <2>1, <2>6, <3>1 DEF Walking
      <3>7. \A i, j \in DOMAIN stack'[t] :
              stack'[t][i].subject = stack'[t][j].subject => i = j
        BY <2>1, <2>6, <3>1 DEF Walking
      <3>8. Here(t)'.at > 1
        BY <2>4, <2>5, <3>3
      <3> HIDE DEF w
      <3> QED
        BY <2>1, <3>2, <3>4, <3>5, <3>6, <3>7, <3>8 DEF Walking
    <2>10. ASSUME NEW x \in Subjects, mutex'[x] # NoThread
           PROVE  \E i \in DOMAIN stack'[mutex'[x]] : stack'[mutex'[x]][i].subject = x
      <3>1. mutex'[x] = mutex[x] /\ mutex[x] \in Threads
        BY <1>0, <2>1, <2>10 DEF TypeOK
      <3>2. PICK i \in DOMAIN stack[mutex[x]] : stack[mutex[x]][i].subject = x
        BY <1>0, <2>10, <3>1 DEF WalkInv
      <3>3. CASE mutex[x] = t
        BY <2>1, <2>6, <3>1, <3>2, <3>3
      <3>4. CASE mutex[x] # t
        BY <2>1, <3>1, <3>2, <3>4
      <3> QED
        BY <3>3, <3>4
    <2> QED
      BY <2>8, <2>9, <2>10 DEF WalkInv
  <1>7. ASSUME NEW t \in Threads, Leave(t) PROVE WalkInv'
    <2> DEFINE s == stack[t][1].subject
    <2>1. /\ mutex' = [mutex EXCEPT ![s] = NoThread] /\ list' = list
          /\ \A u \in Threads \ {t} : stack'[u] = stack[u]
          /\ 1 \in DOMAIN stack[t] /\ stack[t][1] \in Frames
          /\ DOMAIN stack'[t] \subseteq Nat \ {0}
      BY <1>7, LeavePops
    <2>2. \A i \in DOMAIN stack'[t] :
            i + 1 \in DOMAIN stack[t] /\ stack'[t][i] = stack[t][i + 1]
      BY <1>7, LeavePops
    <2>3. \A i \in DOMAIN stack[t] :
            i # 1 => i - 1 \in DOMAIN stack'[t] /\ stack'[t][i - 1] = stack[t][i]
      BY <1>7, LeavePops
    <2>4. pc' = [pc EXCEPT ![t] = IF stack'[t] = <<>> THEN "idle" ELSE "iterate"]
      BY <1>7, LeavePops
    <2>5. pc'[t] = (IF stack'[t] = <<>> THEN "idle" ELSE "iterate")
          /\ \A u \in Threads \ {t} : pc'[u] = pc[u]
      BY <1>0, <2>4
    <2>6. s \in Subjects /\ mutex[s] = t
      BY <1>0, <2>1 DEF Frames, WalkInv, Walking
    <2>7. ASSUME NEW u \in Threads \ {t} PROVE Walking(u)'
      <3>1. Walking(u) /\ stack'[u] = stack[u] /\ pc'[u] = pc[u]
        BY <1>0, <2>1, <2>5 DEF WalkInv
      <3>2. Here(u)' = Here(u) /\ Running(u)' = Running(u)
        BY <2>1, <3>1 DEF Here, Running
      <3>3. \A i \in DOMAIN stack[u] : mutex'[stack[u][i].subject] = u
        <4>1. \A i \in DOMAIN stack[u] :
                mutex[stack[u][i].subject] = u /\ stack[u][i].subject \in Subjects
          BY <1>0, <3>1, FrameTypes DEF Walking
        <4> QED
          BY <1>0, <2>1, <2>6, <4>1
      <3> QED
        BY <2>1, <3>1, <3>2, <3>3 DEF Walking
    <2>8. Walking(t)'
      <3>1. Walking(t)
        BY <1>0 DEF WalkInv
      <3>2. ASSUME NEW i \in DOMAIN stack'[t]
            PROVE  /\ mutex'[stack'[t][i].subject] = t
                   /\ stack'[t][i].at <= Len(list'[stack'[t][i].subject]) + 1
        <4>1. i + 1 \in DOMAIN stack[t] /\ i + 1 # 1 /\ stack'[t][i] = stack[t][i + 1]
          BY <2>1, <2>2
        <4>2. stack[t][i + 1].subject # s /\ stack[t][i + 1].subject \in Subjects
          BY <1>0, <2>1, <3>1, <4>1, FrameTypes DEF Walking
        <4> QED
          BY <1>0, <2>1, <3>1, <4>1, <4>2 DEF Walking
      <3>3. ASSUME NEW i \in DOMAIN stack'[t], NEW j \in DOMAIN stack'[t],
                   stack'[t][i].subject = stack'[t][j].subject
            PROVE  i = j
        <4>1. i + 1 = j + 1
          BY <2>2, <3>1, <3>3 DEF Walking
        <4> QED
          BY <2>1, <4>1
      <3>4. pc'[t] # "forward" /\ (pc'[t] = "iterate" <=> stack'[t] # <<>>)
        BY <2>5
      <3> QED
        BY <3>2, <3>3, <3>4 DEF Walking
    <2>9. ASSUME NEW x \in Subjects, mutex'[x] # NoThread
          PROVE  \E i \in DOMAIN stack'[mutex'[x]] : stack'[mutex'[x]][i].subject = x
      <3>1. x # s /\ mutex'[x] = mutex[x] /\ mutex[x] \in Threads
        BY <1>0, <2>1, <2>6, <2>9 DEF TypeOK
      <3>2. PICK i \in DOMAIN stack[mutex[x]] : stack[mutex[x]][i].subject = x
        BY <1>0, <2>9, <3>1 DEF WalkInv
      <3>3. CASE mutex[x] = t
        <4>1. i # 1
          BY <3>1, <3>2, <3>3
        <4> QED
          BY <2>3, <3>1, <3>2, <3>3, <4>1
      <3>4. CASE mutex[x] # t
        BY <2>1, <3>1, <3>2, <3>4
      <3> QED
        BY <3>3, <3>4
    <2> QED
      BY <2>7, <2>8, <2>9 DEF WalkInv
  <1>8. ASSUME NEW w \in Watchers, Invalidate(w) PROVE WalkInv'
    <2>1. UNCHANGED <<mutex, stack, list>>
      BY <1>8 DEF Invalidate
    <2>2. \A u \in Threads :
            /\ pc'[u] \in {"iterate", "forward"} <=> pc[u] \in {"iterate", "forward"}
            /\ pc'[u] = "forward" => pc[u] = "forward"
      BY <1>0, <1>8 DEF Invalidate
    <2> QED
      BY <2>1, <2>2, WalkKept
  <1>9. ASSUME NEW w \in Watchers, Delete(w) PROVE WalkInv'
    <2>1. UNCHANGED <<mutex, stack, list>>
      BY <1>9 DEF Delete
    <2>2. \A u \in Threads :
            /\ pc'[u] \in {"iterate", "forward"} <=> pc[u] \in {"iterate", "forward"}
            /\ pc'[u] = "forward" => pc[u] = "forward"
      BY <1>0, <1>9 DEF Delete
    <2> QED
      BY <2>1, <2>2, WalkKept
  <1>10. CASE UNCHANGED vars
    <2>1. UNCHANGED <<mutex, stack, list>>
      BY <1>10 DEF vars
    <2>2. \A u \in Threads :
            /\ pc'[u] \in {"iterate", "forward"} <=> pc[u] \in {"iterate", "forward"}
            /\ pc'[u] = "forward" => pc[u] = "forward"
      BY <1>0, <1>10 DEF vars
    <2> QED
      BY <2>1, <2>2, WalkKept
  <1> QED
    BY <1>1, <1>2, <1>3, <1>4, <1>6, <1>7, <1>8, <1>9, <1>10, Cases

(* Steps after which every walk has told what it had told.                 *)
LEMMA ToldKept ==
  ASSUME IInv, UNCHANGED stack,
         \A w \in Watchers : watcher'[w] = "valid" => watcher[w] = "valid",
         \A t \in Threads : \A i \in DOMAIN stack[t] :
           list'[stack[t][i].subject] = list[stack[t][i].subject]
  PROVE  ToldInv'
  <1> SUFFICES ASSUME NEW t \in Threads, NEW i \in DOMAIN stack[t]
               PROVE  /\ Told(stack[t][i])'
                      /\ "OneRegistrar" \in Rules => Distinct(stack[t][i].told)
    BY DEF ToldInv
  <1> DEFINE f == stack[t][i]
             all == list[f.subject]
  <1>1. Told(f) /\ ("OneRegistrar" \in Rules => Distinct(f.told))
    BY DEF IInv, ToldInv
  <1>2. stack'[t][i] = f /\ list'[f.subject] = all
    OBVIOUS
  <1>3. ASSUME NEW j \in 1..f.at - 1 PROVE all[j] \in Watchers
    <2>1. f \in Frames /\ f.subject \in Subjects /\ f.at \in Nat \ {0}
      BY FrameTypes DEF IInv
    <2>2. all \in Seq(Watchers) /\ f.at <= Len(all) + 1
      BY <2>1 DEF IInv, TypeOK, WalkInv, Walking
    <2>3. Len(all) \in Nat /\ DOMAIN all = 1..Len(all)
      BY <2>2, LenProperties
    <2>4. j \in 1..Len(all)
      BY <1>3, <2>1, <2>2, <2>3
    <2> QED
      BY <2>2, <2>4, ElementOfSeq
  <1>4. Told(f)'
    <2>1. \A j \in 1..f.at - 1 : watcher'[all[j]] = "valid" => watcher[all[j]] = "valid"
      BY <1>3
    <2>2. \A k \in 1..f.at - 1 :
            watcher'[all[k]] = "valid" => \E j \in DOMAIN f.told : f.told[j] = all[k]
      BY <1>1, <2>1 DEF Told
    <2>3. \A j \in DOMAIN f.told : \E k \in 1..f.at - 1 : f.told[j] = all[k]
      BY <1>1 DEF Told
    <2>4. PICK g, a : g = f /\ a = all
      OBVIOUS
    <2>5. /\ list'[g.subject] = a
          /\ \A k \in 1..g.at - 1 :
               watcher'[a[k]] = "valid" => \E j \in DOMAIN g.told : g.told[j] = a[k]
          /\ \A j \in DOMAIN g.told : \E k \in 1..g.at - 1 : g.told[j] = a[k]
      BY <1>2, <2>2, <2>3, <2>4
    <2>6. Told(g)'
      BY ONLY <2>5 DEF Told
    <2>7. stack'[t][i] = g
      BY <1>2, <2>4
    <2> QED
      BY ONLY <2>6, <2>7 DEF Told
  <1> QED
    BY <1>1, <1>4

LEMMA ToldStep == IInv /\ [Next]_vars => ToldInv'
  <1> SUFFICES ASSUME IInv, [Next]_vars PROVE ToldInv'
    OBVIOUS
  <1>0. TypeOK /\ OnceInv /\ WalkInv /\ ToldInv
    BY DEF IInv
  <1> USE DEF TypeOK
  <1>1. ASSUME NEW t \in Threads, NEW s \in Subjects, Entering(t, s)
        PROVE  ToldInv'
    <2>1. /\ UNCHANGED <<list, watcher>>
          /\ 1 \in DOMAIN stack'[t] /\ stack'[t][1] = Frame(s)
          /\ \A u \in Threads \ {t} : stack'[u] = stack[u]
      BY <1>1, EnterPushes DEF Entering
    <2>2. \A i \in DOMAIN stack'[t] :
            i # 1 => i - 1 \in DOMAIN stack[t] /\ stack'[t][i] = stack[t][i - 1]
      BY <1>1, EnterPushes DEF Entering
    <2>3. \A f : Told(f)' <=> Told(f)
      BY <2>1 DEF Told
    <2>4. Told(Frame(s)) /\ Distinct(Frame(s).told)
      BY DEF Told, Distinct, Frame
    <2>5. ASSUME NEW u \in Threads, NEW i \in DOMAIN stack'[u]
          PROVE  /\ Told(stack'[u][i])
                 /\ "OneRegistrar" \in Rules => Distinct(stack'[u][i].told)
      <3>1. CASE u # t
        BY <1>0, <2>1, <3>1 DEF ToldInv
      <3>2. CASE u = t /\ i = 1
        BY <2>1, <2>4, <3>2
      <3>3. CASE u = t /\ i # 1
        <4>1. i - 1 \in DOMAIN stack[t] /\ stack'[t][i] = stack[t][i - 1]
          BY <2>2, <2>5, <3>3
        <4> QED
          BY <1>0, <3>3, <4>1 DEF ToldInv
      <3> QED
        BY <3>1, <3>2, <3>3
    <2> QED
      BY <2>1, <2>5 DEF ToldInv, Told
  <1>2. ASSUME NEW t \in Threads, NEW s \in Subjects, NEW w \in Watchers, Register(t, s, w)
        PROVE  ToldInv'
    <2>1. UNCHANGED <<stack, list>>
      BY <1>2 DEF Register
    <2>2. \A x \in Watchers : watcher'[x] = "valid" => watcher[x] = "valid"
      BY <1>0, <1>2 DEF Register
    <2> QED
      BY <2>1, <2>2, ToldKept
  <1>3. ASSUME NEW t \in Threads, NEW s \in Subjects, NEW w \in Watchers, Unregister(t, s, w)
        PROVE  ToldInv'
    <2>1. UNCHANGED <<stack, list>>
      BY <1>3 DEF Unregister
    <2>2. \A x \in Watchers : watcher'[x] = "valid" => watcher[x] = "valid"
      BY <1>0, <1>3 DEF Unregister
    <2> QED
      BY <2>1, <2>2, ToldKept
  <1>4. ASSUME NEW t \in Threads, Insert(t) PROVE ToldInv'
    BY <1>4, EditKeepsWalks, ToldKept
  <1>5. ASSUME NEW t \in Threads, Remove(t) PROVE ToldInv'
    BY <1>5, EditKeepsWalks, ToldKept
  <1>6. ASSUME NEW t \in Threads, Send(t) PROVE ToldInv'
    <2> DEFINE w == Current(t)
               here == Here(t)
               frame == [here EXCEPT !.at = @ + 1,
                           !.told = IF watcher[w] = "valid" THEN Append(@, w) ELSE @]
               all == list[here.subject]
               old == here.told
               new == IF watcher[w] = "valid" THEN Append(old, w) ELSE old
    <2>1. /\ pc[t] = "iterate" /\ ~ AtEnd(t)
          /\ UNCHANGED <<list, watcher>>
          /\ \A u \in Threads \ {t} : stack'[u] = stack[u]
          /\ DOMAIN stack'[t] = DOMAIN stack[t] /\ stack'[t][1] = frame
          /\ \A i \in DOMAIN stack[t] : i # 1 => stack'[t][i] = stack[t][i]
      BY <1>6, SendAdvances
    <2>2. here \in Frames /\ 1 \in DOMAIN stack[t] /\ here = stack[t][1]
      BY <2>1, AtHere
    <2>3. /\ here.at \in DOMAIN all /\ here.at \in Nat \ {0} /\ w \in Watchers
          /\ DOMAIN all = 1..Len(all) /\ Len(all) \in Nat /\ w = all[here.at]
      BY <2>1, AtCurrent, AtHere DEF Current
    <2>4. frame.subject = here.subject /\ frame.at = here.at + 1 /\ frame.told = new
      BY <2>2 DEF Frames
    <2>5. old \in Seq(Watchers) /\ here.subject \in Subjects
      BY <2>2 DEF Frames
    <2>6. /\ Append(old, w) \in Seq(Watchers) /\ Len(old) \in Nat
          /\ DOMAIN old = 1..Len(old) /\ DOMAIN Append(old, w) = 1..Len(old) + 1
          /\ Append(old, w)[Len(old) + 1] = w
          /\ \A i \in 1..Len(old) : Append(old, w)[i] = old[i]
      <3> HIDE DEF old, w
      <3> QED
        BY <2>3, <2>5, Appended
    <2>7. /\ \A i \in 1..here.at - 1 :
               watcher[all[i]] = "valid" => \E j \in DOMAIN old : old[j] = all[i]
          /\ \A j \in DOMAIN old : \E i \in 1..here.at - 1 : old[j] = all[i]
          /\ "OneRegistrar" \in Rules => Distinct(old)
      <3>1. Told(stack[t][1]) /\ ("OneRegistrar" \in Rules => Distinct(stack[t][1].told))
        BY <1>0, <2>2 DEF ToldInv
      <3>2. Told(here) /\ ("OneRegistrar" \in Rules => Distinct(here.told))
        BY <2>2, <3>1
      <3> HIDE DEF here
      <3> QED
        BY <3>2 DEF Told
    <2>8. "OneRegistrar" \in Rules => \A i \in 1..here.at - 1 : all[i] # w
      <3> SUFFICES ASSUME "OneRegistrar" \in Rules, NEW i \in 1..here.at - 1
                   PROVE  all[i] # w
        OBVIOUS
      <3>1. Distinct(all)
        BY <1>0, <2>5 DEF OnceInv, OneWriter
      <3>2. i \in DOMAIN all /\ i # here.at
        <4> HIDE DEF here, all
        <4> QED
          BY <2>3
      <3> QED
        BY <2>3, <3>1, <3>2 DEF Distinct
    <2>9. Told(frame) /\ ("OneRegistrar" \in Rules => Distinct(frame.told))
      <3>1. CASE watcher[w] = "valid"
        <4> DEFINE app == Append(old, w)
        <4>1. /\ frame.subject = here.subject /\ frame.at = here.at + 1
              /\ frame.told = app
          BY <2>4, <3>1
        <4>2. \A j \in DOMAIN old : j \in DOMAIN app /\ app[j] = old[j]
          BY <2>6
        <4>3. Len(old) + 1 \in DOMAIN app /\ app[Len(old) + 1] = w
          BY <2>6
        <4>4. \A j \in DOMAIN app : j \in DOMAIN old \/ (j = Len(old) + 1 /\ j \notin DOMAIN old)
          BY <2>6
        <4> HIDE DEF app, frame, here, all, old, w
        <4>5. ASSUME NEW i \in 1..here.at, watcher[all[i]] = "valid"
              PROVE  \E j \in DOMAIN app : app[j] = all[i]
          <5>1. CASE i = here.at
            BY <2>3, <4>3, <5>1
          <5>2. CASE i # here.at
            <6>1. i \in 1..here.at - 1
              BY <2>3, <5>2
            <6>2. PICK j \in DOMAIN old : old[j] = all[i]
              BY <2>7, <4>5, <6>1
            <6> QED
              BY <4>2, <6>2
          <5> QED
            BY <5>1, <5>2
        <4>6. ASSUME NEW j \in DOMAIN app
              PROVE  \E i \in 1..here.at : app[j] = all[i]
          <5>1. CASE j \in DOMAIN old
            <6>1. PICK i \in 1..here.at - 1 : old[j] = all[i]
              BY <2>7, <5>1
            <6>2. i \in 1..here.at
              BY <2>3, <6>1
            <6> QED
              BY <4>2, <5>1, <6>1, <6>2
          <5>2. CASE j = Len(old) + 1
            <6>1. here.at \in 1..here.at /\ app[j] = all[here.at]
              BY <2>3, <4>3, <5>2
            <6> QED
              BY <6>1
          <5> QED
            BY <4>4, <5>1, <5>2
        <4>7. ASSUME "OneRegistrar" \in Rules PROVE Distinct(app)
          <5>1. \A j \in DOMAIN old : old[j] # w
            BY <2>7, <2>8, <4>7
          <5>2. Distinct(old)
            BY <2>7, <4>7
          <5> QED
            BY <4>2, <4>3, <4>4, <5>1, <5>2 DEF Distinct
        <4>8. frame.at - 1 = here.at
          BY <2>3, <4>1
        <4> QED
          BY <4>1, <4>5, <4>6, <4>7, <4>8 DEF Told, all
      <3>2. CASE watcher[w] # "valid"
        <4>1. /\ frame.subject = here.subject /\ frame.at = here.at + 1
              /\ frame.told = old
          BY <2>4, <3>2
        <4> HIDE DEF frame, here, all, old, w
        <4>2. frame.at - 1 = here.at
          BY <2>3, <4>1
        <4>3. \A i \in 1..here.at : i = here.at \/ i \in 1..here.at - 1
          BY <2>3
        <4>4. \A i \in 1..here.at :
                watcher[all[i]] = "valid" => \E j \in DOMAIN old : old[j] = all[i]
          BY <2>3, <2>7, <3>2, <4>3
        <4>5. \A j \in DOMAIN old : \E i \in 1..here.at : old[j] = all[i]
          <5>1. \A i \in 1..here.at - 1 : i \in 1..here.at
            BY <2>3
          <5> QED
            BY <2>7, <5>1
        <4> QED
          BY <2>7, <4>1, <4>2, <4>4, <4>5 DEF Told, all
      <3> QED
        BY <3>1, <3>2
    <2> HIDE DEF frame
    <2>10. ASSUME NEW u \in Threads, NEW i \in DOMAIN stack'[u]
           PROVE  /\ Told(stack'[u][i])
                  /\ "OneRegistrar" \in Rules => Distinct(stack'[u][i].told)
      <3>1. CASE u # t
        BY <1>0, <2>1, <3>1 DEF ToldInv
      <3>2. CASE u = t /\ i = 1
        BY <2>1, <2>9, <3>2
      <3>3. CASE u = t /\ i # 1
        BY <1>0, <2>1, <2>10, <3>3 DEF ToldInv
      <3> QED
        BY <3>1, <3>2, <3>3
    <2> QED
      BY <2>1, <2>10 DEF ToldInv, Told
  <1>7. ASSUME NEW t \in Threads, Leave(t) PROVE ToldInv'
    <2>1. /\ UNCHANGED <<list, watcher>>
          /\ \A u \in Threads \ {t} : stack'[u] = stack[u]
      BY <1>7, LeavePops
    <2>2. \A i \in DOMAIN stack'[t] :
            i + 1 \in DOMAIN stack[t] /\ stack'[t][i] = stack[t][i + 1]
      BY <1>7, LeavePops
    <2>3. ASSUME NEW u \in Threads, NEW i \in DOMAIN stack'[u]
          PROVE  /\ Told(stack'[u][i])
                 /\ "OneRegistrar" \in Rules => Distinct(stack'[u][i].told)
      <3>1. CASE u # t
        BY <1>0, <2>1, <3>1 DEF ToldInv
      <3>2. CASE u = t
        <4>1. i + 1 \in DOMAIN stack[t] /\ stack'[t][i] = stack[t][i + 1]
          BY <2>2, <2>3, <3>2
        <4> QED
          BY <1>0, <3>2, <4>1 DEF ToldInv
      <3> QED
        BY <3>1, <3>2
    <2> QED
      BY <2>1, <2>3 DEF ToldInv, Told
  <1>8. ASSUME NEW w \in Watchers, Invalidate(w) PROVE ToldInv'
    <2>1. UNCHANGED <<stack, list>>
      BY <1>8 DEF Invalidate
    <2>2. \A x \in Watchers : watcher'[x] = "valid" => watcher[x] = "valid"
      BY <1>0, <1>8 DEF Invalidate
    <2> QED
      BY <2>1, <2>2, ToldKept
  <1>9. ASSUME NEW w \in Watchers, Delete(w) PROVE ToldInv'
    <2>1. UNCHANGED <<stack, list>>
      BY <1>9 DEF Delete
    <2>2. \A x \in Watchers : watcher'[x] = "valid" => watcher[x] = "valid"
      BY <1>0, <1>9 DEF Delete
    <2> QED
      BY <2>1, <2>2, ToldKept
  <1>10. CASE UNCHANGED vars
    <2>1. UNCHANGED <<stack, list>>
      BY <1>10 DEF vars
    <2>2. \A x \in Watchers : watcher'[x] = "valid" => watcher[x] = "valid"
      BY <1>0, <1>10 DEF vars
    <2> QED
      BY <2>1, <2>2, ToldKept
  <1> QED
    BY <1>1, <1>2, <1>3, <1>4, <1>5, <1>6, <1>7, <1>8, <1>9, <1>10, Cases

LEMMA RemoveKeeps ==
  ASSUME IInv, NEW t \in Threads, Remove(t)
  PROVE  LET s == edit[t].subject
         IN  \A i \in DOMAIN list'[s] : \E j \in DOMAIN list[s] : list'[s][i] = list[s][j]
  <1> DEFINE s == edit[t].subject
             old == list[s]
             new == list'[s]
  <1>1. /\ Len(old) \in Nat /\ DOMAIN old = 1..Len(old)
        /\ \/ new = old
           \/ \E k \in DOMAIN old :
                /\ DOMAIN new = 1..Len(old) - 1
                /\ \A i \in DOMAIN new : new[i] = IF i < k THEN old[i] ELSE old[i + 1]
    BY RemoveShortens
  <1> HIDE DEF old, new
  <1>2. ASSUME new = old PROVE \A i \in DOMAIN new : \E j \in DOMAIN old : new[i] = old[j]
    <2> SUFFICES ASSUME NEW i \in DOMAIN new PROVE \E j \in DOMAIN old : new[i] = old[j]
      OBVIOUS
    <2>1. i \in DOMAIN old /\ new[i] = old[i]
      BY <1>2
    <2> QED
      BY <2>1
  <1>3. ASSUME NEW k \in DOMAIN old, DOMAIN new = 1..Len(old) - 1,
               \A i \in DOMAIN new : new[i] = IF i < k THEN old[i] ELSE old[i + 1]
        PROVE  \A i \in DOMAIN new : \E j \in DOMAIN old : new[i] = old[j]
    <2> SUFFICES ASSUME NEW i \in DOMAIN new PROVE \E j \in DOMAIN old : new[i] = old[j]
      OBVIOUS
    <2>1. i \in DOMAIN old /\ i + 1 \in DOMAIN old
      BY <1>1, <1>3
    <2> QED
      BY <1>3, <2>1
  <1>4. \A i \in DOMAIN new : \E j \in DOMAIN old : new[i] = old[j]
    BY <1>1, <1>2, <1>3
  <1> QED
    BY <1>4 DEF old, new

(* A list that holds a watcher once does not hold it after its removal.    *)
LEMMA RemoveTakesOut ==
  ASSUME IInv, NEW t \in Threads, Remove(t), Distinct(list[edit[t].subject])
  PROVE  \A i \in DOMAIN list'[edit[t].subject] :
           list'[edit[t].subject][i] # edit[t].watcher
  <1> DEFINE old == list[edit[t].subject]
             new == list'[edit[t].subject]
             w == edit[t].watcher
  <1>1. /\ Len(old) \in Nat /\ DOMAIN old = 1..Len(old)
        /\ \/ new = old /\ \A i \in DOMAIN old : old[i] # w
           \/ \E k \in DOMAIN old :
                /\ old[k] = w /\ DOMAIN new = 1..Len(old) - 1
                /\ \A i \in DOMAIN new : new[i] = IF i < k THEN old[i] ELSE old[i + 1]
    BY RemoveShortens
  <1>2. \A i, j \in DOMAIN old : old[i] = old[j] => i = j
    BY DEF Distinct
  <1> HIDE DEF old, new, w
  <1>3. ASSUME NEW k \in DOMAIN old, old[k] = w, DOMAIN new = 1..Len(old) - 1,
               \A i \in DOMAIN new : new[i] = IF i < k THEN old[i] ELSE old[i + 1],
               NEW i \in DOMAIN new
        PROVE  new[i] # w
    <2>1. i \in DOMAIN old /\ i + 1 \in DOMAIN old /\ k \in Nat /\ i \in Nat
      BY <1>1, <1>3
    <2>2. CASE i < k
      BY <1>2, <1>3, <2>1, <2>2
    <2>3. CASE ~ (i < k)
      BY <1>2, <1>3, <2>1, <2>3
    <2> QED
      BY <2>2, <2>3
  <1>4. \A i \in DOMAIN new : new[i] # w
    BY <1>1, <1>3
  <1> QED
    BY <1>4 DEF new, w

LEMMA LedgerStep == IInv /\ [Next]_vars => LedgerInv'
  <1> SUFFICES ASSUME IInv, [Next]_vars,
                      "OneRegistrar" \in Rules, "UnregisterFirst" \in Rules
               PROVE  Accounted'
    BY DEF LedgerInv
  <1>0. TypeOK /\ EditInv /\ Accounted /\ OneWriter
    BY DEF IInv, LedgerInv, OnceInv
  <1> USE DEF TypeOK, Accounted
  <1>1. ASSUME NEW t \in Threads, NEW s \in Subjects, Entering(t, s)
        PROVE  Accounted'
    BY <1>0, <1>1, EnterPushes DEF Entering
  <1>2. ASSUME NEW t \in Threads, NEW s \in Subjects, NEW w \in Watchers, Register(t, s, w)
        PROVE  Accounted'
    <2>1. /\ pc' = [pc EXCEPT ![t] = "append"] /\ UNCHANGED <<list, watcher>>
          /\ edit' = [edit EXCEPT ![t] = [subject |-> s, watcher |-> w]]
          /\ ledger' = [ledger EXCEPT ![w] = @ \cup {s}] /\ watcher[w] = "valid"
      BY <1>2 DEF Register, Goto
    <2>2. \A x : ledger[x] \subseteq ledger'[x]
      BY <1>0, <2>1
    <2>3. s \in ledger'[w]
      BY <1>0, <2>1
    <2>4. \A x \in Subjects : \A i \in DOMAIN list'[x] : x \in ledger'[list'[x][i]]
      BY <1>0, <2>1, <2>2
    <2>5. \A u \in Threads : pc'[u] \in {"append", "remove"} =>
                              edit'[u].subject \in ledger'[edit'[u].watcher]
      BY <1>0, <2>1, <2>2, <2>3
    <2>6. \A x \in Watchers : ledger'[x] # {} => watcher'[x] # "deleted"
      BY <1>0, <2>1
    <2> QED
      BY <2>4, <2>5, <2>6
  <1>3. ASSUME NEW t \in Threads, NEW s \in Subjects, NEW w \in Watchers, Unregister(t, s, w)
        PROVE  Accounted'
    <2>1. /\ pc' = [pc EXCEPT ![t] = "remove"] /\ UNCHANGED <<list, watcher, ledger>>
          /\ edit' = [edit EXCEPT ![t] = [subject |-> s, watcher |-> w]]
          /\ Listed(s, w)
      BY <1>3 DEF Unregister, Goto
    <2>2. s \in ledger[w]
      BY <1>0, <2>1 DEF Listed
    <2> QED
      BY <1>0, <2>1, <2>2
  <1>4. ASSUME NEW t \in Threads, Insert(t) PROVE Accounted'
    <2> DEFINE s == edit[t].subject
               w == edit[t].watcher
    <2>1. /\ s \in Subjects /\ UNCHANGED <<watcher, ledger>> /\ pc[t] = "append"
          /\ \A x \in Subjects \ {s} : list'[x] = list[x]
          /\ pc' = [pc EXCEPT ![t] = "idle"] /\ edit' = [edit EXCEPT ![t] = NoEdit]
          /\ Len(list[s]) \in Nat /\ DOMAIN list[s] = 1..Len(list[s])
          /\ DOMAIN list'[s] = 1..Len(list[s]) + 1 /\ list'[s][Len(list[s]) + 1] = w
          /\ \A i \in 1..Len(list[s]) : list'[s][i] = list[s][i]
      BY <1>4, InsertAppends
    <2>2. s \in ledger[w] /\ \A i \in DOMAIN list[s] : s \in ledger[list[s][i]]
      BY <1>0, <2>1
    <2>3. \A i \in DOMAIN list'[s] : s \in ledger[list'[s][i]]
      <3> DEFINE old == list[s]
                 new == list'[s]
                 n == Len(old)
      <3>1. /\ n \in Nat /\ DOMAIN old = 1..n /\ DOMAIN new = 1..n + 1
            /\ new[n + 1] = w /\ \A i \in 1..n : new[i] = old[i]
        BY <2>1
      <3>2. s \in ledger[w] /\ \A i \in 1..n : s \in ledger[old[i]]
        BY <2>2, <3>1
      <3> HIDE DEF s, w, old, new, n
      <3>3. ASSUME NEW i \in DOMAIN new PROVE s \in ledger[new[i]]
        <4>1. i \in 1..n \/ i = n + 1
          BY <3>1
        <4>2. CASE i \in 1..n
          <5>1. new[i] = old[i]
            BY <3>1, <4>2
          <5> QED
            BY <3>2, <4>2, <5>1
        <4>3. CASE i = n + 1
          BY <3>1, <3>2, <4>3
        <4> QED
          BY <4>1, <4>2, <4>3
      <3> QED
        BY <3>3 DEF new
    <2>4. ASSUME NEW x \in Subjects, NEW i \in DOMAIN list'[x]
          PROVE  x \in ledger[list'[x][i]]
      <3>1. CASE x = s
        BY <2>3, <2>4, <3>1
      <3>2. CASE x # s
        BY <1>0, <2>1, <2>4, <3>2
      <3> QED
        BY <3>1, <3>2
    <2>5. \A u \in Threads : pc'[u] \in {"append", "remove"} =>
                              edit'[u].subject \in ledger[edit'[u].watcher]
      BY <1>0, <2>1
    <2> QED
      BY <1>0, <2>1, <2>4, <2>5
  <1>5. ASSUME NEW t \in Threads, Remove(t) PROVE Accounted'
    <2> DEFINE s == edit[t].subject
               w == edit[t].watcher
    <2>1. /\ s \in Subjects /\ w \in Watchers /\ UNCHANGED watcher
          /\ pc[t] = "remove"
          /\ \A x \in Subjects \ {s} : list'[x] = list[x]
          /\ pc' = [pc EXCEPT ![t] = "idle"] /\ edit' = [edit EXCEPT ![t] = NoEdit]
          /\ ledger' = [ledger EXCEPT ![w] = @ \ {s}]
      BY <1>5, RemoveShortens
    <2>2. /\ \A i \in DOMAIN list'[s] : list'[s][i] # w
          /\ \A i \in DOMAIN list'[s] : \E j \in DOMAIN list[s] : list'[s][i] = list[s][j]
      BY <1>0, <1>5, <2>1, RemoveKeeps, RemoveTakesOut DEF OneWriter
    <2>3. /\ \A x \in Watchers : x # w => ledger'[x] = ledger[x]
          /\ \A x \in Subjects \ {s} : \A y \in Watchers : x \in ledger[y] => x \in ledger'[y]
          /\ \A x \in Watchers : ledger'[x] \subseteq ledger[x]
      <3> HIDE DEF s, w
      <3> QED
        BY <1>0, <2>1
    <2>4. \A x \in Subjects : \A i \in DOMAIN list[x] : list[x][i] \in Watchers
      BY <1>0, ElementOfSeq, LenProperties
    <2>5. ASSUME NEW x \in Subjects, NEW i \in DOMAIN list'[x]
          PROVE  x \in ledger'[list'[x][i]]
      <3>1. CASE x = s
        <4>1. PICK j \in DOMAIN list[s] : list'[s][i] = list[s][j]
          BY <2>2, <2>5, <3>1
        <4>2. s \in ledger[list[s][j]] /\ list[s][j] \in Watchers /\ list'[s][i] # w
          BY <1>0, <2>1, <2>2, <2>4, <2>5, <3>1
        <4> QED
          BY <2>3, <3>1, <4>1, <4>2
      <3>2. CASE x # s
        BY <1>0, <2>1, <2>3, <2>4, <2>5, <3>2
      <3> QED
        BY <3>1, <3>2
    <2>6. ASSUME NEW u \in Threads, pc'[u] \in {"append", "remove"}
          PROVE  edit'[u].subject \in ledger'[edit'[u].watcher]
      <3>1. u # t /\ pc[u] \in {"append", "remove"} /\ edit'[u] = edit[u]
        BY <1>0, <2>1, <2>6
      <3>2. edit[u].subject \in Subjects /\ edit[u].watcher \in Watchers
        BY <1>0, <3>1 DEF EditInv
      <3>3. edit[u].subject # s
        BY <1>0, <2>1, <3>1, <3>2 DEF OneWriter
      <3> QED
        BY <1>0, <2>3, <3>1, <3>2, <3>3
    <2>7. \A x \in Watchers : ledger'[x] # {} => watcher'[x] # "deleted"
      BY <1>0, <2>1, <2>3
    <2> QED
      BY <2>5, <2>6, <2>7
  <1>6. ASSUME NEW t \in Threads, Send(t) PROVE Accounted'
    <2>1. UNCHANGED <<list, watcher, edit, ledger>>
      BY <1>6, SendAdvances
    <2>2. \A u \in Threads :
            pc'[u] \in {"append", "remove"} => pc[u] \in {"append", "remove"}
      <3>1. \E x \in {"forward", "iterate"} : pc' = [pc EXCEPT ![t] = x]
        BY <1>6, SendAdvances
      <3> QED
        BY <1>0, <3>1
    <2> QED
      BY <1>0, <2>1, <2>2
  <1>7. ASSUME NEW t \in Threads, Leave(t) PROVE Accounted'
    <2>1. UNCHANGED <<list, watcher, edit, ledger>>
      BY <1>7, LeavePops
    <2>2. \A u \in Threads :
            pc'[u] \in {"append", "remove"} => pc[u] \in {"append", "remove"}
      BY <1>0, <1>7, LeavePops
    <2> QED
      BY <1>0, <2>1, <2>2
  <1>8. ASSUME NEW w \in Watchers, Invalidate(w) PROVE Accounted'
    <2>1. /\ UNCHANGED <<list, pc, edit, ledger>> /\ watcher[w] = "valid"
          /\ watcher' = [watcher EXCEPT ![w] = "invalid"]
      BY <1>8 DEF Invalidate
    <2> QED
      BY <1>0, <2>1
  <1>9. ASSUME NEW w \in Watchers, Delete(w) PROVE Accounted'
    <2>1. /\ UNCHANGED <<list, pc, edit, ledger>> /\ ledger[w] = {}
          /\ watcher' = [watcher EXCEPT ![w] = "deleted"]
      BY <1>9 DEF Delete
    <2> QED
      BY <1>0, <2>1
  <1>10. CASE UNCHANGED vars
    BY <1>0, <1>10 DEF vars
  <1> QED
    BY <1>1, <1>2, <1>3, <1>4, <1>5, <1>6, <1>7, <1>8, <1>9, <1>10, Cases

(* A handler notifies a subject below those its thread is notifying.       *)
LEMMA ForwardsBelow ==
  ASSUME IInv, "Ordered" \in Rules, NEW t \in Threads, pc[t] = "forward",
         NEW i \in DOMAIN stack[t]
  PROVE  Level[Forward[Running(t)]] < Level[stack[t][i].subject]
  <1>1. /\ Here(t).at - 1 \in DOMAIN list[Here(t).subject]
        /\ Running(t) \in Watchers /\ Forward[Running(t)] \in Subjects
    BY AtRunning
  <1>2. 1 \in DOMAIN stack[t] /\ Here(t) = stack[t][1]
    BY AtHere
  <1>3. TypeOK /\ AllDownwards
    BY DEF IInv, OrderInv
  <1>4. Here(t).subject \in Subjects
    BY <1>2, <1>3, FrameTypes
  <1>5. Level[Forward[Running(t)]] < Level[Here(t).subject]
    BY <1>1, <1>3, <1>4 DEF AllDownwards, Downwards, Running
  <1>6. i = 1 \/ 1 < i
    BY <1>3, FrameTypes
  <1>7. stack[t][i].subject \in Subjects
    BY <1>3, FrameTypes
  <1>8. i # 1 => Level[Here(t).subject] < Level[stack[t][i].subject]
    BY <1>2, <1>3, <1>6 DEF AllDownwards
  <1> QED
    BY <1>1, <1>2, <1>4, <1>5, <1>7, <1>8

LEMMA EnteredBelow ==
  ASSUME IInv, "Ordered" \in Rules, NEW t \in Threads, NEW s \in Subjects, Entering(t, s),
         NEW i \in DOMAIN stack[t]
  PROVE  Level[s] < Level[stack[t][i].subject]
  <1>1. CASE pc[t] = "forward"
    BY <1>1, ForwardsBelow DEF Entering
  <1>2. CASE pc[t] = "idle"
    <2>1. stack[t] = <<>>
      BY <1>2 DEF IInv, WalkInv, Walking
    <2> QED
      BY <2>1
  <1> QED
    BY <1>1, <1>2 DEF Entering

LEMMA OrderStep == IInv /\ [Next]_vars => OrderInv'
  <1> SUFFICES ASSUME IInv, [Next]_vars PROVE OrderInv'
    OBVIOUS
  <1> SUFFICES ASSUME "Ordered" \in Rules PROVE AllDownwards'
    BY DEF OrderInv
  <1>0. TypeOK /\ EditInv /\ AllDownwards
    BY DEF IInv, OrderInv
  <1> USE DEF TypeOK, AllDownwards
  <1>1. ASSUME NEW t \in Threads, NEW s \in Subjects, Entering(t, s)
        PROVE  AllDownwards'
    <2>1. /\ UNCHANGED <<list, edit>>
          /\ 1 \in DOMAIN stack'[t] /\ stack'[t][1] = Frame(s)
          /\ \A u \in Threads \ {t} : stack'[u] = stack[u]
          /\ DOMAIN stack'[t] \subseteq Nat \ {0}
      BY <1>1, EnterPushes DEF Entering
    <2>2. \A u \in Threads :
            pc'[u] \in {"append", "remove"} => pc[u] \in {"append", "remove"}
      BY <1>0, <1>1 DEF Entering
    <2>3. \A i \in DOMAIN stack'[t] :
            i # 1 => i - 1 \in DOMAIN stack[t] /\ stack'[t][i] = stack[t][i - 1]
      BY <1>1, EnterPushes DEF Entering
    <2>4. \A i \in DOMAIN stack[t] : Level[s] < Level[stack[t][i].subject]
      BY <1>0, <1>1, EnteredBelow DEF Entering
    <2>5. ASSUME NEW u \in Threads, NEW i \in DOMAIN stack'[u], NEW j \in DOMAIN stack'[u], i < j
          PROVE  Level[stack'[u][i].subject] < Level[stack'[u][j].subject]
      <3>1. CASE u = t
        <4>1. j # 1 /\ j - 1 \in DOMAIN stack[t] /\ stack'[t][j] = stack[t][j - 1]
          BY <2>1, <2>3, <2>5, <3>1
        <4>2. CASE i = 1
          BY <2>1, <2>4, <3>1, <4>1, <4>2 DEF Frame
        <4>3. CASE i # 1
          <5>1. i - 1 < j - 1 /\ i - 1 \in DOMAIN stack[t] /\ stack'[t][i] = stack[t][i - 1]
            BY <2>1, <2>3, <2>5, <3>1, <4>3
          <5> QED
            BY <1>0, <3>1, <4>1, <5>1
        <4> QED
          BY <4>2, <4>3
      <3>2. CASE u # t
        BY <1>0, <2>1, <2>5, <3>2
      <3> QED
        BY <3>1, <3>2
    <2> QED
      BY <1>0, <2>1, <2>2, <2>5
  <1>2. ASSUME NEW t \in Threads, NEW s \in Subjects, NEW w \in Watchers, Register(t, s, w)
        PROVE  AllDownwards'
    <2>1. UNCHANGED <<list, stack>> /\ Downwards(s, w)
          /\ \E x \in {"append", "remove"} : pc' = [pc EXCEPT ![t] = x]
          /\ edit' = [edit EXCEPT ![t] = [subject |-> s, watcher |-> w]]
      BY <1>2 DEF Register, Goto, Atomically, MayEdit, Downwards
    <2>2. edit'[t].subject = s /\ edit'[t].watcher = w
      BY <1>0, <2>1
    <2>3. \A u \in Threads \ {t} : edit'[u] = edit[u] /\ pc'[u] = pc[u]
      BY <1>0, <2>1
    <2>4. ASSUME NEW u \in Threads, pc'[u] \in {"append", "remove"}
          PROVE  Downwards(edit'[u].subject, edit'[u].watcher)
      BY <1>0, <2>1, <2>2, <2>3, <2>4
    <2> QED
      BY <1>0, <2>1, <2>4
  <1>3. ASSUME NEW t \in Threads, NEW s \in Subjects, NEW w \in Watchers, Unregister(t, s, w)
        PROVE  AllDownwards'
    <2>1. UNCHANGED <<list, stack>> /\ Downwards(s, w)
          /\ \E x \in {"append", "remove"} : pc' = [pc EXCEPT ![t] = x]
          /\ edit' = [edit EXCEPT ![t] = [subject |-> s, watcher |-> w]]
      BY <1>3 DEF Unregister, Goto, Atomically, MayEdit, Downwards
    <2>2. edit'[t].subject = s /\ edit'[t].watcher = w
      BY <1>0, <2>1
    <2>3. \A u \in Threads \ {t} : edit'[u] = edit[u] /\ pc'[u] = pc[u]
      BY <1>0, <2>1
    <2>4. ASSUME NEW u \in Threads, pc'[u] \in {"append", "remove"}
          PROVE  Downwards(edit'[u].subject, edit'[u].watcher)
      BY <1>0, <2>1, <2>2, <2>3, <2>4
    <2> QED
      BY <1>0, <2>1, <2>4
  <1>4. ASSUME NEW t \in Threads, Insert(t) PROVE AllDownwards'
    <2> DEFINE s == edit[t].subject
    <2>1. /\ s \in Subjects /\ UNCHANGED stack
          /\ \A x \in Subjects \ {s} : list'[x] = list[x]
          /\ pc' = [pc EXCEPT ![t] = "idle"] /\ edit' = [edit EXCEPT ![t] = NoEdit]
      BY <1>4, InsertAppends
    <2>2. \A i \in DOMAIN list'[s] : Downwards(s, list'[s][i])
      <3> DEFINE w == edit[t].watcher
      <3>1. /\ Len(list[s]) \in Nat /\ DOMAIN list[s] = 1..Len(list[s])
            /\ DOMAIN list'[s] = 1..Len(list[s]) + 1 /\ list'[s][Len(list[s]) + 1] = w
            /\ \A i \in 1..Len(list[s]) : list'[s][i] = list[s][i]
        BY <1>4, InsertAppends
      <3>2. Downwards(s, w)
        <4>1. pc[t] = "append"
          BY <1>4, InsertAppends
        <4> QED
          BY <1>0, <4>1
      <3>3. \A i \in DOMAIN list[s] : Downwards(s, list[s][i])
        BY <1>0, <2>1
      <3> HIDE DEF s, w
      <3> QED
        BY <3>1, <3>2, <3>3
    <2>3. ASSUME NEW x \in Subjects, NEW i \in DOMAIN list'[x]
          PROVE  Downwards(x, list'[x][i])
      <3>1. CASE x = s
        BY <2>2, <2>3, <3>1
      <3>2. CASE x # s
        BY <1>0, <2>1, <2>3, <3>2
      <3> QED
        BY <3>1, <3>2
    <2>4. \A u \in Threads : pc'[u] \in {"append", "remove"} =>
            Downwards(edit'[u].subject, edit'[u].watcher)
      BY <1>0, <2>1
    <2> QED
      BY <1>0, <2>1, <2>3, <2>4
  <1>5. ASSUME NEW t \in Threads, Remove(t) PROVE AllDownwards'
    <2> DEFINE s == edit[t].subject
    <2>1. /\ s \in Subjects /\ UNCHANGED stack
          /\ \A x \in Subjects \ {s} : list'[x] = list[x]
          /\ pc' = [pc EXCEPT ![t] = "idle"] /\ edit' = [edit EXCEPT ![t] = NoEdit]
      BY <1>5, RemoveShortens
    <2>2. \A i \in DOMAIN list'[s] : Downwards(s, list'[s][i])
      <3>1. \A i \in DOMAIN list'[s] : \E j \in DOMAIN list[s] : list'[s][i] = list[s][j]
        BY <1>5, RemoveKeeps
      <3>2. \A i \in DOMAIN list[s] : Downwards(s, list[s][i])
        BY <1>0, <2>1
      <3> HIDE DEF s
      <3> QED
        BY <3>1, <3>2
    <2>3. ASSUME NEW x \in Subjects, NEW i \in DOMAIN list'[x]
          PROVE  Downwards(x, list'[x][i])
      <3>1. CASE x = s
        BY <2>2, <2>3, <3>1
      <3>2. CASE x # s
        BY <1>0, <2>1, <2>3, <3>2
      <3> QED
        BY <3>1, <3>2
    <2>4. \A u \in Threads : pc'[u] \in {"append", "remove"} =>
            Downwards(edit'[u].subject, edit'[u].watcher)
      BY <1>0, <2>1
    <2> QED
      BY <1>0, <2>1, <2>3, <2>4
  <1>6. ASSUME NEW t \in Threads, Send(t) PROVE AllDownwards'
    <2>1. /\ UNCHANGED <<list, edit>>
          /\ \A u \in Threads \ {t} : stack'[u] = stack[u]
          /\ DOMAIN stack'[t] = DOMAIN stack[t]
      BY <1>6, SendAdvances
    <2>2. \A u \in Threads :
            pc'[u] \in {"append", "remove"} => pc[u] \in {"append", "remove"}
      <3>1. \E x \in {"forward", "iterate"} : pc' = [pc EXCEPT ![t] = x]
        BY <1>6, SendAdvances
      <3> QED
        BY <1>0, <3>1
    <2>3. \A i \in DOMAIN stack[t] : stack'[t][i].subject = stack[t][i].subject
      <3> DEFINE frame == [Here(t) EXCEPT !.at = @ + 1,
                            !.told = IF watcher[Current(t)] = "valid"
                                     THEN Append(@, Current(t)) ELSE @]
      <3>1. /\ pc[t] = "iterate" /\ stack'[t][1] = frame
            /\ \A i \in DOMAIN stack[t] : i # 1 => stack'[t][i] = stack[t][i]
        BY <1>6, SendAdvances
      <3>2. Here(t) \in Frames /\ Here(t) = stack[t][1]
        BY <3>1, AtHere
      <3>3. frame.subject = Here(t).subject
        BY <3>2 DEF Frames
      <3> HIDE DEF frame
      <3> QED
        BY <3>1, <3>2, <3>3
    <2>4. ASSUME NEW u \in Threads, NEW i \in DOMAIN stack'[u], NEW j \in DOMAIN stack'[u], i < j
          PROVE  Level[stack'[u][i].subject] < Level[stack'[u][j].subject]
      <3>1. CASE u = t
        BY <1>0, <2>1, <2>3, <2>4, <3>1
      <3>2. CASE u # t
        BY <1>0, <2>1, <2>4, <3>2
      <3> QED
        BY <3>1, <3>2
    <2> QED
      BY <1>0, <2>1, <2>2, <2>4
  <1>7. ASSUME NEW t \in Threads, Leave(t) PROVE AllDownwards'
    <2>1. /\ UNCHANGED <<list, edit>>
          /\ \A u \in Threads \ {t} : stack'[u] = stack[u]
          /\ DOMAIN stack'[t] \subseteq Nat \ {0}
      BY <1>7, LeavePops
    <2>2. \A u \in Threads :
            pc'[u] \in {"append", "remove"} => pc[u] \in {"append", "remove"}
      BY <1>0, <1>7, LeavePops
    <2>3. \A i \in DOMAIN stack'[t] :
            i + 1 \in DOMAIN stack[t] /\ stack'[t][i] = stack[t][i + 1]
      BY <1>7, LeavePops
    <2>4. ASSUME NEW u \in Threads, NEW i \in DOMAIN stack'[u], NEW j \in DOMAIN stack'[u], i < j
          PROVE  Level[stack'[u][i].subject] < Level[stack'[u][j].subject]
      <3>1. CASE u = t
        <4>1. i + 1 < j + 1
          BY <2>1, <2>4, <3>1
        <4> QED
          BY <1>0, <2>3, <2>4, <3>1, <4>1
      <3>2. CASE u # t
        BY <1>0, <2>1, <2>4, <3>2
      <3> QED
        BY <3>1, <3>2
    <2> QED
      BY <1>0, <2>1, <2>2, <2>4
  <1>8. ASSUME NEW w \in Watchers, Invalidate(w) PROVE AllDownwards'
    <2>1. UNCHANGED <<list, stack>>
      BY <1>8 DEF Invalidate
    <2>2. \A u \in Threads :
            pc'[u] \in {"append", "remove"} => Downwards(edit'[u].subject, edit'[u].watcher)
      BY <1>0, <1>8 DEF Invalidate
    <2> QED
      BY <1>0, <2>1, <2>2
  <1>9. ASSUME NEW w \in Watchers, Delete(w) PROVE AllDownwards'
    <2>1. UNCHANGED <<list, stack>>
      BY <1>9 DEF Delete
    <2>2. \A u \in Threads :
            pc'[u] \in {"append", "remove"} => Downwards(edit'[u].subject, edit'[u].watcher)
      BY <1>0, <1>9 DEF Delete
    <2> QED
      BY <1>0, <2>1, <2>2
  <1>10. CASE UNCHANGED vars
    <2>1. UNCHANGED <<list, stack>>
      BY <1>10 DEF vars
    <2>2. \A u \in Threads :
            pc'[u] \in {"append", "remove"} => Downwards(edit'[u].subject, edit'[u].watcher)
      BY <1>0, <1>10 DEF vars
    <2> QED
      BY <1>0, <2>1, <2>2
  <1> QED
    BY <1>1, <1>2, <1>3, <1>4, <1>5, <1>6, <1>7, <1>8, <1>9, <1>10, Cases

-----------------------------------------------------------------------------
LEMMA IInit == Init => IInv
  <1> SUFFICES ASSUME Init PROVE IInv
    OBVIOUS
  <1> USE DEF Init
  <1>1. <<>> \in Seq(Watchers) /\ <<>> \in Seq(Frames) /\ DOMAIN <<>> = {}
    OBVIOUS
  <1>2. TypeOK
    BY <1>1 DEF TypeOK, NoEdit
  <1>3. EditInv /\ OnceInv
    BY <1>1 DEF EditInv, OnceInv, OneWriter, NoEdit, Distinct
  <1>4. WalkInv /\ ToldInv
    BY <1>1 DEF WalkInv, Walking, ToldInv
  <1>5. LedgerInv /\ OrderInv
    BY <1>1 DEF LedgerInv, Accounted, OrderInv, AllDownwards
  <1> QED
    BY <1>2, <1>3, <1>4, <1>5 DEF IInv

LEMMA Invariance == Spec => []IInv
  <1>1. IInv /\ [Next]_vars => IInv'
    BY TypeStep, EditStep, OnceStep, WalkStep, ToldStep, LedgerStep, OrderStep DEF IInv
  <1> QED
    BY IInit, <1>1, PTL DEF Spec

(* TTObject.cpp:345-392, TTList.cpp.  When one thread at a time changes a  *)
(* list, appendUnique leaves no watcher twice in it, although it looks and *)
(* appends in two critical sections and other threads iterate in between.  *)
THEOREM RegisteredOnceHolds == "OneRegistrar" \in Rules => (Spec => []RegisteredOnce)
  <1> SUFFICES ASSUME "OneRegistrar" \in Rules PROVE Spec => []RegisteredOnce
    OBVIOUS
  <1>1. IInv => RegisteredOnce
    BY DEF IInv, OnceInv, OneWriter, Distinct, RegisteredOnce
  <1> QED
    BY <1>1, Invariance, PTL

(* TTList.cpp:212-232.  Under the same rule a notification tells every     *)
(* watcher that is valid when it ends, and none of them twice, whatever    *)
(* other threads register, unregister or free during it.                   *)
THEOREM EveryWatcherToldHolds == "OneRegistrar" \in Rules => (Spec => []EveryWatcherTold)
  <1> SUFFICES ASSUME "OneRegistrar" \in Rules PROVE Spec => []EveryWatcherTold
    OBVIOUS
  <1>1. ASSUME IInv PROVE EveryWatcherTold
    <2> SUFFICES ASSUME NEW t \in Threads, pc[t] = "iterate", AtEnd(t)
                 PROVE  LET told == Here(t).told
                            all == list[Here(t).subject]
                        IN  /\ \A i \in DOMAIN all :
                                 watcher[all[i]] = "valid" =>
                                   \E j \in DOMAIN told : told[j] = all[i]
                            /\ \A i, j \in DOMAIN told : told[i] = told[j] => i = j
      BY DEF EveryWatcherTold
    <2> DEFINE here == Here(t)
               all == list[here.subject]
    <2>1. /\ 1 \in DOMAIN stack[t] /\ here = stack[t][1]
          /\ here.at \in 1..Len(all) + 1 /\ DOMAIN all = 1..Len(all) /\ Len(all) \in Nat
      BY <1>1, AtHere
    <2>2. Told(stack[t][1]) /\ Distinct(stack[t][1].told)
      BY <1>1, <2>1 DEF IInv, ToldInv
    <2>3. Told(here) /\ Distinct(here.told)
      BY <2>1, <2>2
    <2>4. here.at > Len(all)
      BY DEF AtEnd
    <2> HIDE DEF here
    <2>5. \A i \in DOMAIN all : i \in 1..here.at - 1
      BY <2>1, <2>4
    <2>6. \A i \in DOMAIN all :
            watcher[all[i]] = "valid" => \E j \in DOMAIN here.told : here.told[j] = all[i]
      BY <2>3, <2>5 DEF Told
    <2>7. \A i, j \in DOMAIN here.told : here.told[i] = here.told[j] => i = j
      BY <2>3 DEF Distinct
    <2> QED
      BY <2>6, <2>7 DEF here
  <1> QED
    BY <1>1, Invariance, PTL

(* TTObject.cpp:357-391, TTList.cpp:105-154, 220-232.  When one thread at a*)
(* time changes a list and the owner of a watcher takes its registrations  *)
(* back before the memory goes, no iteration, nested or not, of any thread,*)
(* ever reads through a pointer to memory that is gone.  The rules speak of*)
(* the calls the owner makes; that a call that returns leaves no entry of  *)
(* the watcher behind is the code's part.                                  *)
THEOREM NeverReachesDeletedHolds ==
    "OneRegistrar" \in Rules /\ "UnregisterFirst" \in Rules =>
      (Spec => []NeverReachesDeleted)
  <1> SUFFICES ASSUME "OneRegistrar" \in Rules, "UnregisterFirst" \in Rules
               PROVE  Spec => []NeverReachesDeleted
    OBVIOUS
  <1>1. ASSUME IInv PROVE NeverReachesDeleted
    <2> SUFFICES ASSUME NEW t \in Threads, pc[t] = "iterate", ~ AtEnd(t)
                 PROVE  watcher[Current(t)] # "deleted"
      BY DEF NeverReachesDeleted
    <2>1. /\ Here(t).at \in DOMAIN list[Here(t).subject] /\ Here(t) \in Frames
          /\ Current(t) \in Watchers
      BY <1>1, AtCurrent, AtHere
    <2>2. Here(t).subject \in ledger[Current(t)]
      BY <1>1, <2>1 DEF IInv, LedgerInv, Accounted, Current, Frames
    <2> QED
      BY <1>1, <2>1, <2>2 DEF IInv, LedgerInv, Accounted
  <1> QED
    BY <1>1, Invariance, PTL

(* TTList.cpp:212-219.  The iteration keeps the mutex of its list while the*)
(* handlers run, and they lock further ones.  When handlers notify only    *)
(* downwards, the threads that hold mutexes never all wait for each other: *)
(* the one with the lowest list can always go on.                          *)
THEOREM NoStandstillHolds == "Ordered" \in Rules => (Spec => []NoStandstill)
  <1> SUFFICES ASSUME "Ordered" \in Rules PROVE Spec => []NoStandstill
    OBVIOUS
  <1>1. ASSUME IInv PROVE NoStandstill
    <2> DEFINE held == {s \in Subjects : mutex[s] # NoThread}
               levels == {Level[s] : s \in held}
    <2> SUFFICES ASSUME held # {} PROVE \E s \in held : CanGoOn(mutex[s])
      BY DEF NoStandstill
    <2>1. \E n \in levels : \A m \in levels : n <= m
      <3>1. levels \in SUBSET Nat /\ levels # {}
        OBVIOUS
      <3> HIDE DEF levels
      <3> QED
        BY <3>1, Least
    <2>2. PICK s \in held : \A x \in held : Level[s] <= Level[x]
      BY <2>1
    <2> DEFINE t == mutex[s]
    <2>3. t \in Threads /\ \E i \in DOMAIN stack[t] : stack[t][i].subject = s
      BY <1>1, <2>2 DEF IInv, TypeOK, WalkInv
    <2> HIDE DEF t
    <2>4. PICK i \in DOMAIN stack[t] : stack[t][i].subject = s
      BY <2>3
    <2>5. stack[t] # <<>>
      BY <2>4
    <2>6. pc[t] \in {"iterate", "forward"}
      BY <1>1, <2>3, <2>5 DEF IInv, WalkInv, Walking
    <2>7. CASE pc[t] = "forward"
      <3>1. Forward[Running(t)] \in Subjects
        BY <1>1, <2>3, <2>7, AtRunning
      <3>2. Level[Forward[Running(t)]] < Level[s]
        BY <1>1, <2>3, <2>4, <2>7, ForwardsBelow
      <3>3. Forward[Running(t)] \notin held
        BY <2>2, <3>1, <3>2
      <3> QED
        BY <2>2, <2>7, <3>1, <3>3 DEF CanGoOn, t
    <2> QED
      BY <2>2, <2>6, <2>7 DEF CanGoOn, t
  <1> QED
    BY <1>1, Invariance, PTL

=============================================================================

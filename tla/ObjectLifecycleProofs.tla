------------------------ MODULE ObjectLifecycleProofs ------------------------
(***************************************************************************)
(* For any threads, any objects and any widths of the counters: when the   *)
(* callers keep the rules, no step touches an object that is gone, and     *)
(* both counters of every object balance.                                  *)
(***************************************************************************)
EXTENDS ObjectLifecycle, FiniteSetTheorems, TLAPS

USE LifecycleAssumption

-----------------------------------------------------------------------------
(* Unsigned counters of width limit: what a load, ++ or -- and a store do. *)
LEMMA Quotient ==
  ASSUME NEW limit \in Nat \ {0}, NEW q \in Int, NEW r \in 0..limit - 1,
         NEW n \in Int, n = limit * q + r
  PROVE  n % limit = r
  <1> DEFINE p == n \div limit
             s == n % limit
  <1>1. n = limit * p + s /\ p \in Int /\ s \in 0..limit - 1
    OBVIOUS
  <1> HIDE DEF p, s
  <1>2. limit * p + s = limit * q + r /\ limit * p \in Int /\ limit * q \in Int
    BY <1>1
  <1>3. CASE p > q
    <2>1. limit * p >= limit * (q + 1) /\ limit * (q + 1) = limit * q + limit
      BY <1>1, <1>3
    <2> QED
      BY <2>1, <1>1, <1>2
  <1>4. CASE p < q
    <2>1. limit * q >= limit * (p + 1) /\ limit * (p + 1) = limit * p + limit
      BY <1>1, <1>4
    <2> QED
      BY <2>1, <1>1, <1>2
  <1>5. CASE p = q
    BY <1>1, <1>2, <1>5 DEF s
  <1> QED
    BY <1>1, <1>3, <1>4, <1>5

LEMMA CountUp ==
  ASSUME NEW limit \in Nat \ {0}, NEW n \in Nat
  PROVE  ((n % limit) + 1) % limit = (n + 1) % limit
  <1> DEFINE p == n \div limit
             s == n % limit
  <1>1. n = limit * p + s /\ p \in Int /\ s \in 0..limit - 1
    OBVIOUS
  <1> HIDE DEF p, s
  <1>2. limit * p \in Int /\ limit * (p + 1) = limit * p + limit
    BY <1>1
  <1>3. CASE s + 1 < limit
    <2>1. n + 1 = limit * p + (s + 1) /\ s + 1 \in 0..limit - 1
      BY <1>1, <1>2, <1>3
    <2>2. (n + 1) % limit = s + 1
      BY <2>1, <1>1, Quotient
    <2>3. (s + 1) % limit = s + 1
      BY <2>1
    <2> QED
      BY <2>2, <2>3 DEF s
  <1>4. CASE s + 1 = limit
    <2>1. n + 1 = limit * (p + 1) + 0 /\ 0 \in 0..limit - 1
      BY <1>1, <1>2, <1>4
    <2>2. (n + 1) % limit = 0
      BY <2>1, <1>1, Quotient
    <2>3. limit = limit * 1 + 0
      OBVIOUS
    <2>4. limit % limit = 0
      BY <2>1, <2>3, Quotient
    <2> QED
      BY <2>2, <2>4, <1>4 DEF s
  <1> QED
    BY <1>1, <1>3, <1>4

LEMMA CountDown ==
  ASSUME NEW limit \in Nat \ {0}, NEW n \in Nat \ {0}
  PROVE  Less1(n % limit, limit) = (n - 1) % limit
  <1> DEFINE p == n \div limit
             s == n % limit
  <1>1. n = limit * p + s /\ p \in Int /\ s \in 0..limit - 1
    OBVIOUS
  <1> HIDE DEF p, s
  <1>2. limit * p \in Int /\ limit * (p - 1) = limit * p - limit
    BY <1>1
  <1>3. CASE s > 0
    <2>1. n - 1 = limit * p + (s - 1) /\ s - 1 \in 0..limit - 1
      BY <1>1, <1>2, <1>3
    <2>2. (n - 1) % limit = s - 1
      BY <2>1, <1>1, Quotient
    <2>3. s + limit - 1 = limit * 1 + (s - 1)
      BY <1>1
    <2>4. (s + limit - 1) % limit = s - 1
      BY <2>1, <2>3, <1>1, Quotient
    <2> QED
      BY <2>2, <2>4 DEF s, Less1
  <1>4. CASE s = 0
    <2>1. n - 1 = limit * (p - 1) + (limit - 1) /\ limit - 1 \in 0..limit - 1
      BY <1>1, <1>2, <1>4
    <2>2. (n - 1) % limit = limit - 1
      BY <2>1, <1>1, Quotient
    <2>3. (s + limit - 1) % limit = limit - 1
      BY <1>4
    <2> QED
      BY <2>2, <2>3 DEF s, Less1
  <1> QED
    BY <1>1, <1>3, <1>4

-----------------------------------------------------------------------------
(* The callers keep every rule.                                            *)
Disciplined == Rules = CallerRules

InRelease == {"release", "spin", "drop", "dropping", "test"}

(* The environment is entered by one thread at a time.                     *)
AloneInv ==
  \A t, u \in Threads : pc[t] \in InEnvironment /\ pc[u] \in InEnvironment => t = u

(* What a thread in a call points at, and what it has loaded.  A release   *)
(* inside createInstance is of an object the thread points at no more.     *)
PlaceInv ==
  \A t \in Threads :
    /\ pc[t] \in InProcessing => target[t] \in Objects /\ ptr[t] = target[t]
    /\ pc[t] = "referring" =>
         /\ target[t] \in Objects /\ ptr[t] = target[t]
         /\ reg[t] = refs[target[t]] /\ spare[target[t]] < MaxSpare
    /\ pc[t] = "publish" => ptr[t] \in Objects /\ fresh[t]
    /\ pc[t] \in InRelease =>
         /\ target[t] \in Objects /\ ptr[t] \in Objects
         /\ fresh[t] <=> ptr[t] # target[t]
    /\ pc[t] = "dropping" => reg[t] = refs[target[t]]
    /\ fresh[t] => pc[t] \in InRelease \cup {"publish"}

DepthInv ==
  \A t \in Threads :
    /\ pc[t] \notin InProcessing => depth[t] = 0
    /\ pc[t] = "locking" => depth[t] < MaxNesting
    /\ pc[t] \in {"processing", "unlocking"} => depth[t] > 0

(* An object is processed by one thread, and its lock has the depth of its *)
(* nesting, as far as eight bits hold it.                                  *)
LockInv ==
  /\ \A t, u \in Threads :
       pc[t] \in InProcessing /\ pc[u] \in InProcessing /\ target[t] = target[u] => t = u
  /\ \A t \in Threads :
       /\ pc[t] \in InProcessing => locked[target[t]] = depth[t] % LockLimit
       /\ pc[t] \in {"locking", "unlocking"} => reg[t] = locked[target[t]]
  /\ \A o \in Objects : ~ Processing(o) => locked[o] = 0

(* The threads whose reference is in the count of an object: those that    *)
(* point at it and those that release it, until they have counted down.    *)
Counts(t, o) ==
  IF pc[t] = "test" THEN ptr[t] = o /\ fresh[t]
  ELSE ptr[t] = o \/ (pc[t] \in InRelease /\ target[t] = o)

Counted(o) == {t \in Threads : Counts(t, o)}

Owned(o) ==
  IF heap[o] = "live"
  THEN /\ refs[o] = Cardinality(Counted(o)) + spare[o]
       /\ refs[o] = 0 => \E t \in Threads : pc[t] = "test" /\ target[t] = o
  ELSE Counted(o) = {} /\ spare[o] = 0

OwnerInv ==
  /\ \A o \in Objects : Owned(o)
  /\ \A t \in Threads : pc[t] = "test" => heap[target[t]] = "live"

IInv == TypeOK /\ AloneInv /\ PlaceInv /\ DepthInv /\ LockInv /\ OwnerInv

-----------------------------------------------------------------------------
(* Where there is a thread, a count has room for its reference.            *)
LEMMA Widths ==
  /\ RefLimit \in Nat \ {0} /\ MaxSpare \in Nat
  /\ Cardinality(Threads) \in Nat /\ MaxSpare + Cardinality(Threads) < RefLimit
  /\ \A t \in Threads : RefLimit > 1
  BY FS_CardinalityType, FS_EmptySet

LEMMA Words ==
  ASSUME NEW limit \in Nat \ {0}, NEW n \in Nat
  PROVE  (n + 1) % limit \in 0..limit - 1 /\ Less1(n, limit) \in 0..limit - 1
  BY DEF Less1

LEMMA WithinUp ==
  ASSUME NEW limit \in Nat \ {0}, NEW n \in 0..limit - 2
  PROVE  (n + 1) % limit = n + 1
  OBVIOUS

LEMMA WithinDown ==
  ASSUME NEW limit \in Nat \ {0}, NEW n \in 1..limit - 1
  PROVE  Less1(n, limit) = n - 1
  <1>1. n + limit - 1 = limit * 1 + (n - 1) /\ n - 1 \in 0..limit - 1
    OBVIOUS
  <1> QED
    BY <1>1, Quotient DEF Less1

LEMMA TypeStep == IInv /\ [Next]_vars => TypeOK'
  <1> SUFFICES ASSUME IInv, [Next]_vars PROVE TypeOK'
    OBVIOUS
  <1> USE DEF TypeOK, Goto, InEnvironment, InProcessing, InRelease, objectVars
  <1>0. TypeOK /\ PlaceInv /\ DepthInv
    BY DEF IInv
  <1>1. ASSUME NEW t \in Threads, CreateInstance(t) PROVE TypeOK'
    BY <1>0, <1>1, Widths DEF CreateInstance, PlaceInv
  <1>2. ASSUME NEW t \in Threads, Publish(t) PROVE TypeOK'
    BY <1>0, <1>2, Widths DEF Publish, PlaceInv
  <1>3. ASSUME NEW t \in Threads, ReferenceLoad(t) PROVE TypeOK'
    BY <1>0, <1>3, Widths DEF ReferenceLoad, PlaceInv
  <1>4. ASSUME NEW t \in Threads, ReferenceStore(t) PROVE TypeOK'
    <2>1. (reg[t] + 1) % RefLimit \in 0..RefLimit - 1
      BY <1>0, Words, Widths
    <2> DEFINE new == (reg[t] + 1) % RefLimit
    <2> HIDE DEF new
    <2> QED
      BY <1>0, <1>4, <2>1 DEF ReferenceStore, new, PlaceInv, DepthInv
  <1>5. ASSUME NEW t \in Threads, Take(t) PROVE TypeOK'
    BY <1>0, <1>5, Widths DEF Take, PlaceInv
  <1>6. ASSUME NEW t \in Threads, Release(t) PROVE TypeOK'
    BY <1>0, <1>6, Widths DEF Release, PlaceInv
  <1>7. ASSUME NEW t \in Threads, Invalidate(t) PROVE TypeOK'
    BY <1>0, <1>7, Widths DEF Invalidate, PlaceInv
  <1>8. ASSUME NEW t \in Threads, SpinEnds(t) PROVE TypeOK'
    BY <1>0, <1>8, Widths DEF SpinEnds, PlaceInv
  <1>9. ASSUME NEW t \in Threads, DropLoad(t) PROVE TypeOK'
    BY <1>0, <1>9, Widths DEF DropLoad, PlaceInv
  <1>10. ASSUME NEW t \in Threads, DropStore(t) PROVE TypeOK'
    <2>1. Less1(reg[t], RefLimit) \in 0..RefLimit - 1
      BY <1>0, Words, Widths
    <2> DEFINE new == Less1(reg[t], RefLimit)
    <2> HIDE DEF new
    <2> QED
      BY <1>0, <1>10, <2>1 DEF DropStore, new, PlaceInv, DepthInv
  <1>11. ASSUME NEW t \in Threads, Test(t) PROVE TypeOK'
    BY <1>0, <1>11, Widths DEF Test, PlaceInv
  <1>12. ASSUME NEW t \in Threads, LockLoad(t) PROVE TypeOK'
    BY <1>0, <1>12, Widths DEF LockLoad, PlaceInv
  <1>13. ASSUME NEW t \in Threads, LockStore(t) PROVE TypeOK'
    <2>1. (reg[t] + 1) % LockLimit \in 0..LockLimit - 1
      BY <1>0, Words, Widths
    <2> DEFINE new == (reg[t] + 1) % LockLimit
    <2> HIDE DEF new
    <2> QED
      BY <1>0, <1>13, <2>1 DEF LockStore, new, PlaceInv, DepthInv
  <1>14. ASSUME NEW t \in Threads, UnlockLoad(t) PROVE TypeOK'
    BY <1>0, <1>14, Widths DEF UnlockLoad, PlaceInv
  <1>15. ASSUME NEW t \in Threads, UnlockStore(t) PROVE TypeOK'
    <2>1. Less1(reg[t], LockLimit) \in 0..LockLimit - 1
      BY <1>0, Words, Widths
    <2> DEFINE new == Less1(reg[t], LockLimit)
    <2> HIDE DEF new
    <2> QED
      BY <1>0, <1>15, <2>1 DEF UnlockStore, new, PlaceInv, DepthInv
  <1>16. CASE UNCHANGED vars
    BY <1>0, <1>16 DEF vars
  <1> QED
    BY <1>1, <1>2, <1>3, <1>4, <1>5, <1>6, <1>7, <1>8, <1>9, <1>10, <1>11, <1>12, <1>13, <1>14, <1>15, <1>16 DEF Next, Begin, Step

LEMMA AloneStep == Disciplined /\ IInv /\ [Next]_vars => AloneInv'
  <1> SUFFICES ASSUME Disciplined, IInv, [Next]_vars PROVE AloneInv'
    OBVIOUS
  <1> USE DEF TypeOK, Goto, InEnvironment, InProcessing, InRelease, objectVars, AloneInv, MayEnter, Disciplined, CallerRules
  <1>0. TypeOK /\ AloneInv
    BY DEF IInv
  <1>1. ASSUME NEW t \in Threads, CreateInstance(t) PROVE AloneInv'
    BY <1>0, <1>1 DEF CreateInstance
  <1>2. ASSUME NEW t \in Threads, Publish(t) PROVE AloneInv'
    BY <1>0, <1>2 DEF Publish
  <1>3. ASSUME NEW t \in Threads, ReferenceLoad(t) PROVE AloneInv'
    BY <1>0, <1>3 DEF ReferenceLoad
  <1>4. ASSUME NEW t \in Threads, ReferenceStore(t) PROVE AloneInv'
    BY <1>0, <1>4 DEF ReferenceStore
  <1>5. ASSUME NEW t \in Threads, Take(t) PROVE AloneInv'
    BY <1>0, <1>5 DEF Take
  <1>6. ASSUME NEW t \in Threads, Release(t) PROVE AloneInv'
    BY <1>0, <1>6 DEF Release
  <1>7. ASSUME NEW t \in Threads, Invalidate(t) PROVE AloneInv'
    BY <1>0, <1>7 DEF Invalidate
  <1>8. ASSUME NEW t \in Threads, SpinEnds(t) PROVE AloneInv'
    BY <1>0, <1>8 DEF SpinEnds
  <1>9. ASSUME NEW t \in Threads, DropLoad(t) PROVE AloneInv'
    BY <1>0, <1>9 DEF DropLoad
  <1>10. ASSUME NEW t \in Threads, DropStore(t) PROVE AloneInv'
    BY <1>0, <1>10 DEF DropStore
  <1>11. ASSUME NEW t \in Threads, Test(t) PROVE AloneInv'
    BY <1>0, <1>11 DEF Test
  <1>12. ASSUME NEW t \in Threads, LockLoad(t) PROVE AloneInv'
    BY <1>0, <1>12 DEF LockLoad
  <1>13. ASSUME NEW t \in Threads, LockStore(t) PROVE AloneInv'
    BY <1>0, <1>13 DEF LockStore
  <1>14. ASSUME NEW t \in Threads, UnlockLoad(t) PROVE AloneInv'
    BY <1>0, <1>14 DEF UnlockLoad
  <1>15. ASSUME NEW t \in Threads, UnlockStore(t) PROVE AloneInv'
    BY <1>0, <1>15 DEF UnlockStore
  <1>16. CASE UNCHANGED vars
    BY <1>0, <1>16 DEF vars
  <1> QED
    BY <1>1, <1>2, <1>3, <1>4, <1>5, <1>6, <1>7, <1>8, <1>9, <1>10, <1>11, <1>12, <1>13, <1>14, <1>15, <1>16 DEF Next, Begin, Step

LEMMA CountedIsLive ==
  ASSUME IInv, NEW t \in Threads, NEW o \in Objects, Counts(t, o)
  PROVE  heap[o] = "live"
  BY DEF IInv, OwnerInv, Owned, Counted

LEMMA PlaceStep == Disciplined /\ IInv /\ [Next]_vars => PlaceInv'
  <1> SUFFICES ASSUME Disciplined, IInv, [Next]_vars PROVE PlaceInv'
    OBVIOUS
  <1> USE DEF TypeOK, Goto, InEnvironment, InProcessing, InRelease, objectVars, PlaceInv, MayEnter, MayProcess, Disciplined, CallerRules
  <1>0. TypeOK /\ AloneInv /\ PlaceInv
    BY DEF IInv
  <1>1. ASSUME NEW t \in Threads, CreateInstance(t) PROVE PlaceInv'
    BY <1>0, <1>1, CountedIsLive DEF CreateInstance, AloneInv, Counts
  <1>2. ASSUME NEW t \in Threads, Publish(t) PROVE PlaceInv'
    BY <1>0, <1>2 DEF Publish, AloneInv
  <1>3. ASSUME NEW t \in Threads, ReferenceLoad(t) PROVE PlaceInv'
    BY <1>0, <1>3 DEF ReferenceLoad, AloneInv
  <1>4. ASSUME NEW t \in Threads, ReferenceStore(t) PROVE PlaceInv'
    BY <1>0, <1>4 DEF ReferenceStore, AloneInv
  <1>5. ASSUME NEW t \in Threads, Take(t) PROVE PlaceInv'
    BY <1>0, <1>5 DEF Take, AloneInv
  <1>6. ASSUME NEW t \in Threads, Release(t) PROVE PlaceInv'
    BY <1>0, <1>6 DEF Release, AloneInv
  <1>7. ASSUME NEW t \in Threads, Invalidate(t) PROVE PlaceInv'
    BY <1>0, <1>7 DEF Invalidate, AloneInv
  <1>8. ASSUME NEW t \in Threads, SpinEnds(t) PROVE PlaceInv'
    BY <1>0, <1>8 DEF SpinEnds, AloneInv
  <1>9. ASSUME NEW t \in Threads, DropLoad(t) PROVE PlaceInv'
    BY <1>0, <1>9 DEF DropLoad, AloneInv
  <1>10. ASSUME NEW t \in Threads, DropStore(t) PROVE PlaceInv'
    BY <1>0, <1>10 DEF DropStore, AloneInv
  <1>11. ASSUME NEW t \in Threads, Test(t) PROVE PlaceInv'
    BY <1>0, <1>11 DEF Test, AloneInv
  <1>12. ASSUME NEW t \in Threads, LockLoad(t) PROVE PlaceInv'
    BY <1>0, <1>12 DEF LockLoad, AloneInv
  <1>13. ASSUME NEW t \in Threads, LockStore(t) PROVE PlaceInv'
    BY <1>0, <1>13 DEF LockStore, AloneInv
  <1>14. ASSUME NEW t \in Threads, UnlockLoad(t) PROVE PlaceInv'
    BY <1>0, <1>14 DEF UnlockLoad, AloneInv
  <1>15. ASSUME NEW t \in Threads, UnlockStore(t) PROVE PlaceInv'
    BY <1>0, <1>15 DEF UnlockStore, AloneInv
  <1>16. CASE UNCHANGED vars
    BY <1>0, <1>16 DEF vars
  <1> QED
    BY <1>1, <1>2, <1>3, <1>4, <1>5, <1>6, <1>7, <1>8, <1>9, <1>10, <1>11, <1>12, <1>13, <1>14, <1>15, <1>16 DEF Next, Begin, Step

LEMMA DepthStep == IInv /\ [Next]_vars => DepthInv'
  <1> SUFFICES ASSUME IInv, [Next]_vars PROVE DepthInv'
    OBVIOUS
  <1> USE DEF TypeOK, Goto, InEnvironment, InProcessing, InRelease, objectVars, DepthInv
  <1>0. TypeOK /\ DepthInv
    BY DEF IInv
  <1>1. ASSUME NEW t \in Threads, CreateInstance(t) PROVE DepthInv'
    BY <1>0, <1>1 DEF CreateInstance
  <1>2. ASSUME NEW t \in Threads, Publish(t) PROVE DepthInv'
    BY <1>0, <1>2 DEF Publish
  <1>3. ASSUME NEW t \in Threads, ReferenceLoad(t) PROVE DepthInv'
    BY <1>0, <1>3 DEF ReferenceLoad
  <1>4. ASSUME NEW t \in Threads, ReferenceStore(t) PROVE DepthInv'
    BY <1>0, <1>4 DEF ReferenceStore
  <1>5. ASSUME NEW t \in Threads, Take(t) PROVE DepthInv'
    BY <1>0, <1>5 DEF Take
  <1>6. ASSUME NEW t \in Threads, Release(t) PROVE DepthInv'
    BY <1>0, <1>6 DEF Release
  <1>7. ASSUME NEW t \in Threads, Invalidate(t) PROVE DepthInv'
    BY <1>0, <1>7 DEF Invalidate
  <1>8. ASSUME NEW t \in Threads, SpinEnds(t) PROVE DepthInv'
    BY <1>0, <1>8 DEF SpinEnds
  <1>9. ASSUME NEW t \in Threads, DropLoad(t) PROVE DepthInv'
    BY <1>0, <1>9 DEF DropLoad
  <1>10. ASSUME NEW t \in Threads, DropStore(t) PROVE DepthInv'
    BY <1>0, <1>10 DEF DropStore
  <1>11. ASSUME NEW t \in Threads, Test(t) PROVE DepthInv'
    BY <1>0, <1>11 DEF Test
  <1>12. ASSUME NEW t \in Threads, LockLoad(t) PROVE DepthInv'
    BY <1>0, <1>12 DEF LockLoad
  <1>13. ASSUME NEW t \in Threads, LockStore(t) PROVE DepthInv'
    BY <1>0, <1>13 DEF LockStore
  <1>14. ASSUME NEW t \in Threads, UnlockLoad(t) PROVE DepthInv'
    BY <1>0, <1>14 DEF UnlockLoad
  <1>15. ASSUME NEW t \in Threads, UnlockStore(t) PROVE DepthInv'
    BY <1>0, <1>15 DEF UnlockStore
  <1>16. CASE UNCHANGED vars
    BY <1>0, <1>16 DEF vars
  <1> QED
    BY <1>1, <1>2, <1>3, <1>4, <1>5, <1>6, <1>7, <1>8, <1>9, <1>10, <1>11, <1>12, <1>13, <1>14, <1>15, <1>16 DEF Next, Begin, Step

LEMMA LockStep == Disciplined /\ IInv /\ [Next]_vars => LockInv'
  <1> SUFFICES ASSUME Disciplined, IInv, [Next]_vars PROVE LockInv'
    OBVIOUS
  <1> USE DEF TypeOK, Goto, InEnvironment, InProcessing, InRelease, objectVars, PlaceInv, DepthInv, LockInv, Processing, MayProcess, Disciplined, CallerRules
  <1>0. TypeOK /\ PlaceInv /\ DepthInv /\ LockInv
    BY DEF IInv
  <1>1. ASSUME NEW t \in Threads, CreateInstance(t) PROVE LockInv'
    <2>1. /\ pc[t] \notin InProcessing /\ pc'[t] \notin InProcessing
          /\ \A u \in Threads \ {t} : pc'[u] = pc[u] /\ target'[u] = target[u]
          /\ UNCHANGED <<locked, reg, depth>>
      BY <1>0, <1>1 DEF CreateInstance
    <2> QED
      BY <1>0, <2>1
  <1>2. ASSUME NEW t \in Threads, Publish(t) PROVE LockInv'
    BY <1>0, <1>2 DEF Publish
  <1>3. ASSUME NEW t \in Threads, ReferenceLoad(t) PROVE LockInv'
    BY <1>0, <1>3 DEF ReferenceLoad
  <1>4. ASSUME NEW t \in Threads, ReferenceStore(t) PROVE LockInv'
    BY <1>0, <1>4 DEF ReferenceStore
  <1>5. ASSUME NEW t \in Threads, Take(t) PROVE LockInv'
    BY <1>0, <1>5 DEF Take
  <1>6. ASSUME NEW t \in Threads, Release(t) PROVE LockInv'
    BY <1>0, <1>6 DEF Release
  <1>7. ASSUME NEW t \in Threads, Invalidate(t) PROVE LockInv'
    BY <1>0, <1>7 DEF Invalidate
  <1>8. ASSUME NEW t \in Threads, SpinEnds(t) PROVE LockInv'
    BY <1>0, <1>8 DEF SpinEnds
  <1>9. ASSUME NEW t \in Threads, DropLoad(t) PROVE LockInv'
    BY <1>0, <1>9 DEF DropLoad
  <1>10. ASSUME NEW t \in Threads, DropStore(t) PROVE LockInv'
    BY <1>0, <1>10 DEF DropStore
  <1>11. ASSUME NEW t \in Threads, Test(t) PROVE LockInv'
    BY <1>0, <1>11 DEF Test
  <1>12. ASSUME NEW t \in Threads, LockLoad(t) PROVE LockInv'
    <2>1. /\ pc' = [pc EXCEPT ![t] = "locking"] /\ UNCHANGED <<locked, depth>>
          /\ reg' = [reg EXCEPT ![t] = locked[target'[t]]]
      BY <1>12 DEF LockLoad
    <2>2. CASE pc[t] = "processing" /\ target' = target
      BY <1>0, <2>1, <2>2
    <2>3. ASSUME pc[t] = "idle", NEW o \in Objects, MayProcess(t, o),
                 target' = [target EXCEPT ![t] = o]
          PROVE  LockInv'
      <3>1. ~ Processing(o) /\ locked[o] = 0 /\ depth[t] = 0
        BY <1>0, <2>3
      <3>2. target'[t] = o /\ reg'[t] = locked[o]
        BY <1>0, <2>1, <2>3
      <3> QED
        BY <1>0, <2>1, <2>3, <3>1, <3>2
    <2> QED
      BY <1>12, <2>2, <2>3 DEF LockLoad
  <1>13. ASSUME NEW t \in Threads, LockStore(t) PROVE LockInv'
    <2> DEFINE new == (reg[t] + 1) % LockLimit
               old == depth[t] % LockLimit
    <2>1. new = (depth[t] + 1) % LockLimit
      BY <1>0, <1>13, CountUp DEF LockStore
    <2> DEFINE deep == (depth[t] + 1) % LockLimit
    <2>2. depth'[t] = depth[t] + 1
      BY <1>0, <1>13 DEF LockStore
    <2>3. \A u \in Threads \ {t} : depth'[u] = depth[u] /\ pc'[u] = pc[u] /\ reg'[u] = reg[u]
      BY <1>0, <1>13 DEF LockStore
    <2>4. /\ locked' = [locked EXCEPT ![target[t]] = new]
          /\ pc[t] = "locking" /\ pc' = [pc EXCEPT ![t] = "processing"]
          /\ target' = target
      BY <1>13 DEF LockStore
    <2> HIDE DEF new
    <2> QED
      BY <1>0, <2>1, <2>2, <2>3, <2>4
  <1>14. ASSUME NEW t \in Threads, UnlockLoad(t) PROVE LockInv'
    BY <1>0, <1>14 DEF UnlockLoad
  <1>15. ASSUME NEW t \in Threads, UnlockStore(t) PROVE LockInv'
    <2> DEFINE new == Less1(reg[t], LockLimit)
    <2>0. reg[t] = depth[t] % LockLimit /\ depth[t] \in Nat \ {0} /\ LockLimit \in Nat \ {0}
      BY <1>0, <1>15 DEF UnlockStore
    <2>1. new = (depth[t] - 1) % LockLimit
      BY ONLY <2>0, CountDown
    <2>2. depth'[t] = depth[t] - 1 /\ depth[t] \in Nat \ {0}
      BY <1>0, <1>15 DEF UnlockStore
    <2>3. \A u \in Threads \ {t} : depth'[u] = depth[u] /\ pc'[u] = pc[u] /\ reg'[u] = reg[u]
      BY <1>0, <1>15 DEF UnlockStore
    <2>4. /\ locked' = [locked EXCEPT ![target[t]] = new]
          /\ pc[t] = "unlocking"
          /\ pc' = [pc EXCEPT ![t] = IF depth[t] = 1 THEN "idle" ELSE "processing"]
          /\ target' = target
      BY <1>15 DEF UnlockStore
    <2>5. depth[t] = 1 => new = 0
      BY <2>1
    <2> HIDE DEF new
    <2> QED
      BY <1>0, <2>1, <2>2, <2>3, <2>4, <2>5
  <1>16. CASE UNCHANGED vars
    BY <1>0, <1>16 DEF vars
  <1> QED
    BY <1>1, <1>2, <1>3, <1>4, <1>5, <1>6, <1>7, <1>8, <1>9, <1>10, <1>11, <1>12, <1>13, <1>14, <1>15, <1>16 DEF Next, Begin, Step

-----------------------------------------------------------------------------
(* The count of an object is within its width.                             *)
LEMMA CountedFinite ==
  ASSUME NEW o
  PROVE  /\ IsFiniteSet(Counted(o)) /\ Cardinality(Counted(o)) \in Nat
         /\ Cardinality(Counted(o)) <= Cardinality(Threads)
  <1>1. Counted(o) \in SUBSET Threads
    BY DEF Counted
  <1> QED
    BY <1>1, FS_Subset, FS_CardinalityType

LEMMA OwnerStep == Disciplined /\ IInv /\ [Next]_vars => OwnerInv'
  <1> SUFFICES ASSUME Disciplined, IInv, [Next]_vars PROVE OwnerInv'
    OBVIOUS
  <1> USE DEF TypeOK, Goto, InEnvironment, InProcessing, InRelease, objectVars, PlaceInv, AloneInv,
          OwnerInv, Owned, Disciplined, CallerRules
  <1>0. TypeOK /\ AloneInv /\ PlaceInv /\ OwnerInv
    BY DEF IInv
  <1>1. ASSUME NEW t \in Threads, CreateInstance(t) PROVE OwnerInv'
    <2>1. PICK o \in Objects :
            /\ heap[o] = "free" /\ heap' = [heap EXCEPT ![o] = "live"]
            /\ refs' = [refs EXCEPT ![o] = 1] /\ ptr' = [ptr EXCEPT ![t] = o]
      BY <1>1 DEF CreateInstance
    <2> DEFINE old == ptr[t]
    <2>6. /\ pc[t] = "idle" /\ ~ fresh[t] /\ fresh'[t]
          /\ \/ pc'[t] = "publish" /\ old = NULL /\ target' = target
             \/ pc'[t] = "release" /\ target'[t] = old
      <3>1. pc[t] = "idle" /\ fresh' = [fresh EXCEPT ![t] = TRUE]
        BY <1>1 DEF CreateInstance
      <3>2. \/ old = NULL /\ target' = target /\ pc' = [pc EXCEPT ![t] = "publish"]
            \/ target' = [target EXCEPT ![t] = old] /\ pc' = [pc EXCEPT ![t] = "release"]
        BY <1>1 DEF CreateInstance
      <3> HIDE DEF old
      <3>3. /\ t \in DOMAIN pc /\ t \in DOMAIN target /\ t \in DOMAIN fresh
        BY <1>0
      <3>4. ~ fresh[t]
        BY <1>0, <3>1
      <3>5. fresh'[t]
        BY <3>1, <3>3
      <3>6. CASE old = NULL /\ target' = target /\ pc' = [pc EXCEPT ![t] = "publish"]
        <4>1. pc'[t] = "publish"
          BY <3>3, <3>6
        <4> QED
          BY <3>1, <3>4, <3>5, <3>6, <4>1
      <3>7. CASE target' = [target EXCEPT ![t] = old] /\ pc' = [pc EXCEPT ![t] = "release"]
        <4>1. pc'[t] = "release" /\ target'[t] = old
          BY <3>3, <3>7
        <4> QED
          BY <3>1, <3>4, <3>5, <4>1
      <3> QED
        BY <3>2, <3>6, <3>7
    <2>7. \A u \in Threads \ {t} : /\ pc'[u] = pc[u] /\ target'[u] = target[u]
                                  /\ ptr'[u] = ptr[u] /\ fresh'[u] = fresh[u]
      BY <1>0, <1>1, <2>1 DEF CreateInstance
    <2>8. ptr'[t] = o
      BY <1>0, <2>1
    <2>3. ASSUME NEW x \in Objects \ {o} PROVE Counted(x)' = Counted(x)
      <3>1. Counts(t, x)' <=> Counts(t, x)
        BY <2>6, <2>8 DEF Counts
      <3>2. \A u \in Threads \ {t} : Counts(u, x)' <=> Counts(u, x)
        BY <2>7 DEF Counts
      <3> QED
        BY <3>1, <3>2 DEF Counted
    <2>2. Counted(o) = {} /\ spare[o] = 0
      BY <1>0, <2>1
    <2>11. Counted(o)' = {t}
      <3>1. Counts(t, o)'
        BY <2>6, <2>8 DEF Counts
      <3>2. \A u \in Threads \ {t} : Counts(u, o)' <=> Counts(u, o)
        BY <2>7 DEF Counts
      <3>3. \A u \in Threads : ~ Counts(u, o)
        BY <2>2 DEF Counted
      <3> QED
        BY <3>1, <3>2, <3>3 DEF Counted
    <2>4. Cardinality({t}) = 1
      BY FS_Singleton
    <2>5. \A u \in Threads : pc[u] # "test" /\ pc'[u] # "test"
      BY <1>0, <1>1 DEF CreateInstance, MayEnter
    <2>9. spare' = spare /\ spare[o] = 0
      BY <1>0, <1>1, <2>1 DEF CreateInstance
    <2>10. ASSUME NEW x \in Objects PROVE Owned(x)'
      <3>1. CASE x = o
        <4>1. Counted(x)' = {t}
          BY <2>11, <3>1 DEF Counted
        <4> QED
          BY <1>0, <2>1, <2>4, <2>9, <3>1, <4>1
      <3>2. CASE x # o
        BY <1>0, <2>1, <2>3, <2>5, <2>9, <3>2
      <3> QED
        BY <3>1, <3>2
    <2> QED
      BY <2>10, <2>5
  <1>2. ASSUME NEW t \in Threads, Publish(t) PROVE OwnerInv'
    <2>1. \A x \in Objects : Counted(x)' = Counted(x)
      BY <1>0, <1>2 DEF Publish, Counted, Counts
    <2> QED
      BY <1>0, <1>2, <2>1 DEF Publish
  <1>3. ASSUME NEW t \in Threads, ReferenceLoad(t) PROVE OwnerInv'
    <2>1. \A x \in Objects : Counted(x)' = Counted(x)
      BY <1>0, <1>3 DEF ReferenceLoad, Counted, Counts
    <2> QED
      BY <1>0, <1>3, <2>1 DEF ReferenceLoad
  <1>4. ASSUME NEW t \in Threads, ReferenceStore(t) PROVE OwnerInv'
    <2> DEFINE o == target[t]
    <2>1. \A x \in Objects : Counted(x)' = Counted(x)
      BY <1>0, <1>4 DEF ReferenceStore, Counted, Counts
    <2>2. /\ pc[t] = "referring" /\ pc' = [pc EXCEPT ![t] = "idle"]
          /\ refs' = [refs EXCEPT ![o] = (reg[t] + 1) % RefLimit]
          /\ spare' = [spare EXCEPT ![o] = @ + 1]
          /\ heap' = heap /\ target' = target
      BY <1>4 DEF ReferenceStore
    <2>3. o \in Objects /\ ptr[t] = o /\ reg[t] = refs[o] /\ spare[o] < MaxSpare
      BY <1>0, <2>2
    <2>4. heap[o] = "live"
      BY <2>2, <2>3, CountedIsLive DEF Counts
    <2>5. \A u \in Threads : pc[u] # "test" /\ pc'[u] # "test"
      BY <1>0, <2>2
    <2>6. refs[o] = Cardinality(Counted(o)) + spare[o] /\ refs[o] # 0
      BY <1>0, <2>3, <2>4, <2>5
    <2>7. refs[o] \in 0..RefLimit - 2
      BY <1>0, <2>3, <2>6, CountedFinite, Widths
    <2>8. (refs[o] + 1) % RefLimit = refs[o] + 1
      BY <2>7, Widths, WithinUp
    <2> DEFINE new == (reg[t] + 1) % RefLimit
    <2>9. new = refs[o] + 1
      BY <2>3, <2>8
    <2> HIDE DEF o, new
    <2>10. ASSUME NEW x \in Objects PROVE Owned(x)'
      <3>1. CASE x = o
        BY <1>0, <2>1, <2>2, <2>3, <2>4, <2>6, <2>9, <3>1, CountedFinite DEF new
      <3>2. CASE x # o
        BY <1>0, <2>1, <2>2, <2>3, <2>5, <3>2
      <3> QED
        BY <3>1, <3>2
    <2> QED
      BY <2>10, <2>5
  <1>5. ASSUME NEW t \in Threads, Take(t) PROVE OwnerInv'
    <2>1. PICK o \in Objects :
            /\ spare[o] > 0 /\ spare' = [spare EXCEPT ![o] = @ - 1]
            /\ ptr' = [ptr EXCEPT ![t] = o]
      BY <1>5 DEF Take
    <2>2. Counted(o)' = Counted(o) \cup {t} /\ t \notin Counted(o)
      BY <1>0, <1>5, <2>1 DEF Take, Counted, Counts
    <2>3. Cardinality(Counted(o)') = Cardinality(Counted(o)) + 1
      BY <2>2, CountedFinite, FS_AddElement
    <2>4. \A x \in Objects \ {o} : Counted(x)' = Counted(x)
      BY <1>0, <1>5, <2>1 DEF Take, Counted, Counts
    <2>5. UNCHANGED <<heap, refs, pc, target>>
      BY <1>5 DEF Take
    <2>6. heap[o] = "live" /\ refs[o] = Cardinality(Counted(o)) + spare[o]
      BY <1>0, <2>1
    <2>7. spare'[o] = spare[o] - 1
      BY <1>0, <2>1
    <2>8. ASSUME NEW x \in Objects PROVE Owned(x)'
      <3>1. CASE x = o
        <4>1. refs[o] = Cardinality(Counted(o)') + spare'[o]
          BY <1>0, <2>3, <2>6, <2>7, CountedFinite
        <4> QED
          BY <1>0, <2>5, <2>6, <3>1, <4>1
      <3>2. CASE x # o
        BY <1>0, <2>1, <2>4, <2>5, <3>2
      <3> QED
        BY <3>1, <3>2
    <2> QED
      BY <1>0, <2>5, <2>8
  <1>6. ASSUME NEW t \in Threads, Release(t) PROVE OwnerInv'
    <2>1. \A x \in Objects : Counted(x)' = Counted(x)
      BY <1>0, <1>6 DEF Release, Counted, Counts
    <2> QED
      BY <1>0, <1>6, <2>1 DEF Release
  <1>7. ASSUME NEW t \in Threads, Invalidate(t) PROVE OwnerInv'
    <2>1. \A x \in Objects : Counted(x)' = Counted(x)
      BY <1>0, <1>7 DEF Invalidate, Counted, Counts
    <2> QED
      BY <1>0, <1>7, <2>1 DEF Invalidate
  <1>8. ASSUME NEW t \in Threads, SpinEnds(t) PROVE OwnerInv'
    <2>1. \A x \in Objects : Counted(x)' = Counted(x)
      BY <1>0, <1>8 DEF SpinEnds, Counted, Counts
    <2> QED
      BY <1>0, <1>8, <2>1 DEF SpinEnds
  <1>9. ASSUME NEW t \in Threads, DropLoad(t) PROVE OwnerInv'
    <2>1. \A x \in Objects : Counted(x)' = Counted(x)
      BY <1>0, <1>9 DEF DropLoad, Counted, Counts
    <2> QED
      BY <1>0, <1>9, <2>1 DEF DropLoad
  <1>10. ASSUME NEW t \in Threads, DropStore(t) PROVE OwnerInv'
    <2>0. PICK o \in Objects : o = target[t]
      BY <1>0, <1>10 DEF DropStore
    <2>1. /\ pc[t] = "dropping" /\ pc' = [pc EXCEPT ![t] = "test"]
          /\ refs' = [refs EXCEPT ![o] = Less1(reg[t], RefLimit)]
          /\ UNCHANGED <<heap, spare, target, ptr, fresh>>
      BY <1>10, <2>0 DEF DropStore
    <2>2. reg[t] = refs[o] /\ (fresh[t] <=> ptr[t] # o)
      BY <1>0, <2>0, <2>1
    <2>3. t \in Counted(o) /\ heap[o] = "live"
      BY <2>0, <2>1, <2>2, CountedIsLive DEF Counted, Counts
    <2>4. Counted(o)' = Counted(o) \ {t}
      BY <1>0, <2>0, <2>1, <2>2 DEF Counted, Counts
    <2>5. Cardinality(Counted(o)') = Cardinality(Counted(o)) - 1
      <3>1. PICK S : S = Counted(o)
        OBVIOUS
      <3>2. IsFiniteSet(S) /\ t \in S
        BY <2>3, <3>1, CountedFinite
      <3>3. Cardinality(S \ {t}) = Cardinality(S) - 1
        BY <3>2, FS_RemoveElement
      <3> QED
        BY <2>4, <3>1, <3>3
    <2>6. Cardinality(Counted(o)) # 0
      BY <2>3, CountedFinite, FS_EmptySet
    <2>7. refs[o] = Cardinality(Counted(o)) + spare[o] /\ spare[o] \in Nat
      BY <1>0, <2>2, <2>3
    <2>8. refs[o] \in 1..RefLimit - 1
      BY <1>0, <2>2, <2>6, <2>7, CountedFinite
    <2> DEFINE new == Less1(reg[t], RefLimit)
    <2>9. new = refs[o] - 1
      BY <2>2, <2>8, Widths, WithinDown
    <2>10. \A x \in Objects \ {o} : Counted(x)' = Counted(x)
      BY <1>0, <2>0, <2>1, <2>2 DEF Counted, Counts
    <2> HIDE DEF new
    <2>11. refs'[o] = Cardinality(Counted(o)') + spare'[o]
      BY <1>0, <2>1, <2>2, <2>5, <2>7, <2>9, CountedFinite DEF new
    <2>12. pc'[t] = "test" /\ target'[t] = o /\ heap'[o] = "live"
      BY <1>0, <2>0, <2>1, <2>3
    <2>13. ASSUME NEW x \in Objects PROVE Owned(x)'
      <3>1. CASE x = o
        <4>1. Counted(x)' = Counted(o)'
          BY <3>1 DEF Counted
        <4> QED
          BY <2>11, <2>12, <3>1, <4>1
      <3>2. CASE x # o
        <4>1. heap'[x] = heap[x] /\ refs'[x] = refs[x] /\ spare'[x] = spare[x]
          BY <1>0, <2>1, <3>2
        <4>2. \A u \in Threads : pc[u] # "test"
          BY <1>0, <2>1
        <4> QED
          BY <1>0, <2>10, <3>2, <4>1, <4>2
      <3> QED
        BY <3>1, <3>2
    <2>14. \A u \in Threads : pc'[u] = "test" => u = t
      BY <1>0, <2>1
    <2> QED
      BY <2>12, <2>13, <2>14
  <1>11. ASSUME NEW t \in Threads, Test(t) PROVE OwnerInv'
    <2>1. \A x \in Objects : Counted(x)' = Counted(x)
      BY <1>0, <1>11 DEF Test, Counted, Counts
    <2>2. target[t] \in Objects /\ heap[target[t]] = "live"
      BY <1>0, <1>11 DEF Test
    <2>3. refs[target[t]] = 0 => Counted(target[t]) = {} /\ spare[target[t]] = 0
      BY <1>0, <2>2, CountedFinite, FS_EmptySet
    <2>4. \A u \in Threads : pc'[u] # "test" /\ (u # t => pc[u] # "test")
      BY <1>0, <1>11 DEF Test
    <2> QED
      BY <1>0, <1>11, <2>1, <2>2, <2>3, <2>4 DEF Test
  <1>12. ASSUME NEW t \in Threads, LockLoad(t) PROVE OwnerInv'
    <2>1. \A x \in Objects : Counted(x)' = Counted(x)
      BY <1>0, <1>12 DEF LockLoad, Counted, Counts
    <2> QED
      BY <1>0, <1>12, <2>1 DEF LockLoad
  <1>13. ASSUME NEW t \in Threads, LockStore(t) PROVE OwnerInv'
    <2>1. \A x \in Objects : Counted(x)' = Counted(x)
      BY <1>0, <1>13 DEF LockStore, Counted, Counts
    <2> QED
      BY <1>0, <1>13, <2>1 DEF LockStore
  <1>14. ASSUME NEW t \in Threads, UnlockLoad(t) PROVE OwnerInv'
    <2>1. \A x \in Objects : Counted(x)' = Counted(x)
      BY <1>0, <1>14 DEF UnlockLoad, Counted, Counts
    <2> QED
      BY <1>0, <1>14, <2>1 DEF UnlockLoad
  <1>15. ASSUME NEW t \in Threads, UnlockStore(t) PROVE OwnerInv'
    <2>1. \A x \in Objects : Counted(x)' = Counted(x)
      BY <1>0, <1>15 DEF UnlockStore, Counted, Counts
    <2> QED
      BY <1>0, <1>15, <2>1 DEF UnlockStore
  <1>16. CASE UNCHANGED vars
    <2>1. \A x \in Objects : Counted(x)' = Counted(x)
      BY <1>16 DEF vars, Counted, Counts
    <2> QED
      BY <1>0, <1>16, <2>1 DEF vars
  <1> QED
    BY <1>1, <1>2, <1>3, <1>4, <1>5, <1>6, <1>7, <1>8, <1>9, <1>10, <1>11, <1>12, <1>13, <1>14, <1>15, <1>16 DEF Next, Begin, Step

-----------------------------------------------------------------------------
LEMMA IInit == Init => IInv
  <1> SUFFICES ASSUME Init PROVE IInv
    OBVIOUS
  <1> USE DEF Init, InEnvironment, InProcessing, InRelease
  <1>1. TypeOK
    BY Widths DEF TypeOK
  <1>2. AloneInv /\ PlaceInv /\ DepthInv
    BY DEF AloneInv, PlaceInv, DepthInv
  <1>3. LockInv
    BY DEF LockInv, Processing
  <1>4. \A o \in Objects : Counted(o) = {}
    BY DEF Counted, Counts
  <1>5. OwnerInv
    BY <1>4 DEF OwnerInv, Owned
  <1> QED
    BY <1>1, <1>2, <1>3, <1>5 DEF IInv

LEMMA IStep == Disciplined /\ IInv /\ [Next]_vars => IInv'
  BY TypeStep, AloneStep, PlaceStep, DepthStep, LockStep, OwnerStep DEF IInv

LEMMA InvariantHolds == ASSUME Disciplined PROVE Spec => []IInv
  <1>1. IInv /\ [Next]_vars => IInv'
    BY IStep
  <1> QED
    BY IInit, <1>1, PTL DEF Spec

LEMMA InUseIsLive == IInv => NoUseAfterFree
  <1> SUFFICES ASSUME IInv, NEW t \in Threads, pc[t] # "idle"
               PROVE  heap[InUse(t)] = "live"
    BY DEF NoUseAfterFree
  <1>0. TypeOK /\ PlaceInv /\ OwnerInv
    BY DEF IInv
  <1> USE DEF InEnvironment, InProcessing, InRelease, PlaceInv, InUse, Counts
  <1>1. CASE pc[t] = "publish"
    BY <1>0, <1>1, CountedIsLive
  <1>2. CASE pc[t] \in InProcessing \cup {"referring"}
    BY <1>0, <1>2, CountedIsLive
  <1>3. CASE pc[t] \in InRelease \ {"test"}
    BY <1>0, <1>3, CountedIsLive
  <1>4. CASE pc[t] = "test"
    BY <1>0, <1>4 DEF OwnerInv
  <1> QED
    BY <1>0, <1>1, <1>2, <1>3, <1>4 DEF TypeOK

LEMMA CountsBalance == IInv => CountersBalance
  <1> SUFFICES ASSUME IInv PROVE CountsOwners /\ LocksBalance
    BY DEF IInv, CountersBalance
  <1>0. TypeOK /\ PlaceInv /\ OwnerInv /\ LockInv
    BY DEF IInv
  <1>1. LocksBalance
    BY <1>0 DEF LocksBalance, LockInv
  <1>2. ASSUME NEW o \in Objects, ~ Releasing(o)
        PROVE  LET owners == Cardinality(Holders(o)) + spare[o]
               IN  /\ heap[o] = "live" <=> owners > 0
                   /\ heap[o] = "live" => refs[o] = owners
    <2>1. \A t \in Threads : Counts(t, o) <=> ptr[t] = o
      BY <1>0, <1>2 DEF Counts, Releasing, InRelease, PlaceInv
    <2>2. Holders(o) = Counted(o)
      BY <2>1 DEF Holders, Counted
    <2> DEFINE n == Cardinality(Holders(o))
    <2>3. n \in Nat /\ spare[o] \in Nat /\ refs[o] \in Nat
      BY <1>0, <2>2, CountedFinite, Widths DEF TypeOK
    <2>4. CASE heap[o] = "live"
      <3>1. refs[o] = n + spare[o] /\ refs[o] # 0
        BY <1>0, <1>2, <2>2, <2>4 DEF OwnerInv, Owned, Releasing
      <3> HIDE DEF n
      <3>2. n + spare[o] > 0
        BY <2>3, <3>1
      <3> QED
        BY <2>4, <3>1, <3>2 DEF n
    <2>5. CASE heap[o] # "live"
      <3>1. n = 0 /\ spare[o] = 0
        BY <1>0, <2>2, <2>5, FS_EmptySet DEF OwnerInv, Owned
      <3> QED
        BY <2>5, <3>1
    <2> QED
      BY <2>4, <2>5
  <1>3. CountsOwners
    BY <1>2 DEF CountsOwners
  <1> QED
    BY <1>1, <1>3

(* TTEnvironment.cpp:151-223, TTObject.h:236-251.  When the callers keep   *)
(* the four rules, no step of createInstance, referenceInstance, a release *)
(* or a processing touches an object that is gone, for any threads,        *)
(* objects and widths of the two counters.                                 *)
THEOREM NoUseAfterFreeHolds == Disciplined => (Spec => []NoUseAfterFree)
  <1> SUFFICES ASSUME Disciplined PROVE Spec => []NoUseAfterFree
    OBVIOUS
  <1>1. Spec => []IInv
    BY InvariantHolds
  <1> QED
    BY <1>1, InUseIsLive, PTL

(* TTEnvironment.cpp:195-221, TTObject.h:236-251.  Under the same rules    *)
(* the reference count of an object is the number of its owners and its    *)
(* lock is open when nobody processes it, although both counters are       *)
(* loaded and stored unprotected, and although the lock wraps around.      *)
THEOREM CountersBalanceHolds == Disciplined => (Spec => []CountersBalance)
  <1> SUFFICES ASSUME Disciplined PROVE Spec => []CountersBalance
    OBVIOUS
  <1>1. Spec => []IInv
    BY InvariantHolds
  <1> QED
    BY <1>1, CountsBalance, PTL

=============================================================================

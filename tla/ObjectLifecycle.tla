--------------------------- MODULE ObjectLifecycle ---------------------------
(***************************************************************************)
(* The life of a TTObject: TTEnvironment::createInstance, referenceInstance*)
(* and releaseInstance (library/source/TTEnvironment.cpp), and the lock a  *)
(* processing thread keeps on an object (library/includes/TTObject.h).     *)
(*                                                                         *)
(* Neither counter of an object is protected: ++ and -- load, then store.  *)
(* What the code leaves to its callers is written down as rules; a run     *)
(* says which of them its threads follow.                                  *)
(***************************************************************************)
EXTENDS Naturals, FiniteSets

CONSTANTS
  Threads,
  Objects,     (* the memory an object may be allocated in, used once      *)
  NULL,
  Rules,       (* the rules the callers follow, see CallerRules            *)
  RefLimit,    (* referenceCount is a TTUInt16: 2^16                       *)
  LockLimit,   (* locked is a TTUInt8: 2^8                                 *)
  MaxSpare,    (* bound: references to an object made and not yet taken    *)
  MaxNesting   (* bound: how often a thread locks an object it has locked  *)

CallerRules == {
  "Serialised",      (* one thread at a time is inside the environment     *)
  "OwnReference",    (* a thread processes only what it holds a reference to*)
  "OneProcessor",    (* one thread at a time processes an object           *)
  "ForgetReleased"}  (* a pointer is not used again once it was released   *)

ASSUME LifecycleAssumption ==
  /\ NULL \notin Objects
  /\ Rules \subseteq CallerRules
  /\ IsFiniteSet(Threads)
  /\ RefLimit \in Nat /\ LockLimit \in Nat \ {0}
  /\ MaxSpare \in Nat /\ MaxSpare + Cardinality(Threads) < RefLimit
  /\ MaxNesting \in Nat \ {0}

VARIABLES
  heap,      (* "free" memory, a "live" object, a "deleted" one            *)
  valid,     (* TTObject::valid                                            *)
  refs,      (* TTObject::referenceCount                                   *)
  locked,    (* TTObject::locked                                           *)
  ptr,       (* the TTObjectPtr variable of each thread                    *)
  spare,     (* references made for somebody who has not stored them yet   *)
  pc,        (* where a thread is                                          *)
  target,    (* the object its call works on                               *)
  reg,       (* the counter it has loaded                                  *)
  fresh,     (* createInstance: the new object is still to be made valid   *)
  depth      (* how often it has locked its target                         *)

vars == <<heap, valid, refs, locked, ptr, spare, pc, target, reg, fresh, depth>>
objectVars == <<heap, valid, refs, locked>>

-----------------------------------------------------------------------------
Goto(t, from, to) ==
  /\ pc[t] = from
  /\ pc' = [pc EXCEPT ![t] = to]

InEnvironment == {"publish", "release", "spin", "drop", "dropping", "test",
                  "referring"}
InProcessing == {"locking", "processing", "unlocking"}

(* What a rule asks before a call into the environment ...                 *)
MayEnter == "Serialised" \in Rules =>
              \A u \in Threads : pc[u] \notin InEnvironment

(* ... and before a thread starts to process an object.                    *)
MayProcess(t, o) ==
  /\ IF "OwnReference" \in Rules THEN ptr[t] = o ELSE \E u \in Threads : ptr[u] = o
  /\ "OneProcessor" \in Rules =>
       \A u \in Threads : ~ (pc[u] \in InProcessing /\ target[u] = o)

(* A decrement of an unsigned counter.                                     *)
Less1(n, limit) == (n + limit - 1) % limit

Init ==
  /\ heap = [o \in Objects |-> "free"]
  /\ valid = [o \in Objects |-> FALSE]
  /\ refs = [o \in Objects |-> 0]
  /\ locked = [o \in Objects |-> 0]
  /\ ptr = [t \in Threads |-> NULL]
  /\ spare = [o \in Objects |-> 0]
  /\ pc = [t \in Threads |-> "idle"]
  /\ target = [t \in Threads |-> NULL]
  /\ reg = [t \in Threads |-> 0]
  /\ fresh = [t \in Threads |-> FALSE]
  /\ depth = [t \in Threads |-> 0]

-----------------------------------------------------------------------------
(* createInstance: the constructor leaves the object invalid; the caller's *)
(* pointer is set before the object it used to hold is released.  When the *)
(* class is unknown or the constructor throws, nothing happens.            *)
CreateInstance(t) ==
  /\ MayEnter
  /\ \E o \in Objects :
       /\ heap[o] = "free"
       /\ heap' = [heap EXCEPT ![o] = "live"]
       /\ refs' = [refs EXCEPT ![o] = 1]
       /\ ptr' = [ptr EXCEPT ![t] = o]
  /\ fresh' = [fresh EXCEPT ![t] = TRUE]
  /\ \/ /\ ptr[t] = NULL
        /\ Goto(t, "idle", "publish")
        /\ UNCHANGED target
     \/ /\ ptr[t] # NULL
        /\ Goto(t, "idle", "release")
        /\ target' = [target EXCEPT ![t] = ptr[t]]
  /\ UNCHANGED <<valid, locked, spare, reg, depth>>

Publish(t) ==
  /\ Goto(t, "publish", "idle")
  /\ valid' = [valid EXCEPT ![ptr[t]] = TRUE]
  /\ fresh' = [fresh EXCEPT ![t] = FALSE]
  /\ UNCHANGED <<heap, refs, locked, ptr, spare, target, reg, depth>>

(* referenceInstance: referenceCount++, for another owner.                 *)
ReferenceLoad(t) ==
  /\ MayEnter
  /\ ptr[t] # NULL
  /\ spare[ptr[t]] < MaxSpare
  /\ Goto(t, "idle", "referring")
  /\ target' = [target EXCEPT ![t] = ptr[t]]
  /\ reg' = [reg EXCEPT ![t] = refs[ptr[t]]]
  /\ UNCHANGED <<objectVars, ptr, spare, fresh, depth>>

(* Mutant of ReferenceStore: the count stays.                              *)
ReferenceNotCounted(t) ==
  /\ Goto(t, "referring", "idle")
  /\ spare' = [spare EXCEPT ![target[t]] = @ + 1]
  /\ UNCHANGED <<objectVars, ptr, target, reg, fresh, depth>>

ReferenceStore(t) ==
  /\ Goto(t, "referring", "idle")
  /\ refs' = [refs EXCEPT ![target[t]] = (reg[t] + 1) % RefLimit]
  /\ spare' = [spare EXCEPT ![target[t]] = @ + 1]
  /\ UNCHANGED <<heap, valid, locked, ptr, target, reg, fresh, depth>>

(* The other owner stores the pointer it was handed.                       *)
Take(t) ==
  /\ pc[t] = "idle" /\ ptr[t] = NULL
  /\ \E o \in Objects :
       /\ spare[o] > 0
       /\ spare' = [spare EXCEPT ![o] = @ - 1]
       /\ ptr' = [ptr EXCEPT ![t] = o]
  /\ UNCHANGED <<objectVars, pc, target, reg, fresh, depth>>

-----------------------------------------------------------------------------
(* TTObjectRelease returns at once for a NULL pointer.                     *)
Release(t) ==
  /\ MayEnter
  /\ ptr[t] # NULL
  /\ Goto(t, "idle", "release")
  /\ target' = [target EXCEPT ![t] = ptr[t]]
  /\ UNCHANGED <<objectVars, ptr, spare, reg, fresh, depth>>

(* After the assertion (line 206): invalid, then the observers hear of it. *)
Invalidate(t) ==
  /\ Goto(t, "release", "spin")
  /\ valid' = [valid EXCEPT ![target[t]] = FALSE]
  /\ UNCHANGED <<heap, refs, locked, ptr, spare, target, reg, fresh, depth>>

(* while (getlock()) ;                                                     *)
SpinEnds(t) ==
  /\ Goto(t, "spin", "drop")
  /\ locked[target[t]] = 0
  /\ UNCHANGED <<objectVars, ptr, spare, target, reg, fresh, depth>>

DropLoad(t) ==
  /\ Goto(t, "drop", "dropping")
  /\ reg' = [reg EXCEPT ![t] = refs[target[t]]]
  /\ UNCHANGED <<objectVars, ptr, spare, target, fresh, depth>>

DropStore(t) ==
  /\ Goto(t, "dropping", "test")
  /\ refs' = [refs EXCEPT ![target[t]] = Less1(reg[t], RefLimit)]
  /\ UNCHANGED <<heap, valid, locked, ptr, spare, target, reg, fresh, depth>>

(* Mutant of Test: the object goes with its last but one reference.        *)
TestOneEarly(t) ==
  /\ Goto(t, "test", IF fresh[t] THEN "publish" ELSE "idle")
  /\ heap' = IF refs[target[t]] <= 1
             THEN [heap EXCEPT ![target[t]] = "deleted"]
             ELSE heap
  /\ ptr' = IF ~ fresh[t] THEN [ptr EXCEPT ![t] = NULL] ELSE ptr
  /\ UNCHANGED <<valid, refs, locked, spare, target, reg, fresh, depth>>

(* The pointer becomes NULL only if the object went.  createInstance       *)
(* releases through a local copy and goes on to publish the new object.    *)
Test(t) ==
  /\ Goto(t, "test", IF fresh[t] THEN "publish" ELSE "idle")
  /\ heap' = IF refs[target[t]] < 1
             THEN [heap EXCEPT ![target[t]] = "deleted"]
             ELSE heap
  /\ ptr' = IF ~ fresh[t] /\ (refs[target[t]] < 1 \/ "ForgetReleased" \in Rules)
            THEN [ptr EXCEPT ![t] = NULL]
            ELSE ptr
  /\ UNCHANGED <<valid, refs, locked, spare, target, reg, fresh, depth>>

-----------------------------------------------------------------------------
(* TTObject::lock() and unlock(), around the processing of a vector.       *)
LockLoad(t) ==
  /\ \/ /\ Goto(t, "idle", "locking")
        /\ \E o \in Objects :
             /\ MayProcess(t, o)
             /\ target' = [target EXCEPT ![t] = o]
     \/ /\ Goto(t, "processing", "locking")
        /\ depth[t] < MaxNesting
        /\ UNCHANGED target
  /\ reg' = [reg EXCEPT ![t] = locked[target'[t]]]
  /\ UNCHANGED <<objectVars, ptr, spare, fresh, depth>>

LockStore(t) ==
  /\ Goto(t, "locking", "processing")
  /\ locked' = [locked EXCEPT ![target[t]] = (reg[t] + 1) % LockLimit]
  /\ depth' = [depth EXCEPT ![t] = @ + 1]
  /\ UNCHANGED <<heap, valid, refs, ptr, spare, target, reg, fresh>>

UnlockLoad(t) ==
  /\ Goto(t, "processing", "unlocking")
  /\ reg' = [reg EXCEPT ![t] = locked[target[t]]]
  /\ UNCHANGED <<objectVars, ptr, spare, target, fresh, depth>>

(* Mutant of UnlockStore: only the last unlock counts down.                *)
UnlockLastOnly(t) ==
  /\ Goto(t, "unlocking", IF depth[t] = 1 THEN "idle" ELSE "processing")
  /\ locked' = IF depth[t] = 1
               THEN [locked EXCEPT ![target[t]] = Less1(reg[t], LockLimit)]
               ELSE locked
  /\ depth' = [depth EXCEPT ![t] = @ - 1]
  /\ UNCHANGED <<heap, valid, refs, ptr, spare, target, reg, fresh>>

UnlockStore(t) ==
  /\ Goto(t, "unlocking", IF depth[t] = 1 THEN "idle" ELSE "processing")
  /\ locked' = [locked EXCEPT ![target[t]] = Less1(reg[t], LockLimit)]
  /\ depth' = [depth EXCEPT ![t] = @ - 1]
  /\ UNCHANGED <<heap, valid, refs, ptr, spare, target, reg, fresh>>

-----------------------------------------------------------------------------
(* The steps a call takes once it has begun; processing ends sometime.     *)
Step(t) ==
  \/ Publish(t) \/ ReferenceStore(t)
  \/ Invalidate(t) \/ SpinEnds(t) \/ DropLoad(t) \/ DropStore(t) \/ Test(t)
  \/ LockStore(t) \/ UnlockStore(t)

Begin(t) ==
  \/ CreateInstance(t) \/ ReferenceLoad(t) \/ Take(t) \/ Release(t)
  \/ LockLoad(t)

Next == \E t \in Threads : Begin(t) \/ Step(t) \/ UnlockLoad(t)

Spec == Init /\ [][Next]_vars

Fairness == \A t \in Threads : WF_vars(Step(t)) /\ WF_vars(UnlockLoad(t))

FairSpec == Spec /\ Fairness

-----------------------------------------------------------------------------
(* Every variable has its type.                                            *)
TypeOK ==
  /\ heap \in [Objects -> {"free", "live", "deleted"}]
  /\ valid \in [Objects -> BOOLEAN]
  /\ refs \in [Objects -> 0..RefLimit - 1]
  /\ locked \in [Objects -> 0..LockLimit - 1]
  /\ ptr \in [Threads -> Objects \cup {NULL}]
  /\ spare \in [Objects -> 0..MaxSpare]
  /\ pc \in [Threads -> {"idle"} \cup InEnvironment \cup InProcessing]
  /\ target \in [Threads -> Objects \cup {NULL}]
  /\ reg \in [Threads -> Nat]
  /\ fresh \in [Threads -> BOOLEAN]
  /\ depth \in [Threads -> 0..MaxNesting]

(* The object a thread's next step reads or writes.                        *)
InUse(t) == IF pc[t] = "publish" THEN ptr[t] ELSE target[t]

Releasing(o) == \E t \in Threads :
  pc[t] \in {"release", "spin", "drop", "dropping", "test"} /\ target[t] = o

Processing(o) == \E t \in Threads : pc[t] \in InProcessing /\ target[t] = o

Holders(o) == {t \in Threads : ptr[t] = o}

(* TTEnvironment.cpp:151-223.  No step of a call touches an object that was*)
(* deleted or does not exist, and no processing does: "if the object is    *)
(* locked (e.g. in the middle of processing a vector in another thread)    *)
(* then we spin until the lock is released".                               *)
NoUseAfterFree ==
  \A t \in Threads : pc[t] # "idle" => heap[InUse(t)] = "live"

(* TTEnvironment.cpp:195-221.  Between calls the reference count of an     *)
(* object is the number of the owners it was given to, so that the object  *)
(* lives exactly as long as it has one: no leak, no owner left dangling.   *)
CountsOwners ==
  \A o \in Objects :
    ~ Releasing(o) /\ ~ (\E t \in Threads : pc[t] = "referring" /\ target[t] = o) =>
      LET owners == Cardinality(Holders(o)) + spare[o]
      IN  /\ heap[o] = "live" <=> owners > 0
          /\ heap[o] = "live" => refs[o] = owners

(* TTObject.h:236-251.  When nobody processes an object its lock is open:  *)
(* a release will not spin for a thread that has long left.                *)
LocksBalance ==
  \A o \in Objects : heap[o] = "live" /\ ~ Processing(o) => locked[o] = 0

(* TTEnvironment.cpp:195-221, TTObject.h:236-251.  Both counters of every  *)
(* object balance, whatever the order of their loads and stores.           *)
CountersBalance == TypeOK /\ CountsOwners /\ LocksBalance

(* TTEnvironment.cpp:214.  If from some time on nobody processes an object,*)
(* whoever spins on its lock gets on.                                      *)
SpinTerminates ==
  \A t \in Threads, o \in Objects :
    <>[](~ Processing(o)) =>
      (pc[t] = "spin" /\ target[t] = o ~> pc[t] # "spin")

=============================================================================

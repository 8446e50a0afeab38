---------------------------- MODULE ObjectFreeing ----------------------------
(***************************************************************************)
(* Creating and releasing objects whose observers are told of it, all in   *)
(* one thread: TTEnvironment::createInstance and releaseInstance           *)
(* (library/source/TTEnvironment.cpp) composed with the list of observers  *)
(* and its mutex (library/source/TTList.cpp).  ObjectLifecycle has the     *)
(* threads, ObserverList the other notifications; here it is the code that *)
(* is called back in the middle of a call that calls again: constructors,  *)
(* and handlers of the message "objectFreeing".                            *)
(*                                                                         *)
(* A slot is a TTObjectPtr variable.  createInstance and releaseInstance   *)
(* get its address and read it again after every call they make.           *)
(***************************************************************************)
EXTENDS Lists, Naturals, Sequences, FiniteSets

CONSTANTS
  Objects,   (* the memory an object may be allocated in, used once        *)
  Slots,
  Local,     (* oldObject, the variable of createInstance                  *)
  NULL,
  Rules,     (* what callers, constructors and handlers keep to            *)
  MaxDepth   (* bound: calls inside each other                             *)

CallerRules == {
  "LeaveHeldLists",   (* nothing is called that locks a list while it is   *)
                      (* being iterated over                               *)
  "KeepPointer",      (* a slot is not written inside a call that has it   *)
  "UnregisterFirst",  (* an object in a list of observers is not released  *)
  "ForgetReleased"}   (* a slot is not used again once it was released     *)

ASSUME FreeingAssumption ==
  /\ NULL \notin Objects /\ Local \notin Slots /\ IsFiniteSet(Slots)
  /\ Rules \subseteq CallerRules
  /\ MaxDepth \in Nat \ {0}

VARIABLES
  heap,       (* "free" memory, a "live" object, a "deleted" one           *)
  valid,      (* TTObject::valid                                           *)
  refs,       (* TTObject::referenceCount                                  *)
  observers,  (* TTObject::observers                                       *)
  held,       (* mMutex of that list is locked                             *)
  slot,       (* the pointers                                              *)
  stack       (* the calls, the innermost first                            *)

vars == <<heap, valid, refs, observers, held, slot, stack>>
objectVars == <<heap, valid, refs, observers>>

-----------------------------------------------------------------------------
(* A call: the pointer it was given, the object it works on, what it does  *)
(* next, the place of the iterator, and (history) the object the pointer   *)
(* held before, and those that were told.                                  *)
Call(op, via, o, before, step) ==
  [op |-> op, via |-> via, object |-> o, before |-> before, step |-> step,
   at |-> 1, told |-> {}]

Calls ==
  [op : {"create", "release", "register", "unregister"}, via : Slots \cup {Local},
   object : Objects, before : Objects \cup {NULL},
   step : {"construct", "finish", "lock", "tell", "handle", "drop", "edit"},
   at : Nat, told : SUBSET Objects]

Top == Head(stack)
Return == stack' = Tail(stack)
Becomes(frame) == stack' = <<frame>> \o Tail(stack)

(* The top call is op, and about to do step.                               *)
At(op, step) == stack # <<>> /\ Top.op = op /\ Top.step = step

(* Only the program, a constructor or a handler calls.                     *)
MayCall ==
  /\ Len(stack) < MaxDepth
  /\ stack # <<>> => Top.step \in {"construct", "handle"}

Frames == {stack[i] : i \in DOMAIN stack}
Constructing == {f.object : f \in {g \in Frames : g.step = "construct"}}
Known == ({slot[s] : s \in Slots} \cup Constructing) \ {NULL}
Listed(w) == \E o \in Objects : heap[o] = "live" /\ w \in Elements(observers[o])

MayWrite(s) == "KeepPointer" \in Rules => \A f \in Frames : f.via # s
MayLock(o) == "LeaveHeldLists" \in Rules => ~ held[o]
MayLeave(w) == "UnregisterFirst" \in Rules => ~ Listed(w)

Init ==
  /\ heap = [o \in Objects |-> "free"]
  /\ valid = [o \in Objects |-> FALSE]
  /\ refs = [o \in Objects |-> 0]
  /\ observers = [o \in Objects |-> <<>>]
  /\ held = [o \in Objects |-> FALSE]
  /\ slot = [s \in Slots |-> NULL]
  /\ stack = <<>>

-----------------------------------------------------------------------------
(* createInstance of a class that is registered: the constructor runs, with*)
(* the slot as it was.  An unknown class changes nothing.                  *)
CallCreate(s) ==
  /\ MayCall /\ MayWrite(s)
  /\ slot[s] # NULL => MayLock(slot[s]) /\ MayLeave(slot[s])
  /\ \E o \in Objects :
       /\ heap[o] = "free"
       /\ heap' = [heap EXCEPT ![o] = "live"]
       /\ refs' = [refs EXCEPT ![o] = 1]
       /\ stack' = <<Call("create", s, o, slot[s], "construct")>> \o stack
  /\ UNCHANGED <<valid, observers, held, slot>>

(* TTClass::createInstance catches what the constructor throws; what was   *)
(* built of the object goes without a word to anybody.                     *)
ConstructFails ==
  /\ At("create", "construct")
  /\ MayLeave(Top.object)
  /\ heap' = [heap EXCEPT ![Top.object] = "deleted"]
  /\ Return
  /\ UNCHANGED <<valid, refs, observers, held, slot>>

(* releaseInstance: invalid at once, then the list is locked.              *)
BeginRelease(s, o, below) ==
  /\ valid' = [valid EXCEPT ![o] = FALSE]
  /\ stack' = <<Call("release", s, o, NULL, "lock")>> \o below

(* Mutant of Construct: what the caller's pointer holds is released, after *)
(* it was written.                                                         *)
ConstructReleasesNew ==
  /\ At("create", "construct")
  /\ slot' = [slot EXCEPT ![Top.via] = Top.object]
  /\ LET rest == <<[Top EXCEPT !.step = "finish"]>> \o Tail(stack)
     IN  IF slot[Top.via] # NULL
         THEN BeginRelease(Local, Top.object, rest)
         ELSE stack' = rest /\ UNCHANGED valid
  /\ UNCHANGED <<heap, refs, observers, held>>

(* The pointer gets the new object before the old one is released.         *)
Construct ==
  /\ At("create", "construct")
  /\ slot' = [slot EXCEPT ![Top.via] = Top.object]
  /\ LET old == slot[Top.via]
         rest == <<[Top EXCEPT !.step = "finish"]>> \o Tail(stack)
     IN  IF old # NULL
         THEN BeginRelease(Local, old, rest)
         ELSE stack' = rest /\ UNCHANGED valid
  /\ UNCHANGED <<heap, refs, observers, held>>

(* valid = true of *anObject: whatever the pointer holds by now.            *)
Finish ==
  /\ At("create", "finish")
  /\ valid' = [valid EXCEPT ![slot[Top.via]] = TRUE]
  /\ Return
  /\ UNCHANGED <<heap, refs, observers, held, slot>>

-----------------------------------------------------------------------------
(* TTObjectRelease returns at once for a NULL pointer.                     *)
CallRelease(s) ==
  /\ MayCall /\ MayWrite(s)
  /\ slot[s] # NULL /\ MayLock(slot[s]) /\ MayLeave(slot[s])
  /\ BeginRelease(s, slot[s], stack)
  /\ UNCHANGED <<heap, refs, observers, held, slot>>

(* The mutex is not recursive: a list that this thread iterates over keeps *)
(* it waiting for itself.                                                  *)
Lock ==
  /\ At("release", "lock")
  /\ ~ held[Top.object]
  /\ held' = [held EXCEPT ![Top.object] = TRUE]
  /\ Becomes([Top EXCEPT !.step = "tell"])
  /\ UNCHANGED <<objectVars, slot>>

AtEnd == Top.at > Len(observers[Top.object])
Current == observers[Top.object][Top.at]

(* Mutant of Tell: the handler of every second observer is left out.       *)
TellEverySecond ==
  /\ At("release", "tell") /\ ~ AtEnd
  /\ Becomes(IF valid[Current]
             THEN [Top EXCEPT !.at = @ + 2, !.step = "handle", !.told = @ \cup {Current}]
             ELSE [Top EXCEPT !.at = @ + 1])
  /\ UNCHANGED <<objectVars, held, slot>>

(* A valid observer is sent "objectFreeing".                               *)
Tell ==
  /\ At("release", "tell") /\ ~ AtEnd
  /\ Becomes(IF valid[Current]
             THEN [Top EXCEPT !.at = @ + 1, !.step = "handle", !.told = @ \cup {Current}]
             ELSE [Top EXCEPT !.at = @ + 1])
  /\ UNCHANGED <<objectVars, held, slot>>

Handled ==
  /\ At("release", "handle")
  /\ Becomes([Top EXCEPT !.step = "tell"])
  /\ UNCHANGED <<objectVars, held, slot>>

(* Mutant of Unlock: the mutex is kept.                                    *)
UnlockForgotten ==
  /\ At("release", "tell") /\ AtEnd
  /\ Becomes([Top EXCEPT !.step = "drop"])
  /\ UNCHANGED <<objectVars, held, slot>>

Unlock ==
  /\ At("release", "tell") /\ AtEnd
  /\ held' = [held EXCEPT ![Top.object] = FALSE]
  /\ Becomes([Top EXCEPT !.step = "drop"])
  /\ UNCHANGED <<objectVars, slot>>

(* *anObject, read again: the object that is now let go.                   *)
Pointed == IF Top.via = Local THEN Top.object ELSE slot[Top.via]

(* The object is dropped, and deleted if it is to go.                      *)
Let(go) ==
  /\ At("release", "drop")
  /\ refs' = [refs EXCEPT ![Pointed] = @ - 1]
  /\ heap' = IF go THEN [heap EXCEPT ![Pointed] = "deleted"] ELSE heap
  /\ slot' = IF Top.via \in Slots /\ (go \/ "ForgetReleased" \in Rules)
             THEN [slot EXCEPT ![Top.via] = NULL] ELSE slot
  /\ Return
  /\ UNCHANGED <<valid, observers, held>>

(* Mutants of Drop: the count is not looked at; it is looked at before it  *)
(* is counted down.                                                        *)
DropAlways == Let(TRUE)
DropLate == Let(refs[Pointed] < 1)

Drop == Let(refs[Pointed] - 1 < 1)

-----------------------------------------------------------------------------
(* TTObjectReference, and the pointer stored in another slot.              *)
CallReference(s, r) ==
  /\ MayCall /\ MayWrite(r)
  /\ slot[s] # NULL /\ slot[r] = NULL
  /\ refs' = [refs EXCEPT ![slot[s]] = @ + 1]
  /\ slot' = [slot EXCEPT ![r] = slot[s]]
  /\ UNCHANGED <<heap, valid, observers, held, stack>>

(* registerObserverForNotifications and unregisterObserverForNotifications *)
(* wait for the mutex of the list.  The observed object is in "object",    *)
(* the observer in "before".                                               *)
CallEdit(op, o, w) ==
  /\ MayCall
  /\ o \in Known /\ w \in Known /\ o # w
  /\ MayLock(o)
  /\ op = "register" /\ "UnregisterFirst" \in Rules =>
       /\ valid[w] \/ w \in Constructing
       /\ \A f \in Frames : f.via \in Slots => slot[f.via] # w
  /\ stack' = <<Call(op, Local, o, w, "edit")>> \o stack
  /\ UNCHANGED <<objectVars, held, slot>>

Register ==
  /\ At("register", "edit")
  /\ ~ held[Top.object]
  /\ observers' = [observers EXCEPT ![Top.object] = AppendUnique(@, Top.before)]
  /\ Return
  /\ UNCHANGED <<heap, valid, refs, held, slot>>

Unregister ==
  /\ At("unregister", "edit")
  /\ ~ held[Top.object]
  /\ observers' = [observers EXCEPT ![Top.object] = RemoveFirst(@, Top.before)]
  /\ Return
  /\ UNCHANGED <<heap, valid, refs, held, slot>>

-----------------------------------------------------------------------------
Begin ==
  \/ \E s \in Slots : CallCreate(s) \/ CallRelease(s)
  \/ \E s, r \in Slots : CallReference(s, r)
  \/ \E o, w \in Objects, op \in {"register", "unregister"} : CallEdit(op, o, w)

(* What goes on by itself, constructors and handlers that return included. *)
Step ==
  \/ ConstructFails \/ Construct \/ Finish
  \/ Lock \/ Tell \/ Handled \/ Unlock \/ Drop
  \/ Register \/ Unregister

Next == Begin \/ Step

Spec == Init /\ [][Next]_vars
FairSpec == Spec /\ WF_vars(Step)

-----------------------------------------------------------------------------
(* Every variable has its type; a call works on an object.                 *)
TypeOK ==
  /\ heap \in [Objects -> {"free", "live", "deleted"}]
  /\ valid \in [Objects -> BOOLEAN]
  /\ refs \in [Objects -> 0..Cardinality(Slots) + MaxDepth]
  /\ observers \in [Objects -> Seq(Objects)]
  /\ held \in [Objects -> BOOLEAN]
  /\ slot \in [Slots -> Objects \cup {NULL}]
  /\ stack \in Seq(Calls)

(* The objects the rest of a call will read or write.                      *)
Touches(f) ==
  {f.object}
  \cup (IF f.op \in {"create", "release"} /\ f.via # Local /\ f.step # "construct"
        THEN {slot[f.via]} ELSE {})
  \cup (IF f.step \in {"tell", "handle"}
        THEN {observers[f.object][i] : i \in f.at..Len(observers[f.object])} ELSE {})

(* TTEnvironment.cpp:176-182, 202-223, TTList.cpp:222-231.  Whatever       *)
(* constructors and handlers call, what a call that is under way will read *)
(* is there when it goes on: the object, what its pointer holds, and the   *)
(* observers the iterator has not reached.  And no slot dangles.           *)
NoUseOfFreed ==
  /\ \A f \in Frames : \A o \in Touches(f) : o # NULL /\ heap[o] = "live"
  /\ \A s \in Slots : slot[s] # NULL => heap[slot[s]] = "live"

(* TTEnvironment.cpp:177, 217-221.  An object that lives is in a slot, or a*)
(* call under way has it: nothing leaks, also where a pointer was          *)
(* overwritten, and the count is the number of those that have it.         *)
NothingLeaks ==
  TypeOK /\ \A o \in Objects : heap[o] = "live" =>
    LET Hold(f) == f.object = o /\ (f.step = "construct" \/ (f.op = "release" /\ f.via = Local))
    IN  /\ refs[o] > 0
        /\ refs[o] = Cardinality({s \in Slots : slot[s] = o})
                     + Cardinality({i \in DOMAIN stack : Hold(stack[i])})

(* TTEnvironment.cpp:173-182, TTEnvironment.h:111, "Upon successful return,*)
(* the value will be set".  When createInstance returns with success, the  *)
(* caller's pointer has the new object, valid, and the object it had is    *)
(* gone unless another pointer has it: also when constructor and observers *)
(* call the environment themselves.                                        *)
ReplacesOld ==
  [][At("create", "finish") /\ stack' = Tail(stack) =>
       /\ slot'[Top.via] = Top.object
       /\ heap'[Top.object] = "live" /\ valid'[Top.object]
       /\ Top.before = NULL \/ heap'[Top.before] = "deleted"
            \/ \E s \in Slots : slot'[s] = Top.before]_vars

(* TTEnvironment.h:112-113, "will try to free to the existing object to    *)
(* which it points prior to instantiating the new unit".  While the        *)
(* constructor runs, the object that the caller's pointer had is gone      *)
(* unless another pointer has it.                                          *)
FreedBeforeInstantiating ==
  \A f \in Frames : f.op = "create" /\ f.step = "construct" =>
    \/ f.before = NULL
    \/ heap[f.before] = "deleted"
    \/ \E s \in Slots \ {f.via} : slot[s] = f.before

(* TTEnvironment.cpp:209-219.  No object that was given to somebody is     *)
(* deleted before every observer of it that is valid was told, in the very *)
(* call that deletes it, and while it was there to be looked at.           *)
ToldBeforeFreed ==
  [][\A o \in Objects :
       heap[o] = "live" /\ heap'[o] = "deleted" /\ Top.op = "release" =>
         /\ Top.object = o
         /\ \A i \in DOMAIN observers[o] : valid[observers[o][i]] => observers[o][i] \in Top.told]_vars

(* TTEnvironment.cpp:209, TTList.cpp:222-231, TTMutex.cpp.  When handlers  *)
(* and constructors stop calling, the calls under way return: none waits   *)
(* for a mutex of its own thread.                                          *)
CallsReturn == <>[][~ Begin]_vars => []<>(stack = <<>>)

=============================================================================

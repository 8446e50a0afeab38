---------------------------- MODULE ObserverList ----------------------------
(***************************************************************************)
(* The observers of an object: TTObject::registerObserverForNotifications, *)
(* unregisterObserverForNotifications and sendNotification                 *)
(* (library/source/TTObject.cpp) on the TTList of observers and its mutex  *)
(* (library/source/TTList.cpp), used by several threads, with observers    *)
(* whose handlers notify further objects and observers that are freed.     *)
(*                                                                         *)
(* Subjects are the observed objects, watchers the observing ones.  What   *)
(* the code leaves to its callers is written down as rules.                *)
(***************************************************************************)
EXTENDS Lists, Naturals, Sequences, FiniteSets

CONSTANTS
  Threads,
  Subjects,
  Watchers,
  NoThread,   (* a mutex is free                                           *)
  NULL,
  Forward,    (* [Watchers -> Subjects \cup {NULL}]: the subject on which  *)
              (* the handler of a watcher calls sendNotification           *)
  Level,      (* [Subjects -> Nat]: the order of the rule "Ordered"        *)
  Rules,      (* the rules the callers follow, see CallerRules             *)
  MaxLen      (* bound: the length of a list                               *)

CallerRules == {
  "OneRegistrar",     (* one thread at a time changes a list               *)
  "UnregisterFirst",  (* the owner of a watcher takes back its             *)
                      (* registrations, by calls that return, before the   *)
                      (* memory goes (at the latest when it is told of     *)
                      (* objectFreeing, when valid is cleared already)     *)
  "Ordered"}          (* handlers notify downwards: no cycle of subjects   *)

ASSUME ObserverAssumption ==
  /\ NoThread \notin Threads /\ NULL \notin Subjects \cup Watchers
  /\ Forward \in [Watchers -> Subjects \cup {NULL}]
  /\ Level \in [Subjects -> Nat]
  /\ Rules \subseteq CallerRules
  /\ MaxLen \in Nat

VARIABLES
  list,     (* theList of a subject's observers                            *)
  mutex,    (* the thread that holds mMutex of the list; not recursive     *)
  watcher,  (* a watcher is "valid", "invalid" (being freed) or "deleted"  *)
  pc,       (* what a thread does                                          *)
  edit,     (* the subject and watcher of its (un)registration             *)
  stack,    (* its notifications, the innermost first: the subject, the    *)
            (* index of theIter, and (history) the watchers already told   *)
  ledger    (* (history) the owner's record of a watcher: the subjects it  *)
            (* registered it with, until a call to unregister it returns   *)

vars == <<list, mutex, watcher, pc, edit, stack, ledger>>

NoEdit == [subject |-> NULL, watcher |-> NULL]
(* Mutant of Frame: the walk begins after the first element.               *)
FrameAfterFirst(s) == [subject |-> s, at |-> 2, told |-> <<>>]

Frame(s) == [subject |-> s, at |-> 1, told |-> <<>>]

-----------------------------------------------------------------------------
Init ==
  /\ list = [s \in Subjects |-> <<>>]
  /\ mutex = [s \in Subjects |-> NoThread]
  /\ watcher = [w \in Watchers |-> "valid"]
  /\ pc = [t \in Threads |-> "idle"]
  /\ edit = [t \in Threads |-> NoEdit]
  /\ stack = [t \in Threads |-> <<>>]
  /\ ledger = [w \in Watchers |-> {}]

Goto(t, from, to) ==
  /\ pc[t] = from
  /\ pc' = [pc EXCEPT ![t] = to]

Listed(s, w) == \E i \in DOMAIN list[s] : list[s][i] = w

(* What the rules ask of a call that changes a list.                       *)
MayEdit(s, w) ==
  /\ "OneRegistrar" \in Rules => \A u \in Threads : edit[u].subject # s
  /\ "Ordered" \in Rules /\ Forward[w] # NULL => Level[Forward[w]] < Level[s]

(* A critical section of TTList that calls nobody: one step.               *)
Atomically(s) == mutex[s] = NoThread /\ UNCHANGED mutex

-----------------------------------------------------------------------------
(* Mutant of Register: appends without looking first.                      *)
RegisterAgain(t, s, w) ==
  /\ MayEdit(s, w)
  /\ watcher[w] = "valid"
  /\ Len(list[s]) < MaxLen
  /\ Atomically(s)
  /\ Goto(t, "idle", "append")
  /\ edit' = [edit EXCEPT ![t] = [subject |-> s, watcher |-> w]]
  /\ ledger' = [ledger EXCEPT ![w] = @ \cup {s}]
  /\ UNCHANGED <<list, watcher, stack>>

(* appendUnique: findEquals and append take the mutex one after the other. *)
Register(t, s, w) ==
  /\ MayEdit(s, w)
  /\ watcher[w] = "valid"
  /\ Len(list[s]) < MaxLen
  /\ Atomically(s)
  /\ ~ Listed(s, w)
  /\ Goto(t, "idle", "append")
  /\ edit' = [edit EXCEPT ![t] = [subject |-> s, watcher |-> w]]
  /\ ledger' = [ledger EXCEPT ![w] = @ \cup {s}]
  /\ UNCHANGED <<list, watcher, stack>>

Insert(t) ==
  /\ Goto(t, "append", "idle")
  /\ Atomically(edit[t].subject)
  /\ list' = [list EXCEPT ![edit[t].subject] = Append(@, edit[t].watcher)]
  /\ edit' = [edit EXCEPT ![t] = NoEdit]
  /\ UNCHANGED <<watcher, stack, ledger>>

(* findEquals, then remove: the first element that is equal, if any.       *)
Unregister(t, s, w) ==
  /\ MayEdit(s, w)
  /\ Atomically(s)
  /\ Listed(s, w)
  /\ Goto(t, "idle", "remove")
  /\ edit' = [edit EXCEPT ![t] = [subject |-> s, watcher |-> w]]
  /\ UNCHANGED <<list, watcher, stack, ledger>>

Remove(t) ==
  /\ Goto(t, "remove", "idle")
  /\ Atomically(edit[t].subject)
  /\ list' = [list EXCEPT ![edit[t].subject] = RemoveFirst(@, edit[t].watcher)]
  /\ edit' = [edit EXCEPT ![t] = NoEdit]
  /\ ledger' = [ledger EXCEPT ![edit[t].watcher] = @ \ {edit[t].subject}]
  /\ UNCHANGED <<watcher, stack>>

-----------------------------------------------------------------------------
(* iterateObjectsSendingMessage: the mutex stays locked from the first to  *)
(* the last element, while the handlers run.                               *)
Enter(t, s) ==
  /\ mutex[s] = NoThread
  /\ mutex' = [mutex EXCEPT ![s] = t]
  /\ stack' = [stack EXCEPT ![t] = <<Frame(s)>> \o @]
  /\ UNCHANGED <<list, watcher, edit, ledger>>

Notify(t, s) == Goto(t, "idle", "iterate") /\ Enter(t, s)

Here(t) == Head(stack[t])
AtEnd(t) == Here(t).at > Len(list[Here(t).subject])
Current(t) == list[Here(t).subject][Here(t).at]

(* A valid object is sent the message; its handler may notify another      *)
(* subject, for whose mutex the thread then waits.                         *)
Send(t) ==
  LET w == Current(t)
      told == watcher[w] = "valid"
      frame == [Here(t) EXCEPT !.at = @ + 1,
                               !.told = IF told THEN Append(@, w) ELSE @]
  IN  /\ pc[t] = "iterate" /\ ~ AtEnd(t)
      /\ Goto(t, "iterate", IF told /\ Forward[w] # NULL THEN "forward" ELSE "iterate")
      /\ stack' = [stack EXCEPT ![t] = <<frame>> \o Tail(@)]
      /\ UNCHANGED <<list, mutex, watcher, edit, ledger>>

(* The watcher whose handler runs is the one before the iterator.          *)
Running(t) == list[Here(t).subject][Here(t).at - 1]

ForwardTo(t) ==
  /\ Goto(t, "forward", "iterate")
  /\ Enter(t, Forward[Running(t)])

(* Mutant of Leave: an outermost walk keeps the mutex.                     *)
LeaveKeepsMutex(t) ==
  /\ pc[t] = "iterate" /\ AtEnd(t)
  /\ Goto(t, "iterate", IF Len(stack[t]) = 1 THEN "idle" ELSE "iterate")
  /\ stack' = [stack EXCEPT ![t] = Tail(@)]
  /\ UNCHANGED <<list, mutex, watcher, edit, ledger>>

Leave(t) ==
  /\ pc[t] = "iterate" /\ AtEnd(t)
  /\ Goto(t, "iterate", IF Len(stack[t]) = 1 THEN "idle" ELSE "iterate")
  /\ mutex' = [mutex EXCEPT ![Here(t).subject] = NoThread]
  /\ stack' = [stack EXCEPT ![t] = Tail(@)]
  /\ UNCHANGED <<list, watcher, edit, ledger>>

-----------------------------------------------------------------------------
(* releaseInstance of a watcher: valid is cleared first, then the observers*)
(* of the watcher are told (external here), then the memory goes; no list  *)
(* forgets it by itself.                                                   *)
Invalidate(w) ==
  /\ watcher[w] = "valid"
  /\ watcher' = [watcher EXCEPT ![w] = "invalid"]
  /\ UNCHANGED <<list, mutex, pc, edit, stack, ledger>>

Delete(w) ==
  /\ watcher[w] = "invalid"
  /\ "UnregisterFirst" \in Rules => ledger[w] = {}
  /\ watcher' = [watcher EXCEPT ![w] = "deleted"]
  /\ UNCHANGED <<list, mutex, pc, edit, stack, ledger>>

-----------------------------------------------------------------------------
(* What a thread does once it has begun.                                   *)
Step(t) ==
  \/ Insert(t)
  \/ Remove(t)
  \/ Send(t)
  \/ ForwardTo(t)
  \/ Leave(t)

Next ==
  \/ \E t \in Threads, s \in Subjects : Notify(t, s)
  \/ \E t \in Threads, s \in Subjects, w \in Watchers :
       Register(t, s, w) \/ Unregister(t, s, w)
  \/ \E t \in Threads : Step(t)
  \/ \E w \in Watchers : Invalidate(w) \/ Delete(w)

Spec == Init /\ [][Next]_vars

(* A thread that has begun goes on when it can; nobody has to begin.       *)
Fairness == \A t \in Threads : WF_vars(Step(t))

FairSpec == Spec /\ Fairness

-----------------------------------------------------------------------------
Frames == [subject : Subjects, at : Nat \ {0}, told : Seq(Watchers)]

(* Every variable has its type.                                            *)
TypeOK ==
  /\ list \in [Subjects -> Seq(Watchers)]
  /\ mutex \in [Subjects -> Threads \cup {NoThread}]
  /\ watcher \in [Watchers -> {"valid", "invalid", "deleted"}]
  /\ pc \in [Threads -> {"idle", "append", "remove", "iterate", "forward"}]
  /\ edit \in [Threads -> [subject : Subjects \cup {NULL}, watcher : Watchers \cup {NULL}]]
  /\ stack \in [Threads -> Seq(Frames)]
  /\ ledger \in [Watchers -> SUBSET Subjects]

(* TTList.h:27, TTList.cpp:105-113.  "Use thread safety mechanisms":       *)
(* appendUnique never leaves a watcher twice in a list, and lists hold     *)
(* watchers only.                                                          *)
RegisteredOnce ==
  TypeOK /\ \A s \in Subjects : \A i, j \in DOMAIN list[s] : list[s][i] = list[s][j] => i = j

(* TTList.cpp:220-232, TTObject.cpp:388-391.  When a notification ends,    *)
(* every watcher in the list that is valid was sent the message, once, and *)
(* so in the order of registration.                                        *)
EveryWatcherTold ==
  \A t \in Threads :
    pc[t] = "iterate" /\ AtEnd(t) =>
      LET told == Here(t).told
          all == list[Here(t).subject]
      IN  /\ \A i \in DOMAIN all :
               watcher[all[i]] = "valid" => \E j \in DOMAIN told : told[j] = all[i]
          /\ \A i, j \in DOMAIN told : told[i] = told[j] => i = j

(* TTObject.cpp:375-385, TTList.cpp:105-113, 144-154, 222-231.  A watcher  *)
(* whose owner has taken its registrations back and freed it is reached by *)
(* no iteration, of no thread (obj->valid is read through the pointer that *)
(* is in the list): one removal is enough, since appendUnique entered the  *)
(* watcher once, and nobody who looked for it before enters it after.      *)
NeverReachesDeleted ==
  \A t \in Threads : pc[t] = "iterate" /\ ~ AtEnd(t) => watcher[Current(t)] # "deleted"

(* TTList.cpp:212-219.  Whenever the mutex of a list is held, a thread that*)
(* holds one can go on: it is not waiting, or for a mutex that is free.    *)
CanGoOn(t) ==
  pc[t] = "iterate" \/ (pc[t] = "forward" /\ mutex[Forward[Running(t)]] = NoThread)

NoStandstill ==
  (\E s \in Subjects : mutex[s] # NoThread) =>
    \E s \in Subjects : mutex[s] # NoThread /\ CanGoOn(mutex[s])

(* TTList.cpp:220-232.  When no new notification begins any more, the ones *)
(* that have begun come to their end and give their mutexes back.          *)
NotificationsEnd ==
  (<>[][~ \E t \in Threads, s \in Subjects : Notify(t, s)]_vars) =>
    \A s \in Subjects : mutex[s] # NoThread ~> mutex[s] = NoThread

=============================================================================

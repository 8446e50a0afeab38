------------------------- MODULE DirectoryObservers -------------------------
(***************************************************************************)
(* The observers of a TTNodeDirectory (library/source/TTNodeDirectory.cpp, *)
(* addObserverForNotifications, removeObserverForNotifications and         *)
(* notifyObservers): a hash table from addresses, the keys, to TTLists of  *)
(* observers.  A notification walks over the keys and, by the iterator     *)
(* that each list has, over their observers; while one is being told, it   *)
(* may add and remove observers, or do what is notified in turn.           *)
(*                                                                         *)
(* NodeDirectory has the nodes that notifications are about; there         *)
(* observers come and go only between the calls.                           *)
(***************************************************************************)
EXTENDS Lists, FiniteSets, Functions

CONSTANTS
  Observers,
  Keys,        (* the addresses that observers are added for               *)
  Addresses,   (* the addresses that are notified about                    *)
  Matching,    (* [Addresses -> SUBSET Keys]: compareOSCAddress says equal *)
               (* or lower                                                 *)
  MaxLists,    (* bound: the TTLists in use, by the table or by a walk     *)
  Rules,       (* the rules that observers follow, see CallerRules         *)
  MaxDepth     (* bound: notifications inside each other                   *)

CallerRules == {
  "KeysStay",         (* no key comes or goes while observers are told     *)
  "NotUnderIterator", (* no observer is removed where an iterator stands   *)
  "NotifyElsewhere"}  (* no list that is walked over is walked over again  *)

NoKey == "no key"

ASSUME ObserversAssumption ==
  /\ IsFiniteSet(Keys) /\ NoKey \notin Keys
  /\ Matching \in [Addresses -> SUBSET Keys]
  /\ Rules \subseteq CallerRules
  /\ MaxLists \in Nat \ {0} /\ MaxDepth \in Nat \ {0}

VARIABLES
  table,   (* mObservers: the list of each key                             *)
  lists,   (* TTLists: their items, and the one iterator, 0 when what it   *)
           (* stood on is gone                                             *)
  stack    (* the notifications under way, the innermost first             *)

vars == <<table, lists, stack>>

TTLists == 1..MaxLists
NoList == 0
Pairs == Keys \X Observers

(* A notification under way: the keys that are still to come, the number of*)
(* turns made, and (history) who was registered at the beginning, who was  *)
(* told, and who was told again.                                           *)
Notifications == [
  address : Addresses, step : {"key", "tell", "handle", "wild"},
  todo : SUBSET Keys, turn : Nat, key : Keys \cup {NoKey}, list : TTLists \cup {NoList},
  due : SUBSET Pairs, told : SUBSET Pairs, again : SUBSET Pairs]

Top == Head(stack)
Replace(frame) == stack' = <<frame>> \o Tail(stack)
Frames == {stack[i] : i \in DOMAIN stack}
InTurn == stack # <<>> /\ Top.step = "key"

Items(k) == lists[table[k]].items
Registered ==
  {pair \in Pairs : pair[1] \in DOMAIN table /\ pair[2] \in Elements(Items(pair[1]))}

Init ==
  /\ table = <<>>
  /\ lists = [l \in TTLists |-> [items |-> <<>>, iter |-> 1]]
  /\ stack = <<>>

-----------------------------------------------------------------------------
(* Where observers may be changed, and notifications begin.                *)
MayCall == stack # <<>> => Top.step = "handle"
MayChangeKeys == "KeysStay" \in Rules => stack = <<>>

Walked(l) == \E f \in Frames : f.list = l /\ f.step \in {"tell", "handle"}

(* What a list is after a change.  Where its iterator stands matters when  *)
(* it is walked over; else it is noted at the end.                         *)
Changed(l, items, iter) ==
  lists' = [lists EXCEPT ![l] =
              [items |-> items, iter |-> IF Walked(l) THEN iter ELSE Len(items) + 1]]

AddObserver(k, o) ==
  /\ MayCall
  /\ IF k \in DOMAIN table
     THEN LET old == lists[table[k]]
              new == AppendUnique(old.items, o)
          IN  /\ new # old.items
              /\ Changed(table[k], new, IF old.iter > Len(old.items) THEN Len(new) + 1 ELSE old.iter)
              /\ UNCHANGED table
     ELSE LET used == Range(table) \cup {f.list : f \in Frames}
              unused == TTLists \ used
              l == CHOOSE m \in unused : \A n \in unused : m <= n
          IN  /\ MayChangeKeys /\ unused # {}
              /\ Changed(l, <<o>>, 1)
              /\ table' = [key \in DOMAIN table \cup {k} |-> IF key = k THEN l ELSE table[key]]
  /\ UNCHANGED stack

(* Mutant of TableWithout: the key stays when its list is empty.           *)
TableAsBefore(k, items) == table

(* With the last observer of a key goes the key, but not its list.         *)
TableWithout(k, items) ==
  IF items = <<>> THEN Restrict(table, DOMAIN table \ {k}) ELSE table

(* The histories of the notifications forget the observer.                 *)
Forgotten(pair) ==
  [i \in DOMAIN stack |->
     [stack[i] EXCEPT !.due = @ \ {pair}, !.told = @ \ {pair}, !.again = @ \ {pair}]]

RemoveObserver(k, o) ==
  /\ MayCall
  /\ k \in DOMAIN table /\ o \in Elements(Items(k))
  /\ LET old == lists[table[k]]
         p == CHOOSE i \in DOMAIN old.items : old.items[i] = o
         new == RemoveFirst(old.items, o)
     IN  /\ new = <<>> => MayChangeKeys
         /\ "NotUnderIterator" \in Rules => ~ (Walked(table[k]) /\ old.iter = p)
         /\ Changed(table[k], new, IF old.iter = p THEN 0
                                   ELSE IF old.iter > p THEN old.iter - 1 ELSE old.iter)
         /\ table' = TableWithout(k, new)
  /\ stack' = Forgotten(<<k, o>>)

-----------------------------------------------------------------------------
(* notifyObservers: the keys are read once.                                *)
Notify(a) ==
  /\ MayCall
  /\ Len(stack) < MaxDepth
  /\ "NotifyElsewhere" \in Rules => Matching[a] \cap {f.key : f \in Frames} = {}
  /\ DOMAIN table # {}
  /\ stack' = <<[address |-> a, step |-> "key", todo |-> DOMAIN table, turn |-> 0,
                 key |-> NoKey, list |-> NoList,
                 due |-> {pair \in Registered : pair[1] \in Matching[a]},
                 told |-> {}, again |-> {}]>> \o stack
  /\ UNCHANGED <<table, lists>>

(* Mutants of AtEnd: one turn too many, and one too few.                   *)
AtEndLater == Top.turn > Cardinality(DOMAIN table)
AtEndEarlier == Top.turn >= Cardinality(DOMAIN table) - 1

(* The end of the loop is the number of keys there are by now.             *)
AtEnd == Top.turn >= Cardinality(DOMAIN table)

(* hk.get(): the next of the keys that were read; behind them the key      *)
(* stays what it was, or is whatever the memory holds.                     *)
GetKey == IF Top.todo # {} THEN Top.todo ELSE {Top.key, NoKey}

(* lookup() leaves the value as it was when there is no such key.          *)
LookedUp(k) == IF k \in DOMAIN table THEN table[k] ELSE Top.list

NextKey ==
  /\ InTurn /\ ~ AtEnd
  /\ \E k \in GetKey :
       LET f == [Top EXCEPT !.todo = @ \ {k}, !.turn = @ + 1, !.key = k]
           l == LookedUp(k)
       IN  IF k = NoKey \/ (k \in Matching[Top.address] /\ l = NoList)
           THEN Replace([f EXCEPT !.step = "wild"]) /\ UNCHANGED lists
           ELSE IF k \notin Matching[Top.address] \/ lists[l].items = <<>>
           THEN Replace(f) /\ UNCHANGED lists
           ELSE /\ Replace([f EXCEPT !.step = "tell", !.list = l])
                /\ lists' = [lists EXCEPT ![l].iter = 1]
  /\ UNCHANGED table

Return ==
  /\ InTurn /\ AtEnd
  /\ stack' = Tail(stack)
  /\ UNCHANGED <<table, lists>>

Tell ==
  LET l == lists[Top.list]
      pair == <<Top.key, l.items[l.iter]>>
  IN  /\ stack # <<>> /\ Top.step = "tell"
      /\ Replace([Top EXCEPT !.step = "handle", !.told = @ \cup {pair},
                             !.again = IF pair \in Top.told THEN @ \cup {pair} ELSE @])
      /\ UNCHANGED <<table, lists>>

(* Mutant of Handled: the iterator stays.                                  *)
HandledInPlace ==
  /\ stack # <<>> /\ Top.step = "handle"
  /\ Replace([Top EXCEPT !.step = "tell"])
  /\ UNCHANGED <<table, lists>>

(* The observer returns, the iterator moves on.  At the end, where another *)
(* walk has left it, it goes round to the first.                           *)
Handled ==
  LET l == lists[Top.list]
      next == (l.iter % (Len(l.items) + 1)) + 1
  IN  /\ stack # <<>> /\ Top.step = "handle"
      /\ IF l.iter = 0
         THEN Replace([Top EXCEPT !.step = "wild"]) /\ UNCHANGED lists
         ELSE /\ Replace([Top EXCEPT !.step = IF next > Len(l.items) THEN "key" ELSE "tell"])
              /\ lists' = [lists EXCEPT ![Top.list].iter = next]
      /\ UNCHANGED table

Begin ==
  \/ \E k \in Keys, o \in Observers : AddObserver(k, o) \/ RemoveObserver(k, o)
  \/ \E a \in Addresses : Notify(a)

(* What goes on by itself, observers that return included.                 *)
Step == NextKey \/ Return \/ Tell \/ Handled

Next == Begin \/ Step

Spec == Init /\ [][Next]_vars
FairSpec == Spec /\ WF_vars(Step)

-----------------------------------------------------------------------------
(* Every variable has its type; no list holds an observer twice.           *)
TypeOK ==
  /\ DOMAIN table \subseteq Keys /\ Range(table) \subseteq TTLists
  /\ \A l \in TTLists :
       /\ lists[l].items \in Seq(Observers) /\ IsInjective(lists[l].items)
       /\ lists[l].iter \in 0..Len(lists[l].items) + 1
  /\ stack \in Seq(Notifications)
  /\ \A f \in Frames : f.turn <= Cardinality(Keys)

(* TTNodeDirectory.cpp:422-433, 457-460.  The table has the keys that have *)
(* observers, each with a list of its own: its size, which ends the loop   *)
(* of notifyObservers, is the number of addresses that are observed.       *)
KeysHaveObservers ==
  /\ TypeOK
  /\ \A k \in DOMAIN table : Items(k) # <<>>
  /\ IsInjective(table)

(* TTNodeDirectory.cpp:482-499.  No turn of the loops reads a key, a list  *)
(* or an observer that is not there, whatever observers changed meanwhile. *)
NothingWild == \A f \in Frames : f.step # "wild"

(* TTNodeDirectory.cpp:453-455, 481-510.  When a notification ends,        *)
(* everybody who was registered above the address from its beginning to its*)
(* end was told once for each key, nobody twice, and nobody for a key of   *)
(* another's or after it was removed: also when observers came, went or    *)
(* notified others in between.                                             *)
EveryObserverTold ==
  /\ InTurn /\ AtEnd => Top.due \subseteq Top.told /\ Top.again = {}
  /\ \A f \in Frames : f.told \subseteq Registered

(* TTNodeDirectory.cpp:481-511.  When observers stop calling, the          *)
(* notifications under way come to their end.                              *)
CallsReturn == <>[][~ Begin]_vars => []<>(stack = <<>>)

=============================================================================

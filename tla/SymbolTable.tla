----------------------------- MODULE SymbolTable -----------------------------
(***************************************************************************)
(* TTSymbolTable (library/source/TTSymbolTable.cpp): the table that        *)
(* interns C strings as TTSymbol objects, so that the rest of the system   *)
(* compares names by the pointer or by the id of a symbol.  Every thread   *)
(* may call lookup(); the calls exclude each other with sMutex.            *)
(*                                                                         *)
(* A symbol is an index of `symbols', the sequence of every TTSymbol       *)
(* object ever allocated (they are freed with the table only).  The        *)
(* hash_map is the sequence of its pairs in the order of their insertion:  *)
(* nothing but dump() reads that order.                                    *)
(***************************************************************************)
EXTENDS Naturals, Sequences

CONSTANTS
  Threads,      (* the threads that call lookup()                          *)
  Strings,      (* the contents a caller may ask for                       *)
  EmptyString,  (* the content of the symbol the constructor inserts       *)
  NoThread,     (* the mutex is free                                       *)
  ByContent,    (* the map compares the characters of its keys (strcmp),   *)
                (* not the addresses of the buffers                        *)
  MaxSymbols    (* bound: no call starts once so many symbols exist        *)

ASSUME SymbolTableAssumption ==
  /\ EmptyString \in Strings
  /\ NoThread \notin Threads
  /\ ByContent \in BOOLEAN
  /\ MaxSymbols \in Nat

VARIABLES
  symbols,      (* the TTSymbol objects: content and id                    *)
  symbolTable,  (* the pairs of the map: key and symbol                    *)
  mutex,        (* the thread that holds sMutex                            *)
  pc,           (* where a thread is in lookup()                           *)
  arg,          (* the C string a thread passes                            *)
  iter,         (* the pair of the map a thread found, 0 for end()         *)
  newSymbol,    (* the symbol a thread created, 0 for none                 *)
  answers       (* history: what lookup() returned, for which content      *)

vars == <<symbols, symbolTable, mutex, pc, arg, iter, newSymbol, answers>>

-----------------------------------------------------------------------------
(* A C string is its content and the buffer it sits in: one that belongs   *)
(* to the caller, the literal "" of the constructor, or a symbol's own.    *)
CallerBuffer == 0
LiteralBuffer == 1
OwnBuffer(p) == p + 1
CString == [str : Strings, buf : Nat]

CStrings ==
  {[str |-> s, buf |-> CallerBuffer] : s \in Strings} \cup
  {[str |-> symbols[p].str, buf |-> OwnBuffer(p)] : p \in DOMAIN symbols}

(* What the map's comparator looks at.                                     *)
KeyOf(c) == IF ByContent THEN c.str ELSE c.buf

(* The string a symbol holds, in the symbol's own buffer.                  *)
GetCString(p, str) == [str |-> str, buf |-> OwnBuffer(p)]

Found(key) == {i \in DOMAIN symbolTable : symbolTable[i].key = key}

-----------------------------------------------------------------------------
(* TTSymbolTable::TTSymbolTable(): the empty symbol has the id 0; its key  *)
(* is the literal "", a buffer that is not the symbol's.                   *)
Init ==
  /\ symbols = <<[str |-> EmptyString, id |-> 0]>>
  /\ symbolTable = <<[key |-> KeyOf([str |-> EmptyString, buf |-> LiteralBuffer]),
                      sym |-> 1]>>
  /\ mutex = NoThread
  /\ pc = [t \in Threads |-> "idle"]
  /\ arg = [t \in Threads |-> [str |-> EmptyString, buf |-> CallerBuffer]]
  /\ iter = [t \in Threads |-> 0]
  /\ newSymbol = [t \in Threads |-> 0]
  /\ answers = {}

Goto(t, from, to) ==
  /\ pc[t] = from
  /\ pc' = [pc EXCEPT ![t] = to]

Call(t) ==
  /\ Goto(t, "idle", "lock")
  /\ Len(symbols) < MaxSymbols
  /\ \E c \in CStrings : arg' = [arg EXCEPT ![t] = c]
  /\ UNCHANGED <<symbols, symbolTable, mutex, iter, newSymbol, answers>>

(* Mutant of Lock: nothing waits for the mutex.                            *)
LockWithoutWaiting(t) ==
  /\ Goto(t, "lock", "find")
  /\ mutex' = t
  /\ UNCHANGED <<symbols, symbolTable, arg, iter, newSymbol, answers>>

Lock(t) ==
  /\ Goto(t, "lock", "find")
  /\ mutex = NoThread
  /\ mutex' = t
  /\ UNCHANGED <<symbols, symbolTable, arg, iter, newSymbol, answers>>

(* Mutant of Find: the test against end() is missing.                      *)
FindWithoutTest(t) ==
  /\ Goto(t, "find", "unlock")
  /\ \E i \in Found(KeyOf(arg[t])) \cup {0} : iter' = [iter EXCEPT ![t] = i]
  /\ UNCHANGED <<symbols, symbolTable, mutex, arg, newSymbol, answers>>

Find(t) ==
  /\ \/ /\ Goto(t, "find", "create")
        /\ Found(KeyOf(arg[t])) = {}
        /\ iter' = [iter EXCEPT ![t] = 0]
     \/ /\ Goto(t, "find", "unlock")
        /\ \E i \in Found(KeyOf(arg[t])) : iter' = [iter EXCEPT ![t] = i]
  /\ UNCHANGED <<symbols, symbolTable, mutex, arg, newSymbol, answers>>

(* new TTSymbol(aString, symbolTable->size())                              *)
Create(t) ==
  /\ Goto(t, "create", "insert")
  /\ symbols' = Append(symbols, [str |-> arg[t].str, id |-> Len(symbolTable)])
  /\ newSymbol' = [newSymbol EXCEPT ![t] = Len(symbols) + 1]
  /\ UNCHANGED <<symbolTable, mutex, arg, iter, answers>>

(* Mutant of Insert: the pairs move, and an iterator kept over the unlock  *)
(* is at another one.                                                      *)
InsertInFront(t) ==
  /\ Goto(t, "insert", "unlock")
  /\ symbolTable' = <<[key |-> KeyOf(GetCString(newSymbol[t], arg[t].str)), sym |-> newSymbol[t]]>>
                      \o symbolTable
  /\ UNCHANGED <<symbols, mutex, arg, iter, newSymbol, answers>>

(* insert() keeps the pair that is there, and the other pairs where they   *)
(* are, so that iterators stay with theirs.                                *)
Insert(t) ==
  /\ Goto(t, "insert", "unlock")
  /\ LET key == KeyOf(GetCString(newSymbol[t], arg[t].str))
     IN  symbolTable' = IF Found(key) = {}
                        THEN Append(symbolTable, [key |-> key, sym |-> newSymbol[t]])
                        ELSE symbolTable
  /\ UNCHANGED <<symbols, mutex, arg, iter, newSymbol, answers>>

(* Mutant of Unlock: one way out keeps the mutex.                          *)
UnlockFound(t) ==
  /\ Goto(t, "unlock", "return")
  /\ mutex' = IF iter[t] # 0 THEN mutex ELSE NoThread
  /\ UNCHANGED <<symbols, symbolTable, arg, iter, newSymbol, answers>>

Unlock(t) ==
  /\ Goto(t, "unlock", "return")
  /\ mutex' = NoThread
  /\ UNCHANGED <<symbols, symbolTable, arg, iter, newSymbol, answers>>

(* newSymbol, or iter->second.                                             *)
Result(t) == IF iter[t] = 0 THEN newSymbol[t] ELSE symbolTable[iter[t]].sym

(* The result is read after the unlock, while others may insert.           *)
Return(t) ==
  /\ Goto(t, "return", "idle")
  /\ answers' = answers \cup {[str |-> arg[t].str, sym |-> Result(t)]}
  /\ iter' = [iter EXCEPT ![t] = 0]
  /\ newSymbol' = [newSymbol EXCEPT ![t] = 0]
  /\ UNCHANGED <<symbols, symbolTable, mutex, arg>>

Step(t) ==
  \/ Lock(t)
  \/ Find(t)
  \/ Create(t)
  \/ Insert(t)
  \/ Unlock(t)
  \/ Return(t)

Next == \E t \in Threads : Call(t) \/ Step(t)

Spec == Init /\ [][Next]_vars

(* A thread inside lookup() keeps running; nobody has to call it.          *)
Fairness == \A t \in Threads : WF_vars(Step(t))

FairSpec == Spec /\ Fairness

-----------------------------------------------------------------------------
(* Every variable has its type; what a thread or an answer points at is a  *)
(* pair or a symbol that exists: the symbol is never read through end()    *)
(* (TTSymbolTable.cpp:45-58).                                              *)
PC == {"idle", "lock", "find", "create", "insert", "unlock", "return"}

TypeOK ==
  /\ symbols \in Seq([str : Strings, id : Nat])
  /\ symbolTable \in Seq([key : Strings \cup Nat, sym : Nat])
  /\ mutex \in Threads \cup {NoThread}
  /\ pc \in [Threads -> PC]
  /\ arg \in [Threads -> CString]
  /\ iter \in [Threads -> 0..Len(symbolTable)]
  /\ newSymbol \in [Threads -> 0..Len(symbols)]
  /\ answers \subseteq [str : Strings, sym : DOMAIN symbols]

(* TTSymbolTable.cpp:39-59.  Two calls of lookup(), by any threads and in  *)
(* any order, return the same symbol exactly when they were given strings  *)
(* with the same characters: comparing names by pointer is sound.          *)
Interning ==
  \A a, b \in answers : a.str = b.str <=> a.sym = b.sym

(* TTSymbol.h:71-77, TTSymbolTable.cpp:49.  operator== of symbols compares *)
(* ids, and the id is the size the table had: no two answers for different *)
(* contents share an id, and what an answer points at is the content asked.*)
UniqueIds ==
  /\ \A a \in answers : symbols[a.sym].str = a.str
  /\ \A a, b \in answers : symbols[a.sym].id = symbols[b.sym].id => a.str = b.str

(* Every symbol that a caller has been given is in the table, so that the  *)
(* next lookup of its content finds it: none was created in vain.          *)
AnswersInTable ==
  \A a \in answers : \E i \in DOMAIN symbolTable : symbolTable[i].sym = a.sym

(* Every way through lookup() gives the mutex back (lines 51 and 56).      *)
MutexReleased == mutex # NoThread ~> mutex = NoThread

(* The table and the answers as an abstract interning service.             *)
Service == INSTANCE Interning WITH
  interned <- [i \in DOMAIN symbolTable |-> symbols[symbolTable[i].sym].str],
  answered <- {<<a.str, symbols[a.sym].id>> : a \in answers}

(* lookup() behaves as if it interned and answered in one step each.       *)
ImplementsInterning == Service!Spec

=============================================================================
